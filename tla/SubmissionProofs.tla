-------------------------- MODULE SubmissionProofs --------------------------
(***************************************************************************)
(* Submission is type correct, submits no mistimed block and holds none    *)
(* longer than it must, on both kinds of network, for all gaps, limits and *)
(* lengths of the history.                                                 *)
(***************************************************************************)
EXTENDS Submission, SequenceTheorems, TLAPS

-----------------------------------------------------------------------------
(* The inductive invariant.                                                *)

\* The chain is no further ahead of the clock than its rules let it be.
ChainInv == tip.mtp <= tip.time /\ tip.time <= clock + MaxFuture

\* A template follows the rules for the block it asks for.
TemplateInv ==
  poll = "build" =>
    /\ template.parent.mtp <= template.parent.time
    /\ template.parent.time <= clock + MaxFuture
    /\ template.parent.mtp < template.time
    /\ template.time <= clock + MaxFuture
    /\ template.easy = QualifiesEasy(template.parent, template.time)

\* Blocks that are legal but for being early, by at most a gap and a second and
\* only with a window.
Sound ==
  {j \in Job : /\ j.parent.mtp < j.time
               /\ j.easy = QualifiesEasy(j.parent, j.time)
               /\ j.time <= clock + MaxFuture + Gap + 1
               /\ ~j.window => j.time <= clock + MaxFuture}

JobsInv == \A i \in DOMAIN jobs : jobs[i] \in Sound

\* A held block waits until it is legal and one being submitted is.
HoldInv ==
  /\ reader # "read" => active \in Sound
  /\ reader = "hold" => until = active.time - MaxFuture /\ until <= clock + Gap + 1
  /\ reader = "submit" => active.time <= clock + MaxFuture

RefusedInv == verdict # "refused"

IInv == TypeOK /\ ChainInv /\ TemplateInv /\ JobsInv /\ HoldInv /\ RefusedInv

USE NetworkAssumption, TimesAssumption, HistoryAssumption, BoundsAssumption
    DEF Block, Job, Template, Share, Verdict, NoBlock, NoJob, NoTemplate

-----------------------------------------------------------------------------
(* What the helpers return.                                                *)

\* The newest job goes first, what was there moves back, and no more than
\* JOB_HISTORY are kept.
LEMMA PushFrontKeeps ==
  ASSUME NEW S, NEW j \in S, NEW s \in Seq(S), Len(s) <= History
  PROVE  /\ PushFront(j, s) \in Seq(S)
         /\ Len(PushFront(j, s)) <= History
         /\ \A i \in DOMAIN PushFront(j, s) :
              PushFront(j, s)[i] = j \/ \E k \in DOMAIN s : PushFront(j, s)[i] = s[k]
<1> DEFINE both == <<j>> \o s
           n    == Smaller(Len(s) + 1, History)
<1>1. both \in Seq(S) /\ Len(both) = Len(s) + 1 /\ Len(s) \in Nat
  BY ConcatProperties, LenProperties
<1>2. n \in 1..Len(both) /\ n <= History
  BY <1>1 DEF Smaller
<1>3. /\ SubSeq(both, 1, n) \in Seq(S)
      /\ Len(SubSeq(both, 1, n)) = n
      /\ \A i \in 1..n : SubSeq(both, 1, n)[i] = both[i]
  <2> HIDE DEF both, n
  <2> QED BY <1>1, <1>2
<1>4. \A i \in 1..n : both[i] = j \/ \E k \in DOMAIN s : both[i] = s[k]
  <2> SUFFICES ASSUME NEW i \in 1..n, i # 1 PROVE \E k \in DOMAIN s : both[i] = s[k]
    BY <1>1, <1>2
  <2>1. i - 1 \in DOMAIN s /\ both[i] = s[i - 1]
    BY <1>1, <1>2
  <2> QED BY <2>1
<1> QED
  <2> HIDE DEF both, n
  <2>1. PushFront(j, s) = SubSeq(both, 1, n)
    BY DEF PushFront, both, n
  <2>2. DOMAIN SubSeq(both, 1, n) = 1..n
    BY <1>3, <1>2, LenProperties
  <2> QED BY <1>2, <1>3, <1>4, <2>1, <2>2

LEMMA NothingsAreTyped == NoJob \in Job /\ NoTemplate \in Template
OBVIOUS

LEMMA EasyIsBoolean ==
  ASSUME NEW b, NEW t PROVE QualifiesEasy(b, t) \in BOOLEAN
BY DEF QualifiesEasy

\* Whatever the template, a job built from it is sound: the window is the
\* earliest time that qualifies, since a parent is no earlier than the median.
LEMMA BuiltJobsAreSound ==
  ASSUME TypeOK, TemplateInv, poll = "build", NEW window \in {FALSE, MinDifficultyNetwork}
  PROVE  JobFor(template, nextId, window) \in Sound
<1> DEFINE j == JobFor(template, nextId, window)
<1>1. /\ template.parent \in Block /\ template.time \in Nat /\ template.easy \in BOOLEAN
      /\ template.parent.mtp \in Nat /\ template.parent.time \in Nat
      /\ nextId \in Nat /\ clock \in Nat
  BY DEF TypeOK
<1>2. /\ template.parent.mtp <= template.parent.time
      /\ template.parent.time <= clock + MaxFuture
      /\ template.parent.mtp < template.time /\ template.time <= clock + MaxFuture
      /\ template.easy = QualifiesEasy(template.parent, template.time)
  BY DEF TemplateInv
<1>3. CASE window
  <2>1. PlanTime(template.parent, template.parent.mtp + 1) = template.parent.time + Gap + 1
    BY <1>1, <1>2 DEF PlanTime, Larger
  <2>2. j = [id |-> nextId, parent |-> template.parent, window |-> TRUE,
             time |-> template.parent.time + Gap + 1, easy |-> TRUE]
    BY <1>3, <2>1 DEF JobFor
  <2>3. QualifiesEasy(j.parent, j.time)
    <3>1. MinDifficultyNetwork
      BY <1>3
    <3>2. j.time > j.parent.time + Gap
      BY <1>1, <2>2
    <3> QED BY <3>1, <3>2 DEF QualifiesEasy
  <2>4. /\ j \in Job /\ j.window /\ j.easy
        /\ j.parent.mtp < j.time /\ j.time <= clock + MaxFuture + Gap + 1
    BY <1>1, <1>2, <2>2
  <2> QED BY <2>3, <2>4 DEF Sound
<1>4. CASE ~window
  <2>1. j = [id |-> nextId, parent |-> template.parent, window |-> FALSE,
             time |-> template.time, easy |-> template.easy]
    BY <1>1, <1>4 DEF JobFor
  <2>2. /\ j \in Job /\ j.parent = template.parent /\ j.time = template.time
        /\ j.easy = template.easy /\ j.parent.mtp < j.time
        /\ j.time <= clock + MaxFuture /\ j.time <= clock + MaxFuture + Gap + 1
    BY <1>1, <1>2, <2>1
  <2> QED BY <1>2, <2>2 DEF Sound
<1> QED BY <1>3, <1>4

\* A block on the best one moves the tip by the rules.
LEMMA ExtendsKeepsTheRules ==
  ASSUME tip \in Block, NEW t \in Nat, Extends(t)
  PROVE  tip' \in Block /\ tip'.mtp <= tip'.time /\ tip'.time = t
<1> PICK m \in tip.mtp..t : tip' = [height |-> tip.height + 1, time |-> t, mtp |-> m]
  BY DEF Extends
<1> QED OBVIOUS

\* Time only adds to what is sound.
LEMMA SoundGrows ==
  ASSUME clock \in Nat, clock' \in Nat, clock <= clock'
  PROVE  Sound \subseteq Sound'
BY DEF Sound

-----------------------------------------------------------------------------
(* The inductive invariant holds at first and is kept by every action.     *)

LEMMA InitInv == Init => IInv
<1> SUFFICES ASSUME Init PROVE IInv
  OBVIOUS
<1>1. PICK t \in 0..Start + MaxFuture : \E m \in 0..t : tip = [height |-> 0, time |-> t, mtp |-> m]
  BY DEF Init
<1>2. PICK m \in 0..t : tip = [height |-> 0, time |-> t, mtp |-> m]
  BY <1>1
<1>3. Start \in Nat /\ clock = Start
  BY DEF Init, Start
<1>4. tip \in Block /\ ChainInv
  BY <1>1, <1>2, <1>3 DEF ChainInv
<1>5. jobs \in Seq(Job) /\ Len(jobs) = 0 /\ DOMAIN jobs = {} /\ line \in Seq(Share)
  BY DEF Init
<1>6. TypeOK
  <2>1. /\ poll = "fetch" /\ template = NoTemplate /\ lastTip = -1 /\ lastEasy = FALSE
        /\ lastBuilt = Start /\ nextId = 1 /\ work = NoJob /\ sent = 0 /\ reader = "read"
        /\ active = NoJob /\ until = 0 /\ verdict = "judged" /\ answered = 0
    BY DEF Init
  <2>2. clock \in Nat /\ Len(jobs) <= History
    BY <1>3, <1>5
  <2> HIDE DEF Job, Template, Block, NoJob, NoTemplate
  <2> QED BY <1>3, <1>4, <1>5, <2>1, <2>2, NothingsAreTyped DEF TypeOK
<1> QED BY <1>4, <1>5, <1>6 DEF Init, IInv, TemplateInv, JobsInv, HoldInv, RefusedInv

\* The clock: everything that was legal stays so.
LEMMA TickStep == IInv /\ Tick => IInv'
<1> SUFFICES ASSUME IInv, Tick PROVE IInv'
  OBVIOUS
<1> USE DEF IInv, Tick, node, poller, miner, session
<1>1. clock \in Nat /\ clock' = clock + 1 /\ tip \in Block /\ template \in Template
      /\ active \in Job /\ until \in Nat
  BY DEF TypeOK
<1>2. TypeOK'
  BY <1>1 DEF TypeOK
<1>3. ChainInv'
  BY <1>1 DEF ChainInv
<1>4. TemplateInv'
  BY <1>1 DEF TemplateInv
<1>5. Sound \subseteq Sound'
  BY <1>1, SoundGrows
<1>6. JobsInv'
  BY <1>5 DEF JobsInv
<1>7. HoldInv'
  BY <1>1, <1>5 DEF HoldInv
<1> QED BY <1>2, <1>3, <1>4, <1>6, <1>7 DEF RefusedInv

\* What leaves the clock, the jobs and the session alone.
LEMMA TipMovesStep == IInv /\ TipMoves => IInv'
<1> SUFFICES ASSUME IInv, TipMoves PROVE IInv'
  OBVIOUS
<1> USE DEF IInv, TipMoves, poller, miner, session
<1>1. clock \in Nat /\ tip \in Block
  BY DEF TypeOK
<1>2. PICK t \in tip.mtp + 1..clock + MaxFuture : Extends(t)
  OBVIOUS
<1>3. t \in Nat /\ t <= clock + MaxFuture
  BY <1>1, <1>2
<1>4. tip' \in Block /\ tip'.mtp <= tip'.time /\ tip'.time = t
  BY <1>1, <1>2, <1>3, ExtendsKeepsTheRules
<1>5. TypeOK' /\ ChainInv'
  BY <1>3, <1>4 DEF TypeOK, ChainInv
<1> QED BY <1>5 DEF TemplateInv, JobsInv, HoldInv, RefusedInv, Sound

LEMMA StutterStep == IInv /\ UNCHANGED vars => IInv'
BY DEF IInv, TypeOK, TemplateInv, ChainInv, JobsInv, HoldInv, RefusedInv, Sound,
   vars, node, poller, miner, session

LEMMA PollerStep == IInv /\ Poller => IInv'
<1> SUFFICES ASSUME IInv, Poller PROVE IInv'
  OBVIOUS
<1> USE DEF IInv, node, miner, session
<1>1. /\ clock \in Nat /\ tip \in Block /\ nextId \in Nat
      /\ template \in Template /\ jobs \in Seq(Job) /\ Len(jobs) <= History
  BY DEF TypeOK
<1>2. CASE FetchTemplate
  <2> USE <1>2 DEF FetchTemplate
  <2> DEFINE time == Larger(tip.mtp + 1, clock)
  <2>1. time \in Nat /\ tip.mtp < time /\ time <= clock + MaxFuture
    BY <1>1 DEF Larger
  <2>2. /\ template' = [parent |-> tip, time |-> time, easy |-> QualifiesEasy(tip, time)]
        /\ poll' = "build"
    OBVIOUS
  <2> HIDE DEF time
  <2>3. TypeOK'
    <3>1. template' \in Template
      BY <1>1, <2>1, <2>2, EasyIsBoolean
    <3> QED BY <3>1, <2>2 DEF TypeOK
  <2>4. TemplateInv'
    BY <1>1, <2>1, <2>2 DEF TemplateInv, ChainInv
  <2> QED BY <2>3, <2>4 DEF ChainInv, JobsInv, HoldInv, RefusedInv, Sound
<1>3. CASE NothingNew \/ BuildFails
  <2> USE <1>3 DEF NothingNew, BuildFails
  <2>1. TypeOK'
    <3>1. template' \in Template /\ poll' = "fetch" /\ nextId' \in Nat
      <4>1. template' = NoTemplate /\ poll' = "fetch" /\ nextId' \in {nextId, nextId + 1}
        <5> HIDE DEF NoTemplate
        <5> QED OBVIOUS
      <4> HIDE DEF NoTemplate, Template, NothingNew, BuildFails
      <4> QED BY <1>1, <4>1, NothingsAreTyped
    <3>2. UNCHANGED <<clock, tip, lastTip, lastEasy, lastBuilt, jobs, work, line, sent,
                      reader, active, until, verdict, answered>>
      OBVIOUS
    <3> HIDE DEF Job, Template, Block, NothingNew, BuildFails
    <3> QED BY <3>1, <3>2 DEF TypeOK
  <2>2. poll' = "fetch" /\ UNCHANGED <<clock, tip, jobs, reader, active, until, verdict>>
    OBVIOUS
  <2> QED BY <2>1, <2>2 DEF TemplateInv, ChainInv, JobsInv, HoldInv, RefusedInv, Sound
<1>4. CASE Install
  <2> USE <1>4 DEF Install
  <2>1. PICK window \in {FALSE, MinDifficultyNetwork} :
          jobs' = PushFront(JobFor(template, nextId, window), jobs)
    OBVIOUS
  <2> DEFINE j == JobFor(template, nextId, window)
  <2>2. j \in Sound /\ j \in Job
    BY BuiltJobsAreSound DEF Sound
  <2>3. /\ jobs' \in Seq(Job) /\ Len(jobs') <= History
        /\ \A i \in DOMAIN jobs' : jobs'[i] = j \/ \E k \in DOMAIN jobs : jobs'[i] = jobs[k]
    <3>1. jobs' = PushFront(j, jobs)
      BY <2>1
    <3> HIDE DEF j, Job
    <3> QED BY <1>1, <2>2, <3>1, PushFrontKeeps
  <2>4. poll' = "fetch" /\ UNCHANGED <<clock, tip, reader, active, until, verdict>> /\ Sound' = Sound
    BY DEF Sound
  <2>5. TypeOK'
    BY <1>1, <2>3 DEF TypeOK
  <2>6. JobsInv'
    <3> HIDE DEF j
    <3> QED BY <2>2, <2>3, <2>4 DEF JobsInv
  <2> QED BY <2>4, <2>5, <2>6 DEF TemplateInv, ChainInv, HoldInv, RefusedInv
<1>5. CASE FetchFails
  <2>1. UNCHANGED vars
    BY <1>5 DEF FetchFails
  <2> QED BY <2>1, StutterStep
<1> QED BY <1>2, <1>3, <1>4, <1>5 DEF Poller

LEMMA MinerStep == IInv /\ Miner => IInv'
<1> SUFFICES ASSUME IInv, Miner PROVE IInv'
  OBVIOUS
<1> USE DEF IInv, node, poller, session
<1>1. UNCHANGED <<clock, tip, poll, template, lastTip, lastEasy, lastBuilt, jobs, nextId,
                  reader, active, until, verdict, answered>>
  BY DEF Miner, TakeWork, SubmitShare
<1>2. work' \in Job
  <2>1. Newest \in Job
    <3> HIDE DEF Job
    <3> QED BY NothingsAreTyped DEF Newest, TypeOK
  <2> QED BY <2>1 DEF Miner, TakeWork, SubmitShare, TypeOK
<1>3. line' \in Seq(Share) /\ sent' \in Nat
  <2>1. [id |-> work.id, height |-> work.parent.height] \in Share
    BY DEF TypeOK
  <2>2. /\ line' = line \/ line' = Append(line, [id |-> work.id, height |-> work.parent.height])
        /\ sent' \in {sent, sent + 1}
    <3> HIDE DEF NoJob
    <3> QED BY DEF Miner, TakeWork, SubmitShare
  <2>3. line \in Seq(Share) /\ sent \in Nat
    BY DEF TypeOK
  <2> HIDE DEF Share
  <2> QED BY <2>1, <2>2, <2>3
<1>4. TypeOK'
  <2> HIDE DEF Job, Template, Block, Share
  <2> QED BY <1>1, <1>2, <1>3 DEF TypeOK
<1> QED BY <1>1, <1>4 DEF TemplateInv, ChainInv, JobsInv, HoldInv, RefusedInv, Sound

\* A reply, with whatever verdict but a refusal, leaves the reader free.
LEMMA AnswerStep ==
  ASSUME IInv, NEW v \in Verdict \ {"refused"}, Answer(v), line' \in Seq(Share),
         tip' \in Block /\ tip'.mtp <= tip'.time /\ tip'.time <= clock + MaxFuture,
         UNCHANGED <<clock, poll, template, lastTip, lastEasy, lastBuilt, jobs, nextId, work, sent>>
  PROVE  IInv'
<1> USE DEF IInv, Answer
<1>1. TypeOK'
  <2>1. /\ reader' = "read" /\ active' \in Job /\ until' = 0
        /\ verdict' = v /\ answered' \in Nat
    BY NothingsAreTyped DEF TypeOK
  <2> HIDE DEF Job, Template, Block, Share, Answer
  <2> QED BY <2>1 DEF TypeOK
<1> QED BY <1>1 DEF TemplateInv, ChainInv, JobsInv, HoldInv, RefusedInv, Sound

LEMMA JudgeStep == IInv /\ (ShareMalformed \/ ShareUnknown \/ ShareLoses) => IInv'
<1> SUFFICES ASSUME IInv, ShareMalformed \/ ShareUnknown \/ ShareLoses PROVE IInv'
  OBVIOUS
<1> USE DEF ShareMalformed, ShareUnknown, ShareLoses
<1>1. line' \in Seq(Share)
  <2>1. line \in Seq(Share) /\ line # << >> /\ line' = Tail(line)
    BY DEF TakeShare, IInv, TypeOK
  <2> HIDE DEF Share
  <2> QED BY <2>1, HeadTailProperties
<1>2. UNCHANGED <<clock, tip, poll, template, lastTip, lastEasy, lastBuilt, jobs, nextId, work, sent>>
  BY DEF node, poller, miner
<1>3. tip' \in Block /\ tip'.mtp <= tip'.time /\ tip'.time <= clock + MaxFuture
  BY <1>2 DEF IInv, TypeOK, ChainInv
<1>4. \E v \in Verdict \ {"refused"} : Answer(v)
  OBVIOUS
<1> HIDE DEF ShareMalformed, ShareUnknown, ShareLoses
<1> QED BY <1>1, <1>2, <1>3, <1>4, AnswerStep

\* A winning share: the hold is what legality asks for, since the cap exceeds it.
LEMMA ShareWinsStep == IInv /\ ShareWins => IInv'
<1> SUFFICES ASSUME IInv, ShareWins PROVE IInv'
  OBVIOUS
<1>1. UNCHANGED <<clock, tip, poll, template, lastTip, lastEasy, lastBuilt, jobs, nextId,
                  work, sent, verdict, answered>>
  BY DEF ShareWins, node, poller, miner
<1>2. PICK i \in DOMAIN jobs :
        /\ active' = jobs[i]
        /\ reader' = IF HoldTime(jobs[i]) > 0 THEN "hold" ELSE "submit"
        /\ until' = IF HoldTime(jobs[i]) > 0 THEN clock + HoldTime(jobs[i]) ELSE 0
  BY DEF ShareWins
<1>3. jobs[i] \in Sound /\ jobs[i] \in Job /\ clock \in Nat
  BY DEF IInv, JobsInv, TypeOK, Sound
<1>4. /\ HoldTime(jobs[i]) \in Nat
      /\ HoldTime(jobs[i]) = 0 => jobs[i].time <= clock + MaxFuture
      /\ HoldTime(jobs[i]) > 0 => /\ clock + HoldTime(jobs[i]) = jobs[i].time - MaxFuture
                                  /\ clock + HoldTime(jobs[i]) <= clock + Gap + 1
  <2>1. CASE jobs[i].window
    BY <1>3, <2>1 DEF HoldTime, SecondsToWait, Larger, Smaller, Sound
  <2>2. CASE ~jobs[i].window
    BY <1>3, <2>2 DEF HoldTime, Sound
  <2> QED BY <2>1, <2>2
<1>5. TypeOK'
  <2>1. line' \in Seq(Share)
    <3>1. line \in Seq(Share) /\ line # << >> /\ line' = Tail(line)
      BY DEF ShareWins, TakeShare, IInv, TypeOK
    <3> HIDE DEF Share
    <3> QED BY <3>1, HeadTailProperties
  <2>2. active' \in Job /\ until' \in Nat /\ reader' \in {"hold", "submit"}
    BY <1>2, <1>3, <1>4
  <2> HIDE DEF Job, Template, Block, Share
  <2> QED BY <1>1, <2>1, <2>2 DEF IInv, TypeOK
<1>6. HoldInv'
  <2>1. active' \in Sound'
    BY <1>1, <1>2, <1>3 DEF Sound
  <2> HIDE DEF Job
  <2> QED BY <1>1, <1>2, <1>4, <2>1 DEF HoldInv
<1> QED BY <1>1, <1>5, <1>6 DEF IInv, TemplateInv, ChainInv, JobsInv, RefusedInv, Sound

LEMMA HoldEndsStep == IInv /\ HoldEnds => IInv'
<1> SUFFICES ASSUME IInv, HoldEnds PROVE IInv'
  OBVIOUS
<1>1. /\ UNCHANGED <<clock, tip, poll, template, lastTip, lastEasy, lastBuilt, jobs, nextId,
                     work, sent, line, active, verdict, answered>>
      /\ reader = "hold" /\ clock >= until /\ reader' = "submit" /\ until' = 0
  BY DEF HoldEnds, node, poller, miner
<1>2. TypeOK'
  <2> HIDE DEF Job, Template, Block, Share
  <2> QED BY <1>1 DEF IInv, TypeOK
<1>3. HoldInv'
  <2>1. /\ active \in Sound /\ until = active.time - MaxFuture
        /\ clock \in Nat /\ active.time \in Nat
    BY <1>1 DEF IInv, HoldInv, TypeOK
  <2>2. active.time <= clock + MaxFuture
    BY <1>1, <2>1
  <2>3. Sound' = Sound
    BY <1>1 DEF Sound
  <2> QED BY <1>1, <2>1, <2>2, <2>3 DEF HoldInv
<1> QED BY <1>1, <1>2, <1>3 DEF IInv, TemplateInv, ChainInv, JobsInv, RefusedInv, Sound

\* What is submitted is legal, so it is not refused; what is accepted moves the
\* tip by the rules.
LEMMA SubmitStep ==
  IInv /\ (BlockAccepted \/ BlockRefused \/ RpcFails) => IInv'
<1> SUFFICES ASSUME IInv, BlockAccepted \/ BlockRefused \/ RpcFails PROVE IInv'
  OBVIOUS
<1> USE DEF BlockAccepted, BlockRefused, RpcFails
<1>1. reader = "submit" /\ active \in Sound /\ active.time <= clock + MaxFuture
  BY DEF IInv, HoldInv
<1>2. ~Illegal(active)
  <2>1. /\ active.time \in Nat /\ active.parent.mtp \in Nat /\ clock \in Nat
        /\ active.parent.mtp < active.time
        /\ active.easy = QualifiesEasy(active.parent, active.time)
    BY <1>1 DEF Sound, IInv, TypeOK
  <2>2. ~(active.time > clock + MaxFuture) /\ ~(active.time <= active.parent.mtp)
    BY <1>1, <2>1
  <2> QED BY <2>1, <2>2 DEF Illegal
<1>3. UNCHANGED <<clock, poll, template, lastTip, lastEasy, lastBuilt, jobs, nextId, work, sent, line>>
  BY DEF poller, miner
<1>4. tip' = tip \/ Extends(active.time)
  BY DEF node
<1>5. tip' \in Block /\ tip'.mtp <= tip'.time /\ tip'.time <= clock + MaxFuture
  <2>1. CASE tip' = tip
    BY <2>1 DEF IInv, TypeOK, ChainInv
  <2>2. CASE Extends(active.time)
    <3>1. active.time \in Nat /\ tip \in Block
      BY DEF IInv, TypeOK
    <3> QED BY <1>1, <2>2, <3>1, ExtendsKeepsTheRules
  <2> QED BY <1>4, <2>1, <2>2
<1>6. Answer("judged")
  BY <1>2
<1>7. line' \in Seq(Share)
  BY <1>3 DEF IInv, TypeOK
<1> QED
  <2> HIDE DEF BlockAccepted, BlockRefused, RpcFails
  <2> QED BY <1>3, <1>5, <1>6, <1>7, AnswerStep

LEMMA NextInv == IInv /\ [Next]_vars => IInv'
<1> SUFFICES ASSUME IInv, [Next]_vars PROVE IInv'
  OBVIOUS
<1>1. CASE UNCHANGED vars
  BY <1>1, StutterStep
<1>2. CASE Session
  BY <1>2, JudgeStep, ShareWinsStep, HoldEndsStep, SubmitStep DEF Session
<1> QED BY <1>1, <1>2, TickStep, TipMovesStep, PollerStep, MinerStep DEF Next

-----------------------------------------------------------------------------
(* The theorems.                                                           *)

THEOREM Invariance == Spec => []IInv
<1>1. Init => IInv
  BY InitInv
<1>2. IInv /\ [Next]_vars => IInv'
  BY NextInv
<1> QED BY <1>1, <1>2, PTL DEF Spec

\* The variables keep their types, and the history its bound.
THEOREM TypeCorrect == Spec => []TypeOK
<1>1. IInv => TypeOK
  BY DEF IInv
<1> QED BY <1>1, Invariance, PTL

\* No block of ours is ever refused for its timestamp or bits (validate.rs:67), on
\* either kind of network.
THEOREM NeverMistimed == Spec => []NoBlockIsMistimed
<1>1. IInv => NoBlockIsMistimed
  BY DEF IInv, RefusedInv, NoBlockIsMistimed
<1> QED BY <1>1, Invariance, PTL

\* No hold is longer than a gap and a second (validate.rs:134): the cap of
\* MAX_SUBMISSION_HOLD changes nothing.
THEOREM HoldsAreShort == Spec => []HoldIsAtMostTheGap
<1>1. IInv => HoldIsAtMostTheGap
  BY DEF IInv, HoldInv, HoldIsAtMostTheGap
<1> QED BY <1>1, Invariance, PTL

\* A block is held only while the node would refuse it (min_difficulty.rs:97).
THEOREM HoldsAreNeeded == Spec => []HeldBlocksAreEarly
<1>1. IInv => HeldBlocksAreEarly
  <2>1. ASSUME IInv, reader = "hold", clock < until PROVE active.time > clock + MaxFuture
    <3>1. clock \in Nat /\ active.time \in Nat /\ until = active.time - MaxFuture
      BY <2>1 DEF IInv, HoldInv, TypeOK
    <3> QED BY <2>1, <3>1
  <2> QED BY <2>1 DEF HeldBlocksAreEarly
<1> QED BY <1>1, Invariance, PTL

\* Both: a block waits exactly as long as it has to, which is never for long.
THEOREM HoldsFit == Spec => []HoldsAreAsLongAsNeeded
<1>1. HoldIsAtMostTheGap /\ HeldBlocksAreEarly => HoldsAreAsLongAsNeeded
  BY DEF HoldsAreAsLongAsNeeded
<1> QED BY <1>1, HoldsAreShort, HoldsAreNeeded, PTL
=============================================================================
