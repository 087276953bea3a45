------------------------------ MODULE JobFeed -------------------------------
(***************************************************************************)
(* What the pool promises its miners about work, with the threads, the     *)
(* history, the queues and the handshake taken away: jobs are published    *)
(* one after another, each newer than the last and never on an older tip;  *)
(* a miner that listens hears of published jobs only, and of the newest    *)
(* one sooner or later. It may hear of a job again, or after a newer one.  *)
(* PoolJobs implements it.                                                 *)
(***************************************************************************)
EXTENDS Naturals

CONSTANTS Miners,
          MaxId, MaxJobTip   \* bounds of a job's number and tip

VARIABLES newest,      \* the job published last, or NoJob
          listening,   \* the miners past their handshake
          work, got    \* per miner: the job in hand, the newest it ever got

vars == <<newest, listening, work, got>>

Job   == [id : 1..MaxId, tip : 0..MaxJobTip]
NoJob == [id |-> 0, tip |-> 0]

Init ==
  /\ newest = NoJob /\ listening = {}
  /\ work = [m \in Miners |-> NoJob] /\ got = [m \in Miners |-> 0]

\* The newest job was found a successor. What became of the others is nobody's
\* concern here; a share's job is looked up in the history of PoolJobs.
Publish ==
  /\ newest' \in Job /\ newest'.id > newest.id /\ newest'.tip >= newest.tip
  /\ UNCHANGED <<listening, work, got>>

Listen(m) ==
  /\ m \notin listening /\ listening' = listening \cup {m}
  /\ UNCHANGED <<newest, work, got>>

Hear(m) ==
  /\ m \in listening
  /\ \E job \in Job :
       /\ job.id <= newest.id
       /\ work' = [work EXCEPT ![m] = job]
       /\ got' = [got EXCEPT ![m] = IF job.id > @ THEN job.id ELSE @]
  /\ UNCHANGED <<newest, listening>>

\* A miner leaves, at any stage.
Leave(m) ==
  /\ listening' = listening \ {m}
  /\ work' = [work EXCEPT ![m] = NoJob] /\ got' = [got EXCEPT ![m] = 0]
  /\ UNCHANGED newest

Next == Publish \/ \E m \in Miners : Listen(m) \/ Hear(m) \/ Leave(m)

Safety == Init /\ [][Next]_vars

\* No miner that stays is left behind: weak fairness of hearing of a newer job,
\* with the condition that enables it written out.
Outdated(m) == m \in listening /\ got[m] < newest.id

CatchesUp ==
  \A m \in Miners : []<>(~Outdated(m)) \/ []<><<Hear(m) /\ got'[m] > got[m]>>_vars

Spec == Safety /\ CatchesUp
=============================================================================
