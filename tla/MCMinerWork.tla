---------------------------- MODULE MCMinerWork ----------------------------
(* Instances of MinerWork for TLC: which batches hold a solution.          *)
EXTENDS MinerWork

\* In job 1 the first thread to claim a ticket finds a block in its second
\* batch and the second thread in its first, and job 2 holds one more, so
\* candidates of two threads and of two generations race.
TwoBatchHits == {<<1, 0, 1>>, <<1, 1, 0>>, <<2, 1, 0>>}

\* The same race with one batch in the nonce space.
RaceHits == {<<1, 0, 0>>, <<2, 1, 0>>}

\* One solution, in the first job: the second is ground until it is stopped.
OneHit == {<<1, 0, 0>>}
=============================================================================
