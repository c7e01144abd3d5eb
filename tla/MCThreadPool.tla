----------------------------- MODULE MCThreadPool -----------------------------
(***************************************************************************)
(* Instances of ThreadPool for TLC.  t1 enqueues t4 while it runs and      *)
(* waits for it, and t2 waits for t1: two of three workers may block on    *)
(* the task at the end of the queue.                                       *)
(***************************************************************************)
EXTENDS ThreadPool, TLC

CONSTANTS t1, t2, t3, t4

MCTasks == {t1, t2, t3, t4}
MCNeeds == (t1 :> {t4}) @@ (t2 :> {t1}) @@ (t3 :> {}) @@ (t4 :> {})
MCSpawns == (t1 :> {t4}) @@ (t2 :> {}) @@ (t3 :> {}) @@ (t4 :> {})
=============================================================================
