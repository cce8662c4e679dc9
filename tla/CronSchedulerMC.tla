--------------------------- MODULE CronSchedulerMC ---------------------------
(* TLC instance of CronScheduler: one cron bound to a thread, with a webhook,  *)
(* and one stateless cron whose threads are deleted.                          *)
EXTENDS CronScheduler, TLC

CONSTANTS bound, stateless, th1, th2, th3, r1, r2, p1, p2

Binding == bound :> th1 @@ stateless :> NoThread

\* Only th1 differs from the other threads.
Interchangeable ==
  Permutations(Runs) \cup Permutations(Schedulers) \cup Permutations({th2, th3})
=============================================================================
