---------------------------- MODULE MCThreadPool ----------------------------
(* Instances of ThreadPool for TLC: more tasks than threads.               *)
EXTENDS ThreadPool

CONSTANTS t1, t2, k1, k2, k3

TwoThreads == {t1, t2}
ThreeTasks == {k1, k2, k3}
=============================================================================
