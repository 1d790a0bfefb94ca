---------------------------- MODULE MCWorkerPool ----------------------------
(* Two workers and two pools: t1 and t2 lock one resource from different   *)
(* pools, t3 locks nothing and has no handler.                             *)
EXTENDS WorkerPool, TLC

CONSTANTS t1, t2, t3, w1, w2, pa, pb, ra

MCPoolOf == [t \in Task |-> IF t = t2 THEN pb ELSE pa]
MCResourceOf == [t \in Task |-> IF t = t3 THEN NoResource ELSE ra]
MCConcurrency == [p \in Pool |-> 1]

\* Two pools that compete for the resource while heartbeats arrive in time.
Competing == [workers |-> Worker, cancelOnStop |-> {pb}, tasks |-> {t1, t2},
              handled |-> {t1, t2}, expires |-> "unrenewed", requests |-> 0]

\* One pool, leases that expire under their holder, a request of an operator.
Expiring == [workers |-> Worker, cancelOnStop |-> {pa}, tasks |-> {t1, t3},
             handled |-> {t1}, expires |-> "anytime", requests |-> 1]

\* One task that loses its worker and may be cancelled.
Abandoning == [workers |-> Worker, cancelOnStop |-> {pb}, tasks |-> {t2},
               handled |-> {t2}, expires |-> "abandoned", requests |-> 1]

SafetySettings == {Competing, Expiring}
LivenessSettings == {Abandoning}

WorkerSymmetry == Permutations(Worker)
=============================================================================
