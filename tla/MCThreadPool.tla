---------------------------- MODULE MCThreadPool ----------------------------
(***************************************************************************)
(* Instances of ThreadPool for TLC.                                        *)
(***************************************************************************)
EXTENDS ThreadPoolRefinement, TLC

CONSTANTS w1, w2, c1, c2, t1, t2

(* Each client creates, pushes, detaches and deletes its own task. *)
OneEach == [t \in Tasks |-> IF t = t1 THEN {c1} ELSE {c2}]

(* Task t1 may be joined by every client, t2 by c2. *)
T1Joined == [t \in Tasks |-> IF t = t1 THEN Clients ELSE {c2}]

(* Task t1 is owned by every client, t2 by c1. *)
T1Shared == [t \in Tasks |-> IF t = t1 THEN Clients ELSE {c1}]

WorkerSymmetry == Permutations(Workers)
=============================================================================
