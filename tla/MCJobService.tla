---------------------------- MODULE MCJobService ----------------------------
(***************************************************************************)
(* Instances of the job service for TLC: one or two requests for one       *)
(* repository.  MaxAttempts = 2 leaves room for a reclaim, a second        *)
(* attempt and a failure for good.                                         *)
(***************************************************************************)
EXTENDS JobService, TLC

CONSTANTS j1, j2, w1, w2, c1, c2, repo

MCRepoOf == [j \in Jobs |-> repo]
MCKeyOf == [j \in Jobs |-> NoKey]

WorkerSymmetry == Permutations(Workers)
ProcessSymmetry == Permutations(Workers) \cup Permutations(Clients)
=============================================================================
