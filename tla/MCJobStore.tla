----------------------------- MODULE MCJobStore -----------------------------
(***************************************************************************)
(* A small store for TLC: three requests for one repository, two of which  *)
(* carry the same idempotency key (so that at most two rows exist), two    *)
(* workers and one HTTP client.  Versions grow with every save; the        *)
(* constraint stops after MaxWrites of them, which leaves room for a       *)
(* claim, a reclaim, a second claim and saves by holders of older copies.  *)
(***************************************************************************)
EXTENDS JobStore, TLC

CONSTANTS j1, j2, j3, w1, w2, c1, repo, key, MaxWrites

MCRepoOf == (j1 :> repo) @@ (j2 :> repo) @@ (j3 :> repo)
MCKeyOf == (j1 :> NoKey) @@ (j2 :> key) @@ (j3 :> key)

WriteBound == rows[j1].version + rows[j2].version + rows[j3].version <= MaxWrites

WorkerSymmetry == Permutations({w1, w2})
=============================================================================
