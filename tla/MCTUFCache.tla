----------------------------- MODULE MCTUFCache -----------------------------
(* Instances of TUFCache for TLC.                                          *)
EXTENDS TUFCache, TLC

CONSTANTS p1, p2

Plain == [entry |-> "getTrustedRoot", seeded |-> TRUE, rootPath |-> FALSE, forceInit |-> FALSE,
          forceCache |-> FALSE, listed |-> TRUE]
\* As a process that only reads, one that initialises, one with a root of its
\* own, one that keeps to the cache, a mirror without a seed, another target.
SomeCalls ==
  {Plain, [Plain EXCEPT !.entry = "initTUF", !.forceInit = TRUE], [Plain EXCEPT !.rootPath = TRUE],
   [Plain EXCEPT !.forceCache = TRUE], [Plain EXCEPT !.seeded = FALSE],
   [Plain EXCEPT !.entry = "initTUF", !.listed = FALSE]}
Symmetric == Permutations({p1, p2})
=============================================================================
