---------------------------- MODULE MCMountCache ----------------------------
(* The instance of MountCache: all of its sets are interchangeable values.   *)
EXTENDS MountCache, TLC

AllArchives == {Archives}

Symmetry ==
  Permutations(Procs) \cup Permutations(Archives)
    \cup Permutations(Contents) \cup Permutations(Dicts)
=============================================================================
