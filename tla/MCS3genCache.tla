---------------------------- MODULE MCS3genCache ----------------------------
(***************************************************************************)
(* The engines, the threads, the models' keys and the addresses are        *)
(* interchangeable, and only safety is checked.                            *)
(***************************************************************************)
EXTENDS S3genCache, TLC

Symmetry ==
    Permutations(Engines) \cup Permutations(Keys) \cup Permutations(Threads)
        \cup Permutations(Addrs) \cup Permutations(Shapes)
=============================================================================
