------------------------- MODULE MCWorkloadGenerator -------------------------
(***************************************************************************)
(* WorkloadGenerator with a word of 3 bits and sectors of 2 bytes.         *)
(***************************************************************************)
EXTENDS WorkloadGenerator

\* Workloads below, at and above the modulus, by whole blocks or not; blocks
\* of whole sectors or not, up to the largest size a word holds.
MCProfiles ==
  [total_size : {4, 7, 8, 10}, block_size : {2, 3, 7}, num_blocks : {1, 2},
   operations : {{"read"}, {"write"}, {"read", "write"}},
   patterns : {{"sequential"}, {"random"}, {"sequential", "random"}}]
==============================================================================
