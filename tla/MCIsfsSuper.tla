---------------------------- MODULE MCIsfsSuper ----------------------------
(* IsfsSuper on small flashes: three pages a slot, the first two of them   *)
(* the cluster with the header.                                            *)
EXTENDS IsfsSuper

Clean == [p \in 1 .. 3 |-> 0]
Page(q, r) == [Clean EXCEPT ![q] = r]

\* The volumes have different limits, on both sides of a generation.
MCLimit == [v \in 0 .. Volumes - 1 |-> 2 + v]

\* Every fault of a slot, alone: blank; a page of the header or of the rest
\* corrected or lost; the HMAC with no or one matching copy.
MCSlots ==
  [page : {Clean}, version : {-1}, generation : {1}, matched : {2}]
  \cup [page : {Clean}, version : {0}, generation : 0 .. 2, matched : 0 .. 1]
  \cup [page : {Page(1, 1), Page(2, 1), Page(2, -1), Page(3, -1)},
        version : {1}, generation : {1}, matched : {2}]

\* One volume with every page fault at every generation.
MCSlotsPages ==
  [page : {Clean, Page(1, 1), Page(2, 1), Page(3, 1), Page(3, -1)}, version : {1},
   generation : 0 .. 2, matched : {2}]
=============================================================================
