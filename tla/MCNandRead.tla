----------------------------- MODULE MCNandRead -----------------------------
(* NandRead with pages of two words of eight bits: three address bits.     *)
EXTENDS NandRead, FiniteSetsExt

MCAddress == SUBSET (0 .. AddressBits - 1)

\* Every fault of up to three wrong bits in the page and its ECC.
MCWordFaults(n) ==
  UNION {[data : kSubset(d, MCAddress), odd : kSubset(o, 0 .. AddressBits - 1),
          even : kSubset(n - d - o, 0 .. AddressBits - 1)] : <<d, o>> \in
            {p \in (0 .. n) \X (0 .. n) : p[1] + p[2] <= n}}
MCFaults ==
  UNION {{<<f, g>> : f \in MCWordFaults(p[1]), g \in MCWordFaults(p[2])} :
           p \in {q \in (0 .. 3) \X (0 .. 3) : q[1] + q[2] <= 3}}

\* Words with three ones: the code is linear, so that what a fault does to one
\* content it does to every other.
MCContents == {{{0}, {1, 2}, {0, 1, 2}}}
=============================================================================
