------------------------------ MODULE MCPpcStart ------------------------------
(* PpcStart with every table of up to one header more than phdrs holds.     *)
EXTENDS PpcStart

MCTables == UNION {[1 .. n -> Header] : n \in 0 .. PhdrMax + 1}
MCFiles == {[usable |-> u, phdrs |-> t] : u \in BOOLEAN, t \in MCTables}
===============================================================================
