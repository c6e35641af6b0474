------------------------------ MODULE MCFatDev ------------------------------
(* Two cards of four clusters: one with a file of two clusters, one nearly full. *)
EXTENDS FatDev

MCFlags ==
  {[NoFlags EXCEPT !.rd = TRUE],
   [NoFlags EXCEPT !.rd = TRUE, !.wr = TRUE, !.creat = TRUE],
   [NoFlags EXCEPT !.rd = TRUE, !.wr = TRUE, !.trunc = TRUE],
   [NoFlags EXCEPT !.wr = TRUE, !.creat = TRUE, !.trunc = TRUE],
   [NoFlags EXCEPT !.wr = TRUE, !.creat = TRUE, !.excl = TRUE],
   [NoFlags EXCEPT !.wr = TRUE, !.app = TRUE]}

Named(name, clust, size) == [name |-> name, clust |-> clust, size |-> size]

\* The sectors that hold this FAT, root directory and count, and bytes to be told apart.
Formatted(fat, root, free) ==
  [s \in Sector |->
     CASE s[1] = "fat" -> [k \in {c \in Cluster : Fat(c) = s} |-> fat[k - 1]]
       [] s[1] = "dir" -> [i \in {j \in 1 .. n_rootdir : Dir(j) = s} |-> root[i]]
       [] s[1] = "info" -> [free |-> free, next |-> 2]
       [] OTHER -> [i \in 0 .. SS - 1 |-> -2 * s[2] - i]]

MCBlank ==
  [c \in {1, 2} |->
     IF c = 1 THEN {Formatted(<<EOC, 2, 0, 0>>, <<Removed, Named("a", 3, 5)>>, 2)}
     ELSE {Formatted(<<EOC, EOC, 0, 0>>, <<Named("z", 2, 3), Named("a", 3, 4)>>, Ones)}]

MCSeeks == {<<9, "SET">>, <<-1, "CUR">>, <<2, "END">>}
=============================================================================
