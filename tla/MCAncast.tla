------------------------------ MODULE MCAncast ------------------------------
(* Two volumes with four blocks a cluster and two a command of the engine.  *)
EXTENDS Ancast

Entry(name, type, sub, sib, size) ==
  [name |-> name, type |-> type, sub |-> sub, sib |-> sib, size |-> size]

\* Volume 0: /d/k (two clusters and a half), /d/e (empty), /f (no data) and /o,
\* neither file nor directory.  Volume 1: /f (two clusters, the second first).
MCFst ==
  [v \in {0, 1} |->
     IF v = 0
     THEN [n \in 0 .. 5 |->
             CASE n = 0 -> Entry("/", "dir", 2, Nil, 0)
               [] n = 1 -> Entry("f", "file", Last, 4, 0)
               [] n = 2 -> Entry("d", "dir", 5, 1, 0)
               [] n = 3 -> Entry("e", "dir", Nil, Nil, 0)
               [] n = 4 -> Entry("o", "unknown", Nil, Nil, 0)
               [] n = 5 -> Entry("k", "file", 2, 3, 10)]
     ELSE [n \in 0 .. 1 |->
             IF n = 0 THEN Entry("/", "dir", 1, Nil, 0) ELSE Entry("f", "file", 3, Nil, 8)]]

MCFat ==
  [v \in {0, 1} |->
     IF v = 0 THEN [c \in 1 .. 3 |-> CASE c = 2 -> 1 [] c = 1 -> 3 [] c = 3 -> Last]
     ELSE [c \in 1 .. 3 |-> IF c = 3 THEN 2 ELSE Last]]

MCPaths ==
  {<<"", "d", "k">>, <<"", "", "d", "", "k">>, <<"", "f">>, <<"", "f", "">>, <<"", "f", "k">>,
   <<"", "d", "e">>, <<"", "d", "e", "k">>, <<"", "d", "">>, <<"", "">>, <<"", "d", "f">>,
   <<"", "o">>}

MCSeeks == {<<3, "SET">>, <<4, "SET">>, <<5, "CUR">>, <<-1, "CUR">>, <<-2, "END">>, <<1, "END">>}

MCImagePath == <<"", "d", "k">>

\* A sound image that fits, one that fills the file, one that is cut off, and one
\* of each kind that is refused.
Sound == [magic |-> TRUE, header |-> 2, target |-> "ppc", device |-> TRUE, body |-> 4, hash |-> TRUE]
MCImages ==
  {Sound, [Sound EXCEPT !.body = 8], [Sound EXCEPT !.body = 9], [Sound EXCEPT !.magic = FALSE],
   [Sound EXCEPT !.header = Nil], [Sound EXCEPT !.target = "other"],
   [Sound EXCEPT !.device = FALSE], [Sound EXCEPT !.hash = FALSE]}
===============================================================================
