----------------------------- MODULE MCPiskvor ------------------------------
(* Boards for model checking Piskvor: a line of five and four more cells for *)
(* the other player, the line along an edge, across the board, or *)
(* in the middle of a larger one.                                           *)
EXTENDS Piskvor

Line(r, c, dr, dc, len) == {<<r + n * dr, c + n * dc>> : n \in 0..(len - 1)}

Small(cells) == [coll |-> 5, row |-> 5, cells |-> cells]
Large(cells) == [coll |-> 18, row |-> 14, cells |-> cells \cup {<<0, 0>>, <<1, 14>>, <<9, 2>>, <<13, 17>>}]

SmallAndLarge ==
    { Small(Line(0, 0, 0, 1, 5) \cup {<<1, 0>>, <<2, 3>>, <<3, 1>>, <<4, 4>>}),
      Small(Line(0, 4, 1, 0, 5) \cup {<<0, 1>>, <<1, 3>>, <<3, 0>>, <<4, 2>>}),
      Small(Line(0, 0, 1, 1, 5) \cup {<<0, 2>>, <<1, 4>>, <<3, 0>>, <<4, 1>>}),
      Small(Line(0, 4, 1, -1, 5) \cup {<<0, 2>>, <<1, 0>>, <<3, 4>>, <<4, 3>>}),
      Large(Line(4, 5, 0, 1, 5)), Large(Line(2, 8, 1, 0, 5)),
      Large(Line(1, 5, 1, 1, 5)), Large(Line(1, 11, 1, -1, 5)) }

\* Foreign memory: the same everywhere, or what looks like stones of both players.
Pattern(m, i) == IF m # "stones" THEN m ELSE IF (i \div 5) % 2 = 0 THEN "o" ELSE "x"

=============================================================================
