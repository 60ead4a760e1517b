------------------------------ MODULE Piskvor -------------------------------
(***************************************************************************)
(* piskvor.c: five in a row.  isWinner() looks around the last stone only, *)
(* with bounds that let it past the edges of the board: area[][] is one    *)
(* block of memory, so a column too many is the first of the next row.     *)
(*                                                                         *)
(* A cell is its place in that memory.  Drawing the board is left out, and *)
(* so are the capitals that show a win, since the game ends with the first *)
(* one, and input that xoRead() asks for again.                            *)
(***************************************************************************)
EXTENDS Integers

CONSTANTS
    Boards,   \* boards: coll, row, and the cells that get stones
    Foreign,  \* contents the memory around area may have
    Memory(_, _)   \* Memory(m, i): what is at place i when that content is m

ASSUME BoardsAssumption ==
    \A b \in Boards : /\ b.coll \in 5..26 /\ b.row \in 5..22
                      /\ b.cells \subseteq (0..(b.row - 1)) \X (0..(b.coll - 1))

VARIABLES
    board,        \* the board played on
    area,         \* area: the stones, by place in memory
    outside,      \* what is in the memory around area
    zacinajici,   \* zacinajici: whose turn it is
    a_ra, a_sl,   \* the last stone
    konec         \* "no", "win" or "quit"

piskvorVars == <<board, area, outside, zacinajici, a_ra, a_sl, konec>>

Players == {"x", "o"}

Place(r, c) == r * board.coll + c
Cells == {Place(x[1], x[2]) : x \in board.cells}

\* area[r][c], for any r and c, with the stones at ar.
At(ar, r, c) ==
    LET i == Place(r, c) IN
    IF i \in DOMAIN ar THEN ar[i]
    ELSE IF i \in 0..(board.row * board.coll - 1) THEN " " ELSE Memory(outside, i)

PiskvorTypeOK ==
    /\ board \in Boards
    /\ area \in [Cells -> Players \cup {" "}]
    /\ outside \in Foreign
    /\ zacinajici \in Players /\ konec \in {"no", "win", "quit"}
    /\ a_ra \in 0..(board.row - 1) /\ a_sl \in 0..(board.coll - 1)

PiskvorInit ==
    /\ board \in Boards /\ outside \in Foreign
    /\ area = [i \in Cells |-> " "]
    /\ zacinajici \in Players /\ konec = "no"
    /\ a_ra = 0 /\ a_sl = 0

-----------------------------------------------------------------------------
(* isWinner(): the loops of each direction stop at the first five. *)

Least(m, n) == IF m < n THEN m ELSE n
Most(m, n) == IF m > n THEN m ELSE n

\* Fault: the last column is one short.
Row5Short(ar, ra, sl) ==
    \E i \in (Most(sl - 4, 0) + 4)..(Least(sl + 4, board.coll) - 1) :
        \A k \in 0..3 : At(ar, ra, i - k - 1) = At(ar, ra, i - k)

\* Five cells with equal contents, whatever these are, the last in column i.
Row5(ar, ra, sl) ==
    \E i \in (Most(sl - 4, 0) + 4)..Least(sl + 4, board.coll) :
        \A k \in 0..3 : At(ar, ra, i - k - 1) = At(ar, ra, i - k)

\* Fault: four are enough.
Column4(ar, ra, sl) ==
    \E i \in (Most(ra - 4, 0) + 3)..Least(ra + 4, board.row) :
        \A k \in 0..2 : At(ar, i - k - 1, sl) = At(ar, i - k, sl)

Column5(ar, ra, sl) ==
    \E i \in (Most(ra - 4, 0) + 4)..Least(ra + 4, board.row) :
        \A k \in 0..3 : At(ar, i - k - 1, sl) = At(ar, i - k, sl)

\* The values of i in the loops over a diagonal, which k only bounds.
Starts(ra, sl) ==
    LET i == IF ra < 5 THEN -ra ELSE -4
        k == IF sl < 5 THEN -sl ELSE -4
    IN  i..Least(4, i + 4 - k)

Diagonal5(ar, kdo, ra, sl) ==
    \E i \in Starts(ra, sl) :
        \/ \A n \in 0..4 : At(ar, ra + i + n, sl + i + n) = kdo
        \/ \A n \in 0..4 : At(ar, ra + i + n, sl - i - n) = kdo

isWinner(ar, kdo, ra, sl) == Row5(ar, ra, sl) \/ Column5(ar, ra, sl) \/ Diagonal5(ar, kdo, ra, sl)

-----------------------------------------------------------------------------
\* One turn of main(): xoRead() takes a free cell of the board, isWinner() judges
\* and changes the turn.
Turn(r, c) ==
    /\ konec = "no" /\ area[Place(r, c)] = " "
    /\ area' = [area EXCEPT ![Place(r, c)] = zacinajici]
    /\ a_ra' = r /\ a_sl' = c
    /\ konec' = IF isWinner(area', zacinajici, r, c) THEN "win" ELSE "no"
    /\ zacinajici' = IF zacinajici = "x" THEN "o" ELSE "x"
    /\ UNCHANGED <<board, outside>>

\* '*' instead of a column.
Quit == konec = "no" /\ konec' = "quit" /\ UNCHANGED <<board, area, outside, zacinajici, a_ra, a_sl>>

PiskvorNext == (\E x \in board.cells : Turn(x[1], x[2])) \/ Quit

PiskvorSpec == PiskvorInit /\ [][PiskvorNext]_piskvorVars

-----------------------------------------------------------------------------
(* Properties. *)

Directions == {<<0, 1>>, <<1, 0>>, <<1, 1>>, <<1, -1>>}

\* Five stones of p in a line that stays on the board.
Five(p) ==
    \E x \in board.cells, d \in Directions :
        /\ x[1] + 4 * d[1] \in 0..(board.row - 1) /\ x[2] + 4 * d[2] \in 0..(board.coll - 1)
        /\ \A n \in 0..4 : At(area, x[1] + n * d[1], x[2] + n * d[2]) = p

\* The game does not go on once a player has five in a line, in whatever order
\* the stones came and wherever on the board the line is.
NoWinMissed == konec = "no" => \A p \in Players : ~Five(p)

\* Away from the edges, as far as the loops reach, a win is a line of five of
\* the player whose win main() announces.  Nearer to an edge it need not be: a
\* line may go on in the next row or in foreign memory.
WinsAreReal ==
    /\ konec = "win"
    /\ a_ra \in 4..(board.row - 9) /\ a_sl \in 8..(board.coll - 9)
    => Five(IF zacinajici = "x" THEN "o" ELSE "x")

=============================================================================
