------------------------------ MODULE MCChess -------------------------------
(* The shipped board for one move of each side, and boards a game has come   *)
(* to for longer.                                                            *)
EXTENDS ChessGame, TLC

Row(color) == <<Man(color, Rook), Man(color, Knight), Man(color, Bishop),
                Man(color, Queen), Man(color, King), Man(color, Bishop),
                Man(color, Knight), Man(color, Rook)>>

\* chess_SetupBoard()
StartBoard == [sq \in Cells |->
    CASE File(sq) > 7 -> None
      [] File(sq) < 8 /\ Rank(sq) = 0 -> Row(White)[File(sq) + 1]
      [] File(sq) < 8 /\ Rank(sq) = 1 -> Man(White, Pawn)
      [] File(sq) < 8 /\ Rank(sq) = 6 -> Man(Black, Pawn)
      [] File(sq) < 8 /\ Rank(sq) = 7 -> Row(Black)[File(sq) + 1]
      [] OTHER -> None]

Start == [board |-> StartBoard, castling |-> {White, Black} \X {-1, 1}, plies |-> 2]

Few(men, castling, depth) ==
    [board |-> [sq \in Cells |-> IF sq \in DOMAIN men THEN men[sq] ELSE None],
     castling |-> castling, plies |-> depth]

\* The board of chess_SetupBoardTest01(), its castlings forfeited: white mates
\* with the queen.
Test01 == Few(119 :> Man(Black, King) @@ 87 :> Man(White, Pawn)
              @@ 3 :> Man(White, King) @@ 112 :> Man(Black, Rook)
              @@ 6 :> Man(White, Queen), {}, 2)

\* Both may castle; one rook of black looks at a corner.
Castling == Few(4 :> Man(White, King) @@ 0 :> Man(White, Rook) @@ 7 :> Man(White, Rook)
                @@ 116 :> Man(Black, King) @@ 119 :> Man(Black, Rook),
                {<<White, -1>>, <<White, 1>>, <<Black, 1>>}, 2)

\* Pawns that can pass each other, one about to be a queen.
Pawns == Few(20 :> Man(White, Pawn) @@ 51 :> Man(Black, Pawn) @@ 0 :> Man(White, King)
             @@ 97 :> Man(White, Pawn) @@ 119 :> Man(Black, King), {}, 4)

\* Long enough for the history to be cut.
Kings == Few(0 :> Man(White, King) @@ 16 :> Man(White, Pawn)
             @@ 119 :> Man(Black, King), {}, 4)

\* Two rooks that mate together.
Rooks == Few(4 :> Man(White, King) @@ 1 :> Man(White, Rook) @@ 96 :> Man(White, Rook)
             @@ 119 :> Man(Black, King), {}, 2)

ChessSetups == {Start, Test01, Castling, Pawns, Kings, Rooks}
=============================================================================
