----------------------------- MODULE ChessRules -----------------------------
(* The moves of chess, written from the rules and not from the engine: by    *)
(* files and ranks, with the board unmarked and an unchecked pair of squares *)
(* for every move.  Promotion is to a queen.                                 *)
EXTENDS ChessMoves

File(sq) == sq % 16
Rank(sq) == sq \div 16
Distance(m, n) == IF m < n THEN n - m ELSE m - n
Sign(n) == IF n > 0 THEN 1 ELSE IF n < 0 THEN -1 ELSE 0

Across(sq, to) == Distance(File(sq), File(to))
Along(sq, to) == Distance(Rank(sq), Rank(to))

IsStraight(sq, to) == (Across(sq, to) = 0) # (Along(sq, to) = 0)
IsDiagonal(sq, to) == Across(sq, to) = Along(sq, to) /\ sq # to

\* The squares strictly between two of a line.
Between(sq, to) ==
    LET df == Sign(File(to) - File(sq))
        dr == Sign(Rank(to) - Rank(sq))
        far == IF Across(sq, to) > Along(sq, to) THEN Across(sq, to) ELSE Along(sq, to)
    IN {sq + i * (16 * dr + df) : i \in 1..(far - 1)}

FreeWay(board, sq, to) == \A way \in Between(sq, to) : board[way] = None

OwnMan(board, sq, color) == board[sq] # None /\ ColorOf(board[sq]) = color

Forward(color) == IF color = White THEN 1 ELSE -1

\* A man strikes a square: it could take a man of the other color there.
Strikes(board, sq, to) ==
    LET piece == PieceOf(board[sq])
        color == ColorOf(board[sq])
    IN CASE piece = Pawn -> Rank(to) - Rank(sq) = Forward(color) /\ Across(sq, to) = 1
         [] piece = Knight -> {Across(sq, to), Along(sq, to)} = {1, 2}
         [] piece = King -> sq # to /\ Across(sq, to) <= 1 /\ Along(sq, to) <= 1
         [] piece = Rook -> IsStraight(sq, to) /\ FreeWay(board, sq, to)
         [] piece = Bishop -> IsDiagonal(sq, to) /\ FreeWay(board, sq, to)
         [] piece = Queen -> /\ IsStraight(sq, to) \/ IsDiagonal(sq, to)
                             /\ FreeWay(board, sq, to)
         [] OTHER -> FALSE

IsAttacked(board, to, color) ==
    \E sq \in Squares : OwnMan(board, sq, color) /\ Strikes(board, sq, to)

\* A pawn goes ahead to an empty square, two from where it stood first, and
\* aside to take a man, or the pawn that has just gone two past the square.
PawnMay(board, sq, to, passed) ==
    LET color == ColorOf(board[sq])
        ranks == (Rank(to) - Rank(sq)) * Forward(color)
    IN \/ /\ File(sq) = File(to) /\ board[to] = None /\ FreeWay(board, sq, to)
          /\ ranks = 1 \/ (ranks = 2 /\ Rank(sq) = (IF color = White THEN 1 ELSE 6))
       \/ Strikes(board, sq, to) /\ (board[to] # None \/ to = passed)

\* passed: the square a pawn has just gone over with a double step, or Nowhere.
MayGo(board, sq, to, passed) ==
    /\ ~OwnMan(board, to, ColorOf(board[sq]))
    /\ IF PieceOf(board[sq]) = Pawn THEN PawnMay(board, sq, to, passed)
                                    ELSE Strikes(board, sq, to)

\* What the rules ask of a king that goes two squares aside, its way to where it goes being
\* free and not struck; rights are the castlings no move has forfeited.
MayCastle(board, sq, to, rights) ==
    LET color == ColorOf(board[sq])
        side == Sign(File(to) - File(sq))
        corner == IF side = 1 THEN sq + 3 ELSE sq - 4
    IN /\ <<color, side>> \in rights
       /\ board[corner] = Man(color, Rook) /\ FreeWay(board, sq, corner)
       /\ \A way \in {sq, sq + side, to} : ~IsAttacked(board, way, 1 - color)

Board(p) == [sq \in Cells |-> Unmarked(p.board[sq])]

\* Whether offered is where the man may go, his king being struck or not.  Of
\* the castlings: the engine asks that the square next to the rook on the left
\* is not struck either, not that the rook is there, nor about a king that is
\* near the way.
AsRuled(p, sq, offered, passed) ==
    LET board == Board(p)
        color == ColorOf(board[sq])
        castlings == {to \in {sq - 2, sq + 2} : PieceOf(board[sq]) = King
                                                /\ sq \in {4, 116}}
        corner(to) == IF to > sq THEN sq + 3 ELSE sq - 4
        unusual(to) == \/ board[corner(to)] # Man(color, Rook)
                       \/ \E king \in Squares : /\ board[king] = Man(1 - color, King)
                                                /\ Along(sq, king) <= 1
        besideRook(to) == to < sq /\ IsAttacked(board, sq - 3, 1 - color)
    IN /\ {to \in Squares : MayGo(board, sq, to, passed)} = offered \ castlings
       /\ \A to \in castlings :
             /\ to \in offered /\ ~unusual(to) => MayCastle(board, sq, to, p.castling)
             /\ MayCastle(board, sq, to, p.castling) /\ ~besideRook(to) => to \in offered

\* The board after a move: a king that goes two squares aside takes what stands
\* in the corner to his other side; a pawn on the last row is a queen.
AfterMove(board, sq, to) ==
    LET castles == PieceOf(board[sq]) = King /\ Across(sq, to) = 2
        corner == IF to > sq THEN sq + 3 ELSE sq - 4
        arrived == IF PieceOf(board[sq]) = Pawn /\ Rank(to) \in {0, 7}
                   THEN Man(ColorOf(board[sq]), Queen) ELSE board[sq]
    IN [at \in Cells |->
           CASE at = to -> arrived
             [] at = sq \/ (castles /\ at = corner) -> None
             [] castles /\ at = (sq + to) \div 2 -> board[corner]
             [] OTHER -> board[at]]

IsStruck(board, color) ==
    \E king \in Squares : /\ board[king] = Man(color, King)
                          /\ IsAttacked(board, king, 1 - color)

\* A move that leaves the own king where no man strikes it.  A king that may
\* castle may as well go one step, so castling is left out.
HasLegalMove(board, color) ==
    \E sq \in {sq \in Squares : OwnMan(board, sq, color)}, to \in Squares :
        /\ MayGo(board, sq, to, Nowhere)
        /\ ~IsStruck([board EXCEPT ![to] = board[sq], ![sq] = None], color)
=============================================================================
