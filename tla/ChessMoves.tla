----------------------------- MODULE ChessMoves -----------------------------
(* Little Rook Chess: the board, the move generator, a half-move and its     *)
(* undoing, and the search (chessengine.c).  The generator is the search: it *)
(* makes every move, looks further, and takes the move back.                 *)
EXTENDS Integers, Sequences

White == 0
Black == 1

None == 0
Pawn == 1
Knight == 2
Bishop == 3
Rook == 4
Queen == 5
King == 6

\* ILLEGAL_POSITION
Nowhere == 255

\* A square is 16 * row + column in eight bits: row or column 8 and above are
\* off the board, which is also where a step across an edge ends.  The board
\* has a cell for these too, that stays empty.
Cells == 0..119
Squares == {16 * row + column : row \in 0..7, column \in 0..7}
To(sq, offset) == (sq + offset) % 256

\* What a square holds: the piece, 16 for a black one, 32 when it is marked.
Man(color, piece) == 16 * color + piece
PieceOf(cp) == cp % 16
ColorOf(cp) == (cp \div 16) % 2
IsMarked(cp) == cp >= 32
Marked(cp) == IF IsMarked(cp) THEN cp ELSE cp + 32
Unmarked(cp) == cp % 32

\* A position: the board, the castlings that the moves so far leave (a color
\* and a direction), and for each color the pawn that made the last double step.
Position(board, castling) ==
    [board |-> board, castling |-> castling, dbl |-> [c \in {White, Black} |-> Nowhere]]

EmptyAt(p, sq) == PieceOf(p.board[sq]) = None
Men(p, color) ==
    {sq \in Cells : p.board[sq] # None /\ ColorOf(p.board[sq]) = color}
HasKing(p, color) == \E sq \in Cells : Unmarked(p.board[sq]) = Man(color, King)

\* cu_IsIllegalPosition(): off the board, or the square of an own man.  An
\* empty square that is marked counts as a white man.
Illegal(p, sq, color) ==
    sq \in Squares => (p.board[sq] # None /\ ColorOf(p.board[sq]) = color)
-----------------------------------------------------------------------------
RookSteps == {1, 16, -16, -1}
BishopSteps == {15, 17, -17, -15}
QueenSteps == RookSteps \union BishopSteps
KnightSteps == {14, -14, 18, -18, 31, -31, 33, -33}

\* ce_FindPieceByStep(): that man is the first one met in this direction, or in
\* some direction, within so many steps.
RECURSIVE Meets(_, _, _, _, _)
Meets(p, sq, man, d, reach) ==
    LET next == To(sq, d)
    IN /\ reach > 0 /\ next \in Squares
       /\ IF EmptyAt(p, next) THEN Meets(p, next, man, d, reach - 1)
                              ELSE Unmarked(p.board[next]) = man

Sees(p, sq, man, steps, reach) == \E d \in steps : Meets(p, sq, man, d, reach)

PawnSees(p, sq, color) ==
    \E d \in (IF color = Black THEN {17, 15} ELSE {-17, -15}) :
        /\ To(sq, d) \in Squares
        /\ Unmarked(p.board[To(sq, d)]) = Man(color, Pawn)

\* ce_CalculatePositionWeight(): the king of that color adds to the count of
\* the attacking pieces and nothing to their weight.
HasAttackWeight(p, sq, color) ==
    \/ Sees(p, sq, Man(color, Rook), RookSteps, 7)
    \/ Sees(p, sq, Man(color, Bishop), BishopSteps, 7)
    \/ Sees(p, sq, Man(color, Queen), QueenSteps, 7)
    \/ Sees(p, sq, Man(color, Knight), KnightSteps, 1)
    \/ PawnSees(p, sq, color)

HasAttackCount(p, sq, color) ==
    \/ HasAttackWeight(p, sq, color)
    \/ Sees(p, sq, Man(color, King), QueenSteps, 1)
-----------------------------------------------------------------------------
\* ce_LoopDirsSingleMultiStep(): in one direction as far as the way is free, up
\* to and with the first man of the other color; and in all of them.
RECURSIVE Walk(_, _, _, _, _)
Walk(p, sq, color, d, reach) ==
    LET next == To(sq, d)
    IN CASE reach = 0 \/ Illegal(p, next, color) -> {}
         [] OTHER -> {next} \union
              (IF EmptyAt(p, next) THEN Walk(p, next, color, d, reach - 1) ELSE {})

Steps(p, sq, steps, reach) ==
    UNION {Walk(p, sq, ColorOf(p.board[sq]), d, reach) : d \in steps}

\* cu_IsKingCastling(): the king and the next count squares are not attacked,
\* and these squares are empty.
Castles(p, sq, direction, count) ==
    LET color == ColorOf(p.board[sq])
    IN /\ <<color, direction>> \in p.castling
       /\ ~HasAttackWeight(p, sq, 1 - color)
       /\ \A i \in 1..count :
             LET way == To(sq, i * direction)
             IN EmptyAt(p, way) /\ ~HasAttackWeight(p, way, 1 - color)

KingTargets(p, sq) ==
    LET color == ColorOf(p.board[sq])
    IN  {to \in {To(sq, -2)} : Castles(p, sq, -1, 3) /\ ~Illegal(p, to, color)}
        \union
        {to \in {To(sq, 2)} : Castles(p, sq, 1, 2) /\ ~Illegal(p, to, color)}
        \union Steps(p, sq, QueenSteps, 1)

\* ce_LoopPawn() and ce_LoopPawnSideCapture().
PawnTargets(p, sq) ==
    LET color == ColorOf(p.board[sq])
        ahead == IF color = White THEN 16 ELSE -16
        one == To(sq, ahead)
        two == To(one, ahead)
        forward == /\ one \in Squares /\ EmptyAt(p, one)
        double == /\ forward /\ sq \div 16 = (IF color = White THEN 1 ELSE 6)
                  /\ EmptyAt(p, two)
        EnPassant(to) == IF color = White THEN p.dbl[Black] + 16 = to
                                          ELSE p.dbl[White] = to + 16
        side == {to \in {To(one, -1), To(one, 1)} :
                    to \in Squares /\ (~EmptyAt(p, to) \/ EnPassant(to))}
        moves == {to \in {one} : forward} \union {to \in {two} : double} \union side
    IN {to \in moves : ~Illegal(p, to, color)}

\* The switch of ce_LoopPieces(): the squares ce_LoopRecur() takes for a man.
Targets(p, sq) ==
    LET piece == PieceOf(p.board[sq])
    IN CASE piece = Pawn -> PawnTargets(p, sq)
         [] piece = Knight -> Steps(p, sq, KnightSteps, 1)
         [] piece = Bishop -> Steps(p, sq, BishopSteps, 7)
         [] piece = Rook -> Steps(p, sq, RookSteps, 7)
         [] piece = Queen -> Steps(p, sq, QueenSteps, 7)
         [] piece = King -> KingTargets(p, sq)
         [] OTHER -> {}

Moves(p, color) ==
    UNION {{<<sq, to>> : to \in Targets(p, sq)} : sq \in Men(p, color)}
-----------------------------------------------------------------------------
\* The castlings that are over once this man has left its square.
Forfeits(cp, src) ==
    CASE PieceOf(cp) = King -> {ColorOf(cp)} \X {-1, 1}
      [] PieceOf(cp) = Rook ->
            {castle \in {White, Black} \X {-1, 1} :
                src = 112 * castle[1] + (IF castle[2] = -1 THEN 0 ELSE 7)}
      [] OTHER -> {}

IsDoubleStep(p, src, dest) == PieceOf(p.board[src]) = Pawn /\ src - dest \in {-32, 32}

\* cu_Move(): what it puts in the history, a struct _chm_struct.
HalfMove(p, src, dest) ==
    LET cp == p.board[src]
        castle == PieceOf(cp) = King /\ dest - src \in {-2, 2}
        corner == IF dest < src THEN src - 4 ELSE src + 3
        \* a side step of a pawn, neither a double step nor to the last row
        passing == /\ PieceOf(cp) = Pawn /\ ~IsDoubleStep(p, src, dest)
                   /\ dest \div 16 \notin {0, 7} /\ (src + dest) % 2 # 0
                   /\ PieceOf(p.board[dest]) = None
        pawn == p.dbl[1 - ColorOf(cp)]
        other == CASE castle -> corner [] passing -> pawn [] OTHER -> dest
    IN [main_cp |-> cp, main_src |-> src, main_dest |-> dest,
        other_cp |-> p.board[other], other_src |-> other,
        other_dest |-> IF castle THEN (src + dest) \div 2 ELSE Nowhere,
        dbl |-> p.dbl, castling |-> p.castling]

\* Mutant: remembered for the other color.
DoublesAfterSwapped(p, src, dest) ==
    IF IsDoubleStep(p, src, dest)
    THEN [p.dbl EXCEPT ![1 - ColorOf(p.board[src])] = dest] ELSE p.dbl

\* cu_Move(): the destination of a double step is remembered for its color.
DoublesAfter(p, src, dest) ==
    IF IsDoubleStep(p, src, dest)
    THEN [p.dbl EXCEPT ![ColorOf(p.board[src])] = dest] ELSE p.dbl

\* cu_Move(): the position after it.
Moved(p, src, dest) ==
    LET cp == p.board[src]
        chm == HalfMove(p, src, dest)
        queen == /\ PieceOf(cp) = Pawn /\ ~IsDoubleStep(p, src, dest)
                 /\ dest \div 16 \in {0, 7}
        arrived == [p.board EXCEPT ![dest] = IF queen THEN cp - Pawn + Queen ELSE cp]
        rook == IF chm.other_dest = Nowhere THEN arrived
                ELSE [arrived EXCEPT ![chm.other_dest] = chm.other_cp]
        left == [rook EXCEPT ![src] = None]
    IN [board |-> IF chm.other_src = dest THEN left
                  ELSE [left EXCEPT ![chm.other_src] = None],
        castling |-> p.castling \ Forfeits(cp, src),
        dbl |-> DoublesAfter(p, src, dest)]

\* cu_UndoHalfMove(): the board, with the half-move taken off the history.
PutBack(board, chm) ==
    LET back == [board EXCEPT ![chm.main_src] = chm.main_cp,
                              ![chm.main_dest] = None,
                              ![chm.other_src] = chm.other_cp]
    IN IF chm.other_dest = Nowhere THEN back
       ELSE [back EXCEPT ![chm.other_dest] = None]

\* Mutant: only the board is put back.
UndoneBoardOnly(p, chm) == [p EXCEPT !.board = PutBack(p.board, chm)]

\* cu_UndoHalfMove(): and what it restores besides.
Undone(p, chm) ==
    [board |-> PutBack(p.board, chm), castling |-> chm.castling, dbl |-> chm.dbl]
-----------------------------------------------------------------------------
\* What an evaluation can say of the game: EVAL_T_MIN, in between, EVAL_T_MAX.
Lost == -1
Open == 0
Won == 1

\* Mutant: the king of the other color is not looked for.
EvalOwnKing(p, color) == IF ~HasKing(p, color) THEN Lost ELSE Open

\* ce_Eval() with the weights of men and squares left open.
Eval(p, color) ==
    IF ~HasKing(p, color) THEN Lost ELSE IF HasKing(p, 1 - color) THEN Open ELSE Won

\* stack_SetMove(): the best of some values, EVAL_T_MIN when there is none.
BestOf(values) ==
    CHOOSE best \in values \union {Lost} : \A value \in values : value <= best

\* ce_LoopRecur(): the value for a color of the position that its move has led
\* to, looking depth half-moves further; and that of the best of its moves.
RECURSIVE Best(_, _, _)
ValueOf(q, color, depth) ==
    IF depth = 0 THEN Eval(q, color) ELSE -Best(q, 1 - color, depth - 1)

Best(p, color, depth) ==
    BestOf({ValueOf(q, color, depth) :
               q \in {Moved(p, m[1], m[2]) : m \in Moves(p, color)}})

\* The moves stack_SetMove() may keep: those of the best value, which the order
\* of the squares and the weights that Eval leaves open choose from; none when
\* no move is better than a lost game.
BestMoves(p, color, depth) ==
    UNION {{move \in DOMAIN value : /\ value[move] # Lost
                                    /\ \A m \in DOMAIN value : value[m] <= value[move]} :
           value \in {[move \in Moves(p, color) |->
                          ValueOf(Moved(p, move[1], move[2]), color, depth)]}}
=============================================================================
