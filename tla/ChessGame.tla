----------------------------- MODULE ChessGame ------------------------------
(* Little Rook Chess: the game a player has with the machine through four    *)
(* keys (chess_Step() of chessengine.c).  Every step is one call of it, with *)
(* the key command it finds.                                                 *)
EXTENDS ChessRules, FiniteSets

CONSTANTS
    Setups,         \* what chess_SetupBoard() puts up: the board, the castlings
                    \* left, and the half-moves that are followed from there
    CHM_USER_SIZE   \* half-moves kept for the menu's "Undo Move"

ASSUME SizeAssumption == CHM_USER_SIZE \in Nat \ {0}

VARIABLES
    pos,                \* board, pawn_dbl_move, castling_possible
    ply_count, chm_list, is_game_end, lost_side_color,
    chess_state, source, target,
    offboard,           \* a move was made to a square that is none
    past,               \* the positions before each half-move of the game
    plies               \* bound: half-moves of this game still followed
vars == <<pos, ply_count, chm_list, is_game_end, lost_side_color, chess_state,
          source, target, offboard, past, plies>>

ToMove == ply_count % 2
-----------------------------------------------------------------------------
\* The order cu_NextPos() goes through the squares in: row by row.
Order(sq) == 8 * Rank(sq) + File(sq)
First(S) == CHOOSE sq \in S : \A other \in S : Order(sq) <= Order(other)
Last(S) == CHOOSE sq \in S : \A other \in S : Order(sq) >= Order(other)

MarkedSquares(p) == {sq \in Squares : IsMarked(p.board[sq])}

\* chess_GetNextMarked(): the search goes round once from 255, and otherwise
\* ends at the first square, which is not looked at any more; backwards from
\* the first square it begins at the last one again.
NextMarked(p, sq) ==
    LET after == {m \in MarkedSquares(p) : sq = Nowhere \/ Order(m) > Order(sq)}
    IN IF after = {} THEN Nowhere ELSE First(after)
PrevMarked(p, sq) ==
    LET before == {m \in MarkedSquares(p) :
                      sq = Nowhere \/ (m # 0 /\ (sq = 0 \/ Order(m) < Order(sq)))}
    IN IF before = {} THEN Nowhere ELSE Last(before)

Mark(p, S) ==
    [p EXCEPT !.board = [sq \in Cells |-> IF sq \in S THEN Marked(p.board[sq])
                                                        ELSE p.board[sq]]]
\* chess_ClearMarks(), and then chess_MarkMovable() or chess_MarkTargetMoves().
Cleared(p) == [p EXCEPT !.board = Board(p)]
Movable(p, color) == {sq \in Men(p, color) : Targets(p, sq) # {}}
MarkMovable(p) == Mark(Cleared(p), Movable(Cleared(p), ToMove))
\* Mutant: the marks of the men that may go stay on the board.
MarkTargetMovesToo(p, sq) == Mark(p, Targets(Cleared(p), sq))

MarkTargetMoves(p, sq) == Mark(Cleared(p), Targets(Cleared(p), sq))
-----------------------------------------------------------------------------
\* chess_SetupBoard()
SetupBoard ==
    \E setup \in Setups :
        /\ pos' = Position(setup.board, setup.castling)
        /\ plies' = setup.plies
        /\ ply_count' = 0 /\ chm_list' = <<>> /\ past' = <<>>
        /\ is_game_end' = FALSE /\ lost_side_color' = White

Init ==
    /\ \E setup \in Setups :
          /\ pos = Position(setup.board, setup.castling)
          /\ plies = setup.plies
    /\ ply_count = 0 /\ chm_list = <<>> /\ past = <<>>
    /\ is_game_end = FALSE /\ lost_side_color = White
    /\ chess_state = "menu"
    /\ source = Nowhere /\ target = Nowhere /\ offboard = FALSE

\* Mutant: the newest half-moves go.
ReducedAtEnd(list) ==
    SubSeq(list, 1, IF Len(list) > CHM_USER_SIZE THEN Len(list) - 2 ELSE Len(list))

\* cu_ReduceHistoryByFullMove(): the oldest full moves go until the rest fits.
Reduced(list) ==
    LET over == IF Len(list) > CHM_USER_SIZE THEN Len(list) - CHM_USER_SIZE ELSE 0
    IN SubSeq(list, 1 + 2 * ((over + 1) \div 2), Len(list))

\* chess_ManualMove(): the king that is taken, or the side that has no move
\* after which its king could not be taken, decides the game.  The double step
\* of the side that moves is forgotten, the one just made as well.
Played(src, dest) ==
    LET made == Moved(pos, src, dest)
        p == [made EXCEPT !.dbl[ToMove] = Nowhere]
        next == 1 - ToMove
        kings == {sq \in Men(p, next) : PieceOf(p.board[sq]) = King}
        stuck == BestMoves(p, next, 1) = {} /\ kings # {}
        taken == pos.board[dest]
    IN [pos |-> p,
        list |-> Append(Reduced(chm_list), HalfMove(pos, src, dest)),
        end |-> is_game_end \/ PieceOf(taken) = King \/ stuck,
        lost |-> CASE stuck -> IF HasAttackCount(p, First(kings), ToMove)
                               THEN next ELSE 2
                   [] ~stuck /\ PieceOf(taken) = King -> ColorOf(taken)
                   [] OTHER -> lost_side_color]

ManualMove(src, dest, clear) ==
    /\ past' = Append(past, Cleared(pos))
    /\ ply_count' = ply_count + 1
    /\ plies' = plies - 1
    /\ \E played \in {Played(src, dest)} :
          /\ pos' = IF clear THEN Cleared(played.pos) ELSE played.pos
          /\ chm_list' = played.list
          /\ is_game_end' = played.end /\ lost_side_color' = played.lost

\* A move to 255: cu_gpos2bpos() gives 127 and the store goes past the board.
MoveToNowhere ==
    /\ offboard' = TRUE
    /\ UNCHANGED <<pos, ply_count, chm_list, is_game_end, lost_side_color,
                   chess_state, source, target, past, plies>>
-----------------------------------------------------------------------------
Game == <<pos, ply_count, chm_list, is_game_end, lost_side_color, past, plies>>

\* CHESS_STATE_MENU: mnu_Step() goes to every entry, so any may be selected.
\* In a new game the player is white, or the machine moves first.
NewGame ==
    /\ chess_state = "menu"
    /\ SetupBoard
    /\ chess_state' \in {"selectStart", "thinking"}
    /\ UNCHANGED <<source, target, offboard>>

\* cu_UndoHalfMove() twice: it does nothing when the history is empty.
UndoMove ==
    LET size == Len(chm_list)
        once == Undone(pos, chm_list[size])
    IN /\ chess_state = "menu" /\ ply_count >= 2
       /\ pos' = CASE size = 0 -> pos
                   [] size = 1 -> once
                   [] OTHER -> Undone(once, chm_list[size - 1])
       /\ chm_list' = SubSeq(chm_list, 1, size - 2)
       /\ ply_count' = ply_count - 2
       /\ past' = SubSeq(past, 1, ply_count - 2)
       /\ chess_state' = "selectStart"
       /\ UNCHANGED <<is_game_end, lost_side_color, source, target, offboard, plies>>

\* "Return", and "Undo Move" when there is nothing to undo.
Return ==
    /\ chess_state = "menu"
    /\ chess_state' = "selectStart"
    /\ UNCHANGED <<Game, source, target, offboard>>

SelectStart ==
    /\ chess_state = "selectStart"
    /\ pos' = MarkMovable(pos)
    /\ source' = NextMarked(pos', Nowhere)
    /\ target' = Nowhere
    /\ chess_state' = "selectPiece"
    /\ UNCHANGED <<ply_count, chm_list, is_game_end, lost_side_color, offboard, past, plies>>

\* CHESS_STATE_SELECT_PIECE
PieceKey ==
    /\ chess_state = "selectPiece"
    /\ source' \in {NextMarked(pos, source), PrevMarked(pos, source)}
    /\ UNCHANGED <<Game, chess_state, target, offboard>>

PieceSelect ==
    /\ chess_state = "selectPiece"
    /\ IF source = Nowhere
       THEN chess_state' = "menu" /\ UNCHANGED <<pos, target>>
       ELSE /\ plies >= 1
            /\ pos' = MarkTargetMoves(pos, source)
            /\ target' = NextMarked(pos', Nowhere)
            /\ chess_state' = "selectTarget"
    /\ UNCHANGED <<ply_count, chm_list, is_game_end, lost_side_color, source,
                   offboard, past, plies>>

\* CHESS_STATE_SELECT_TARGET_POS
TargetKey ==
    /\ chess_state = "selectTarget" /\ ~offboard
    /\ target' \in {NextMarked(pos, target), PrevMarked(pos, target)}
    /\ UNCHANGED <<Game, chess_state, source, offboard>>

TargetBack ==
    /\ chess_state = "selectTarget" /\ ~offboard
    /\ pos' = MarkMovable(pos)
    /\ target' = Nowhere
    /\ chess_state' = "selectPiece"
    /\ UNCHANGED <<ply_count, chm_list, is_game_end, lost_side_color, source,
                   offboard, past, plies>>

TargetSelect ==
    /\ chess_state = "selectTarget" /\ ~offboard
    /\ \/ /\ target # Nowhere /\ plies >= 2
          /\ ManualMove(source, target, TRUE)
          /\ chess_state' = IF is_game_end' THEN "gameEnd" ELSE "thinking"
          /\ source' = Nowhere /\ target' = Nowhere
          /\ UNCHANGED offboard
       \/ target = Nowhere /\ MoveToNowhere

\* chess_ComputerMove(2)
ComputerMove ==
    /\ chess_state = "thinking" /\ ~offboard
    /\ UNCHANGED <<source, target>>
    /\ \E moves \in {BestMoves(pos, ToMove, 2)} :
       \/ /\ \E move \in moves : ManualMove(move[1], move[2], FALSE)
          /\ chess_state' = IF is_game_end' THEN "gameEnd" ELSE "selectStart"
          /\ UNCHANGED offboard
       \/ moves = {} /\ MoveToNowhere

GameEnd ==
    /\ chess_state = "gameEnd"
    /\ chess_state' = "menu"
    /\ SetupBoard
    /\ UNCHANGED <<source, target, offboard>>

Next ==
    \/ NewGame \/ UndoMove \/ Return
    \/ SelectStart \/ PieceKey \/ PieceSelect
    \/ TargetKey \/ TargetBack \/ TargetSelect
    \/ ComputerMove \/ GameEnd

Spec == Init /\ [][Next]_vars
-----------------------------------------------------------------------------
\* chess_Step(): by whatever keys the player came there - back from a target,
\* through the menu, after moves were undone - the move his second SELECT makes
\* is one of chess: by a man of his color, to one of the squares the rules offer
\* that man on the board as it stands, with the board of the rules after it.  A
\* target that is none (255) is not followed, and AsRuled says what is open
\* about castling.
PlayerMovesByTheRules ==
    [][chess_state = "selectTarget" /\ ply_count' # ply_count =>
        /\ OwnMan(Board(pos), source, ToMove)
        /\ AsRuled(pos, source, MarkedSquares(pos), Nowhere)
        /\ target \in MarkedSquares(pos)
        /\ Board(pos') = AfterMove(Board(pos), source, target)]_vars

\* ce_LoopRecur(): the replies the search looks at after any move of the machine
\* are where the men of the player may go then, passing pawns with it.
RepliesAreMoves ==
    chess_state = "thinking" /\ ~offboard =>
        \A move \in Moves(pos, ToMove) :
            LET p == Moved(pos, move[1], move[2])
                double == /\ PieceOf(pos.board[move[1]]) = Pawn
                          /\ Along(move[1], move[2]) = 2
            IN \A sq \in Men(p, 1 - ToMove) :
                  AsRuled(p, sq, Targets(p, sq),
                          IF double THEN (move[1] + move[2]) \div 2 ELSE Nowhere)

\* cu_UndoHalfMove(): the search leaves board, castlings and double steps as it
\* found them, one and two half-moves deep.
SearchLeavesNoTrace ==
    chess_state = "thinking" /\ ~offboard =>
        \A m \in Moves(pos, ToMove) :
            LET p == Moved(pos, m[1], m[2])
            IN /\ Undone(p, HalfMove(pos, m[1], m[2])) = pos
               /\ \A n \in Moves(p, 1 - ToMove) :
                     Undone(Moved(p, n[1], n[2]), HalfMove(p, n[1], n[2])) = p

\* chess_ManualMove(): after a move of the machine the game is over when the
\* player has no legal move or no king, and not before; he has lost when his
\* king is struck or gone, and otherwise it is a draw.
EndIsTrue ==
    [][chess_state = "thinking" /\ ~offboard' =>
        LET board == Board(pos')
            color == ply_count' % 2
            beheaded == ~HasKing(pos', color)
        IN IF beheaded \/ ~HasLegalMove(board, color)
           THEN /\ chess_state' = "gameEnd"
                /\ lost_side_color' = IF beheaded \/ IsStruck(board, color)
                                      THEN color ELSE 2
           ELSE chess_state' = "selectStart"]_vars

\* "Undo Move": while the history holds two half-moves the game is again what
\* it was before these, flags and all.
UndoTakesBackTwo ==
    [][UndoMove /\ Len(chm_list) >= 2 =>
        Cleared(pos') = past[ply_count - 1]]_vars
=============================================================================
