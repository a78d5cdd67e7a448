------------------------- MODULE FightingPitLayout -------------------------
(***************************************************************************)
(* fys::arena::FightingPitLayout: the characters of a fighting pit on the  *)
(* sides of its hexagons. A character is placed once, when his team or his *)
(* contender is built, and then moves left, right or to the other side of  *)
(* an ambush border, or towards a side he is told.                         *)
(***************************************************************************)
EXTENDS HexagonSide, FiniteSets

CONSTANT Characters

VARIABLES
  hexagon,  \* _hexagon of the _side of each character
  side      \* _side of the _side of each character

vars == <<hexagon, side>>

Init ==
  /\ hexagon = [c \in Characters |-> "A"]
  /\ side = [c \in Characters |-> NONE]

ChangeSide(c, dest) ==
  /\ hexagon' = [hexagon EXCEPT ![c] = dest[1]]
  /\ side' = [side EXCEPT ![c] = dest]

\* Slip: every move is forced.
MoveForced(c, dest) == dest # NONE /\ ChangeSide(c, dest)

(* HexagonSide::move without force: a move that is refused changes nothing *)
Move(c, dest) ==
  /\ dest # NONE
  /\ CanMove(hexagon[c], side[c], dest)
  /\ ChangeSide(c, dest)

SetInitiatePosition(c, dest) ==
  /\ side[c] = NONE
  /\ ChangeSide(c, dest)

MoveLeft(c) == Move(c, FindLeft(side[c]))

MoveRight(c) == Move(c, FindRight(side[c]))

MoveBack(c) == Move(c, FindBack(side[c]))

MoveDirections == {"BACK", "RIGHT", "LEFT"}

(* FightingPitLayout::move, of a character who has been placed.            *)
MoveTowards(c, direction) ==
  /\ side[c] # NONE
  /\ \/ direction = "RIGHT" /\ MoveRight(c)
     \/ direction = "LEFT" /\ MoveLeft(c)
     \/ direction = "BACK" /\ MoveBack(c)

Next ==
  \E c \in Characters :
    \/ \E direction \in MoveDirections : MoveTowards(c, direction)
    \/ \E dest \in Sides : SetInitiatePosition(c, dest) \/ Move(c, dest)

Spec == Init /\ [][Next]_vars

-----------------------------------------------------------------------------
(* Properties.                                                             *)

(* No move skips a side: it goes along the lines of the drawing, between   *)
(* two sides that touch.                                                   *)
MovesFollowTheLines ==
  [][\A c \in Characters :
       side[c] # NONE /\ side'[c] # side[c] => Touching(side[c], side'[c])]_vars

(* Every move can be taken back, but for those from B into the north of A: *)
(* B's two western sides lead there, and from there no side of B is open.  *)
MovesAreReversibleButOne ==
  [][\A c \in Characters :
       side[c] # NONE /\ side'[c] # side[c] =>
         (CanMove(hexagon'[c], side'[c], side[c]) <=>
            ~(hexagon[c] = "B" /\ side'[c] = A("N")))]_vars

(* Nobody is stopped on his way round a hexagon: a step to the left or to  *)
(* the right is never refused, and a step to the other side undoes it.     *)
WayRoundIsOpen ==
  \A c \in Characters :
    side[c] # NONE =>
      /\ CanMove(hexagon[c], side[c], FindLeft(side[c]))
      /\ CanMove(hexagon[c], side[c], FindRight(side[c]))
      /\ FindRight(FindLeft(side[c])) = side[c]
      /\ FindLeft(FindRight(side[c])) = side[c]

(* Where moving left, right or back leads from a side.                     *)
StepsFrom(s) ==
  {t \in {FindLeft(s), FindRight(s), FindBack(s)} \ {NONE} : CanMove(s[1], s, t)}

(* Sides a character can get to from s in so many such moves.              *)
WithinMoves(s, moves) ==
  LET reach[n \in 0..moves] ==
        IF n = 0 THEN {s} ELSE reach[n - 1] \cup UNION {StepsFrom(t) : t \in reach[n - 1]}
  IN  reach[moves]

(* No side is a trap: seven moves to the left, to the right or back are    *)
(* enough to get from any side to every other one.                         *)
EverySideIsWithinReach ==
  \A c \in Characters : side[c] # NONE => WithinMoves(side[c], 7) = Sides
=============================================================================
