----------------------- MODULE FightingPitLayoutProofs -----------------------
(***************************************************************************)
(* Proofs about the hexagons and the characters on them, whoever they are: *)
(* a character moves between sides that touch, can take back every move    *)
(* but one, and gets from any side to every other one in seven moves. Each *)
(* rests on a table of the eighteen sides that the provers compute once:   *)
(* where a side is, where it leads, which corners it joins.                *)
(***************************************************************************)
EXTENDS FightingPitLayout, FoldLemmas

-----------------------------------------------------------------------------
(* The sides.                                                              *)

(* Clockwise and anticlockwise.                                            *)
LEMMA DirectionTable ==
  /\ NextDirection("N") = "NE" /\ PreviousDirection("N") = "NW"
  /\ NextDirection("NE") = "SE" /\ PreviousDirection("NE") = "N"
  /\ NextDirection("SE") = "S" /\ PreviousDirection("SE") = "NE"
  /\ NextDirection("S") = "SW" /\ PreviousDirection("S") = "SE"
  /\ NextDirection("SW") = "NW" /\ PreviousDirection("SW") = "S"
  /\ NextDirection("NW") = "N" /\ PreviousDirection("NW") = "SW"
<1>1. Position("N") = 1
  BY DEF Position, Clockwise
<1>2. Position("NE") = 2
  BY DEF Position, Clockwise
<1>3. Position("SE") = 3
  BY DEF Position, Clockwise
<1>4. Position("S") = 4
  BY DEF Position, Clockwise
<1>5. Position("SW") = 5
  BY DEF Position, Clockwise
<1>6. Position("NW") = 6
  BY DEF Position, Clockwise
<1>7. NextDirection("N") = "NE" /\ PreviousDirection("N") = "NW"
  <2>1. 1 % 6 = 1 /\ (1 + 4) % 6 = 5
    OBVIOUS
  <2>. QED
    BY <1>1, <2>1 DEF NextDirection, PreviousDirection, Clockwise
<1>8. NextDirection("NE") = "SE" /\ PreviousDirection("NE") = "N"
  <2>1. 2 % 6 = 2 /\ (2 + 4) % 6 = 0
    OBVIOUS
  <2>. QED
    BY <1>2, <2>1 DEF NextDirection, PreviousDirection, Clockwise
<1>9. NextDirection("SE") = "S" /\ PreviousDirection("SE") = "NE"
  <2>1. 3 % 6 = 3 /\ (3 + 4) % 6 = 1
    OBVIOUS
  <2>. QED
    BY <1>3, <2>1 DEF NextDirection, PreviousDirection, Clockwise
<1>10. NextDirection("S") = "SW" /\ PreviousDirection("S") = "SE"
  <2>1. 4 % 6 = 4 /\ (4 + 4) % 6 = 2
    OBVIOUS
  <2>. QED
    BY <1>4, <2>1 DEF NextDirection, PreviousDirection, Clockwise
<1>11. NextDirection("SW") = "NW" /\ PreviousDirection("SW") = "S"
  <2>1. 5 % 6 = 5 /\ (5 + 4) % 6 = 3
    OBVIOUS
  <2>. QED
    BY <1>5, <2>1 DEF NextDirection, PreviousDirection, Clockwise
<1>12. NextDirection("NW") = "N" /\ PreviousDirection("NW") = "SW"
  <2>1. 6 % 6 = 0 /\ (6 + 4) % 6 = 4
    OBVIOUS
  <2>. QED
    BY <1>6, <2>1 DEF NextDirection, PreviousDirection, Clockwise
<1>. QED
  BY <1>7, <1>8, <1>9, <1>10, <1>11, <1>12

(* Where HexagonSide::move lets a character go from s.                     *)
Moves(s) == AroundHexagon(s) \cup AcrossHexagons(s)

(* AroundHexagon and AcrossHexagons, side by side.                         *)
LEMMA MovesTable ==
  /\ Moves(A("N")) = {A("NE"), A("NW")}
  /\ Moves(A("NE")) = {A("SE"), A("N"), B("S"), B("NW"), B("SW"), C("N"), C("NW")}
  /\ Moves(A("SE")) = {A("S"), A("NE"), B("S"), B("SW"), C("N"), C("NW"), C("SW")}
  /\ Moves(A("S")) = {A("SW"), A("SE"), C("NW"), C("SW")}
  /\ Moves(A("SW")) = {A("NW"), A("S")}
  /\ Moves(A("NW")) = {A("N"), A("SW")}
  /\ Moves(B("N")) = {B("NE"), B("NW")}
  /\ Moves(B("NE")) = {B("SE"), B("N")}
  /\ Moves(B("SE")) = {B("S"), B("NE"), C("N"), C("NE")}
  /\ Moves(B("S")) = {B("SW"), B("SE"), C("N"), C("NE"), C("NW"), A("NE"), A("SE")}
  /\ Moves(B("SW")) = {B("NW"), B("S"), C("N"), C("NW"), A("NE"), A("SE"), A("N")}
  /\ Moves(B("NW")) = {B("N"), B("SW"), A("N"), A("NE")}
  /\ Moves(C("N")) = {C("NE"), C("NW"), B("S"), B("SE"), B("SW"), A("NE"), A("SE")}
  /\ Moves(C("NE")) = {C("SE"), C("N"), B("S"), B("SE")}
  /\ Moves(C("SE")) = {C("S"), C("NE")}
  /\ Moves(C("S")) = {C("SW"), C("SE")}
  /\ Moves(C("SW")) = {C("NW"), C("S"), A("S"), A("SE")}
  /\ Moves(C("NW")) = {C("N"), C("SW"), A("SE"), A("S"), A("NE"), B("S"), B("SW")}
<1>1. /\ Moves(A("N")) = {A("NE"), A("NW")}
      /\ Moves(A("NE")) = {A("SE"), A("N"), B("S"), B("NW"), B("SW"), C("N"), C("NW")}
      /\ Moves(A("SE")) = {A("S"), A("NE"), B("S"), B("SW"), C("N"), C("NW"), C("SW")}
      /\ Moves(A("S")) = {A("SW"), A("SE"), C("NW"), C("SW")}
      /\ Moves(A("SW")) = {A("NW"), A("S")}
      /\ Moves(A("NW")) = {A("N"), A("SW")}
  BY DirectionTable DEF Moves, AroundHexagon, AcrossHexagons, A, B, C
<1>2. /\ Moves(B("N")) = {B("NE"), B("NW")}
      /\ Moves(B("NE")) = {B("SE"), B("N")}
      /\ Moves(B("SE")) = {B("S"), B("NE"), C("N"), C("NE")}
      /\ Moves(B("S")) = {B("SW"), B("SE"), C("N"), C("NE"), C("NW"), A("NE"), A("SE")}
      /\ Moves(B("SW")) = {B("NW"), B("S"), C("N"), C("NW"), A("NE"), A("SE"), A("N")}
      /\ Moves(B("NW")) = {B("N"), B("SW"), A("N"), A("NE")}
  BY DirectionTable DEF Moves, AroundHexagon, AcrossHexagons, A, B, C
<1>3. /\ Moves(C("N")) = {C("NE"), C("NW"), B("S"), B("SE"), B("SW"), A("NE"), A("SE")}
      /\ Moves(C("NE")) = {C("SE"), C("N"), B("S"), B("SE")}
      /\ Moves(C("SE")) = {C("S"), C("NE")}
      /\ Moves(C("S")) = {C("SW"), C("SE")}
      /\ Moves(C("SW")) = {C("NW"), C("S"), A("S"), A("SE")}
      /\ Moves(C("NW")) = {C("N"), C("SW"), A("SE"), A("S"), A("NE"), B("S"), B("SW")}
  BY DirectionTable DEF Moves, AroundHexagon, AcrossHexagons, A, B, C
<1>. QED
  BY <1>1, <1>2, <1>3

(* The corners of the drawing a side joins.                                *)
LEMMA CornersTable ==
  /\ Corners(A("N")) = {A("N"), A("NW")}
  /\ Corners(A("NE")) = {A("NE"), A("N")}
  /\ Corners(A("SE")) = {A("SE"), A("NE")}
  /\ Corners(A("S")) = {A("S"), A("SE")}
  /\ Corners(A("SW")) = {A("SW"), A("S")}
  /\ Corners(A("NW")) = {A("NW"), A("SW")}
  /\ Corners(B("N")) = {B("N"), B("NW")}
  /\ Corners(B("NE")) = {B("NE"), B("N")}
  /\ Corners(B("SE")) = {B("SE"), B("NE")}
  /\ Corners(B("S")) = {A("NE"), B("SE")}
  /\ Corners(B("SW")) = {A("N"), A("NE")}
  /\ Corners(B("NW")) = {B("NW"), A("N")}
  /\ Corners(C("N")) = {B("SE"), A("NE")}
  /\ Corners(C("NE")) = {C("NE"), B("SE")}
  /\ Corners(C("SE")) = {C("SE"), C("NE")}
  /\ Corners(C("S")) = {C("S"), C("SE")}
  /\ Corners(C("SW")) = {A("SE"), C("S")}
  /\ Corners(C("NW")) = {A("NE"), A("SE")}
<1>1. /\ Corners(A("N")) = {A("N"), A("NW")}
      /\ Corners(A("NE")) = {A("NE"), A("N")}
      /\ Corners(A("SE")) = {A("SE"), A("NE")}
      /\ Corners(A("S")) = {A("S"), A("SE")}
      /\ Corners(A("SW")) = {A("SW"), A("S")}
      /\ Corners(A("NW")) = {A("NW"), A("SW")}
  BY DirectionTable DEF Corners, Corner, A, B, C
<1>2. /\ Corners(B("N")) = {B("N"), B("NW")}
      /\ Corners(B("NE")) = {B("NE"), B("N")}
      /\ Corners(B("SE")) = {B("SE"), B("NE")}
      /\ Corners(B("S")) = {A("NE"), B("SE")}
      /\ Corners(B("SW")) = {A("N"), A("NE")}
      /\ Corners(B("NW")) = {B("NW"), A("N")}
  BY DirectionTable DEF Corners, Corner, A, B, C
<1>3. /\ Corners(C("N")) = {B("SE"), A("NE")}
      /\ Corners(C("NE")) = {C("NE"), B("SE")}
      /\ Corners(C("SE")) = {C("SE"), C("NE")}
      /\ Corners(C("S")) = {C("S"), C("SE")}
      /\ Corners(C("SW")) = {A("SE"), C("S")}
      /\ Corners(C("NW")) = {A("NE"), A("SE")}
  BY DirectionTable DEF Corners, Corner, A, B, C
<1>. QED
  BY <1>1, <1>2, <1>3

(* There are eighteen sides.                                               *)
LEMMA EverySide ==
  ASSUME NEW s \in Sides
  PROVE  \/ s \in {A("N"), A("NE"), A("SE"), A("S"), A("SW"), A("NW")}
         \/ s \in {B("N"), B("NE"), B("SE"), B("S"), B("SW"), B("NW")}
         \/ s \in {C("N"), C("NE"), C("SE"), C("S"), C("SW"), C("NW")}
<1>1. Directions = {"N", "NE", "SE", "S", "SW", "NW"}
  BY DEF Directions, Clockwise
<1>. QED
  BY <1>1 DEF Sides, Hexagons, A, B, C

(* A move ends on a side with a corner of the one it began on.             *)
LEMMA MovesShareACorner ==
  ASSUME NEW s \in Sides, NEW t \in Moves(s)
  PROVE  \E c \in Corners(s) : c \in Corners(t)
<1>1. CASE s \in {A("N"), A("NE"), A("SE"), A("S"), A("SW"), A("NW")}
  BY <1>1, MovesTable, CornersTable
<1>2. CASE s \in {B("N"), B("NE"), B("SE"), B("S"), B("SW"), B("NW")}
  BY <1>2, MovesTable, CornersTable
<1>3. CASE s \in {C("N"), C("NE"), C("SE"), C("S"), C("SW"), C("NW")}
  BY <1>3, MovesTable, CornersTable
<1>. QED
  BY EverySide, <1>1, <1>2, <1>3

(* Which moves can be taken back.                                          *)
LEMMA MovesBack ==
  ASSUME NEW s \in Sides, NEW t \in Moves(s)
  PROVE  /\ s # t
         /\ s \in Moves(t) <=> ~(s[1] = "B" /\ t = A("N"))
<1>1. CASE s \in {A("N"), A("NE"), A("SE"), A("S"), A("SW"), A("NW")}
  BY <1>1, MovesTable DEF A, B, C
<1>2. CASE s \in {B("N"), B("NE"), B("SE"), B("S"), B("SW"), B("NW")}
  BY <1>2, MovesTable DEF A, B, C
<1>3. CASE s \in {C("N"), C("NE"), C("SE"), C("S"), C("SW"), C("NW")}
  BY <1>3, MovesTable DEF A, B, C
<1>. QED
  BY EverySide, <1>1, <1>2, <1>3

(* The names of the sides: each is a side, on the hexagon it says.         *)
LEMMA SidesAreTheSides ==
  \A d \in {"N", "NE", "SE", "S", "SW", "NW"} :
    /\ A(d) \in Sides /\ B(d) \in Sides /\ C(d) \in Sides
    /\ A(d)[1] = "A" /\ B(d)[1] = "B" /\ C(d)[1] = "C"
    /\ A(d) # NONE /\ B(d) # NONE /\ C(d) # NONE
<1>1. Directions = {"N", "NE", "SE", "S", "SW", "NW"}
  BY DEF Directions, Clockwise
<1>2. \A d \in {"N", "NE", "SE", "S", "SW", "NW"} :
        A(d) \in Sides /\ B(d) \in Sides /\ C(d) \in Sides
  BY <1>1 DEF Sides, Hexagons, A, B, C
<1>3. \A d : A(d)[1] = "A" /\ B(d)[1] = "B" /\ C(d)[1] = "C"
  BY DEF A, B, C
<1>. QED
  BY <1>2, <1>3, NoneIsNoSide

(* A move ends on a side.                                                  *)
LEMMA MovesStayOnSides ==
  ASSUME NEW s \in Sides
  PROVE  Moves(s) \subseteq Sides
<1>1. CASE s \in {A("N"), A("NE"), A("SE"), A("S"), A("SW"), A("NW")}
  BY <1>1, MovesTable, SidesAreTheSides
<1>2. CASE s \in {B("N"), B("NE"), B("SE"), B("S"), B("SW"), B("NW")}
  BY <1>2, MovesTable, SidesAreTheSides
<1>3. CASE s \in {C("N"), C("NE"), C("SE"), C("S"), C("SW"), C("NW")}
  BY <1>3, MovesTable, SidesAreTheSides
<1>. QED
  BY EverySide, <1>1, <1>2, <1>3

-----------------------------------------------------------------------------
(* The moves of the characters.                                            *)

(* A character is on no side yet, or on the hexagon of his side.           *)
LayoutInv ==
  /\ side \in [Characters -> Sides \cup {NONE}]
  /\ hexagon \in [Characters -> Hexagons]
  /\ \A c \in Characters : side[c] # NONE => hexagon[c] = side[c][1]

(* What one character's step does.                                         *)
StepOf(c) ==
  \E dest \in Sides :
    /\ ChangeSide(c, dest)
    /\ \/ side[c] = NONE
       \/ /\ hexagon[c] = side[c][1]
          /\ side[c] \in Sides
          /\ dest \in Moves(side[c])

(* A move that HexagonSide::move accepts.                                  *)
LEMMA MoveIsAStep ==
  ASSUME LayoutInv, NEW c \in Characters, NEW dest, Move(c, dest)
  PROVE  StepOf(c)
<1>1. side[c] \in Sides /\ hexagon[c] = side[c][1] /\ dest \in Moves(side[c])
      /\ ChangeSide(c, dest)
  BY DEF Move, CanMove, IsMoveable, Moves, LayoutInv
<1>2. dest \in Sides
  BY <1>1, MovesStayOnSides
<1>. QED
  BY <1>1, <1>2 DEF StepOf

(* Every action moves or places one character.                             *)
LEMMA NextIsAStep ==
  ASSUME LayoutInv, Next
  PROVE  \E c \in Characters : StepOf(c)
<1>1. ASSUME NEW c \in Characters, NEW direction, MoveTowards(c, direction)
      PROVE  StepOf(c)
  BY <1>1, MoveIsAStep DEF MoveTowards, MoveLeft, MoveRight, MoveBack
<1>2. ASSUME NEW c \in Characters, NEW dest \in Sides, SetInitiatePosition(c, dest)
      PROVE  StepOf(c)
  BY <1>2 DEF SetInitiatePosition, StepOf
<1>. QED
  BY <1>1, <1>2, MoveIsAStep DEF Next

(* What a step leaves behind, and leaves alone.                            *)
LEMMA StepChangesOne ==
  ASSUME LayoutInv, NEW c \in Characters, NEW dest \in Sides, ChangeSide(c, dest)
  PROVE  /\ LayoutInv'
         /\ side'[c] = dest /\ hexagon'[c] = dest[1]
         /\ \A other \in Characters \ {c} : side'[other] = side[other]
<1>1. dest[1] \in Hexagons /\ dest # NONE
  BY NoneIsNoSide DEF Sides
<1>. QED
  BY <1>1 DEF LayoutInv, ChangeSide

(* Whoever has been placed stays on a side, and on its hexagon.            *)
LEMMA LayoutInvariance == Spec => []LayoutInv
<1>1. Init => LayoutInv
  BY DEF Init, LayoutInv, Hexagons
<1>2. LayoutInv /\ [Next]_vars => LayoutInv'
  <2>1. ASSUME LayoutInv, Next PROVE LayoutInv'
    BY <2>1, NextIsAStep, StepChangesOne DEF StepOf
  <2>2. ASSUME LayoutInv, UNCHANGED vars PROVE LayoutInv'
    BY <2>2 DEF vars, LayoutInv
  <2>. QED
    BY <2>1, <2>2
<1>. QED
  BY <1>1, <1>2, PTL DEF Spec

(* A step of a character who has been placed is one of the moves, and      *)
(* leaves him on the hexagon of the new side.                              *)
LEMMA PlacedCharactersMove ==
  ASSUME LayoutInv, [Next]_vars, NEW c \in Characters,
         side[c] # NONE, side'[c] # side[c]
  PROVE  /\ side[c] \in Sides /\ hexagon[c] = side[c][1]
         /\ side'[c] \in Moves(side[c])
         /\ side'[c] \in Sides /\ hexagon'[c] = side'[c][1]
<1>1. Next
  BY DEF vars
<1>2. PICK mover \in Characters : StepOf(mover)
  BY <1>1, NextIsAStep
<1>3. PICK dest \in Sides :
        /\ ChangeSide(mover, dest)
        /\ \/ side[mover] = NONE
           \/ /\ hexagon[mover] = side[mover][1]
              /\ side[mover] \in Sides
              /\ dest \in Moves(side[mover])
  BY <1>2 DEF StepOf
<1>4. mover = c
  BY <1>3, StepChangesOne
<1>. QED
  BY <1>3, <1>4, StepChangesOne

(* HexagonSide::move: no move skips a side.                                *)
THEOREM MovesAlwaysFollowTheLines == Spec => MovesFollowTheLines
<1>1. LayoutInv /\ [Next]_vars =>
        [\A c \in Characters :
           side[c] # NONE /\ side'[c] # side[c] => Touching(side[c], side'[c])]_vars
  <2>. SUFFICES ASSUME LayoutInv, [Next]_vars, NEW c \in Characters,
                       side[c] # NONE, side'[c] # side[c]
                PROVE  Touching(side[c], side'[c])
    OBVIOUS
  <2>1. \E corner \in Corners(side[c]) : corner \in Corners(side'[c])
    BY PlacedCharactersMove, MovesShareACorner
  <2>. QED
    BY <2>1 DEF Touching
<1>. QED
  BY LayoutInvariance, <1>1, PTL DEF Spec, MovesFollowTheLines

(* The specialisations of HexagonSide::move: every move can be taken back, *)
(* but for those from B into the north of A.                               *)
THEOREM MovesAreAlwaysReversibleButOne == Spec => MovesAreReversibleButOne
<1>1. LayoutInv /\ [Next]_vars =>
        [\A c \in Characters :
           side[c] # NONE /\ side'[c] # side[c] =>
             (CanMove(hexagon'[c], side'[c], side[c]) <=>
                ~(hexagon[c] = "B" /\ side'[c] = A("N")))]_vars
  <2>. SUFFICES ASSUME LayoutInv, [Next]_vars, NEW c \in Characters,
                       side[c] # NONE, side'[c] # side[c]
                PROVE  CanMove(hexagon'[c], side'[c], side[c]) <=>
                         ~(hexagon[c] = "B" /\ side'[c] = A("N"))
    OBVIOUS
  <2>1. /\ side[c] \in Sides /\ hexagon[c] = side[c][1]
        /\ side'[c] \in Moves(side[c])
        /\ side'[c] \in Sides /\ hexagon'[c] = side'[c][1]
    BY PlacedCharactersMove
  <2>2. CanMove(hexagon'[c], side'[c], side[c]) <=> side[c] \in Moves(side'[c])
    BY <2>1, NoneIsNoSide DEF CanMove, IsMoveable, Moves
  <2>3. side[c] \in Moves(side'[c]) <=> ~(side[c][1] = "B" /\ side'[c] = A("N"))
    BY <2>1, MovesBack
  <2>. QED
    BY <2>1, <2>2, <2>3
<1>. QED
  BY LayoutInvariance, <1>1, PTL DEF Spec, MovesAreReversibleButOne

(* From each side, the steps to the left and to the right.                 *)
LEMMA WayRound ==
  ASSUME NEW s \in Sides
  PROVE  /\ CanMove(s[1], s, FindLeft(s)) /\ CanMove(s[1], s, FindRight(s))
         /\ FindRight(FindLeft(s)) = s /\ FindLeft(FindRight(s)) = s
<1>1. PICK h \in Hexagons, d \in Directions : s = <<h, d>>
  BY DEF Sides
<1>2. d \in {"N", "NE", "SE", "S", "SW", "NW"}
  BY DEF Directions, Clockwise
<1>3. /\ NextDirection(PreviousDirection(d)) = d
      /\ PreviousDirection(NextDirection(d)) = d
  BY <1>2, DirectionTable
<1>4. s[1] = h /\ s[2] = d
  BY <1>1
<1>5. FindLeft(s) = <<h, PreviousDirection(d)>> /\ FindRight(s) = <<h, NextDirection(d)>>
  BY <1>4 DEF FindLeft, FindRight
<1>6. FindRight(FindLeft(s)) = s /\ FindLeft(FindRight(s)) = s
  BY <1>1, <1>3, <1>5 DEF FindLeft, FindRight
<1>7. FindLeft(s) \in AroundHexagon(s) /\ FindRight(s) \in AroundHexagon(s)
  BY <1>4, <1>5 DEF AroundHexagon
<1>. QED
  BY <1>6, <1>7, NoneIsNoSide DEF CanMove, IsMoveable

(* HexagonSide::moveLeft and moveRight: nobody is stopped on his way round *)
(* a hexagon, or led out of it.                                            *)
THEOREM WayRoundIsAlwaysOpen == Spec => []WayRoundIsOpen
<1>1. LayoutInv => WayRoundIsOpen
  BY WayRound DEF LayoutInv, WayRoundIsOpen
<1>. QED
  BY LayoutInvariance, <1>1, PTL

-----------------------------------------------------------------------------
(* How far the sides are from each other.                                  *)

(* Left, right and back lead to sides.                                     *)
LEMMA StepsStayOnSides ==
  ASSUME NEW s \in Sides
  PROVE  StepsFrom(s) \in SUBSET Sides
<1>1. \A t \in StepsFrom(s) : t \in Moves(s)
  BY DEF StepsFrom, CanMove, IsMoveable, Moves
<1>. QED
  BY <1>1, MovesStayOnSides

(* To the left and to the right, and over the three ambush borders.        *)
LEMMA StepsTable ==
  /\ {A("NW"), A("NE")} \subseteq StepsFrom(A("N"))
  /\ {A("N"), A("SE"), B("SW")} \subseteq StepsFrom(A("NE"))
  /\ {A("NE"), A("S"), C("NW")} \subseteq StepsFrom(A("SE"))
  /\ {A("SE"), A("SW")} \subseteq StepsFrom(A("S"))
  /\ {A("S"), A("NW")} \subseteq StepsFrom(A("SW"))
  /\ {A("SW"), A("N")} \subseteq StepsFrom(A("NW"))
  /\ {B("NW"), B("NE")} \subseteq StepsFrom(B("N"))
  /\ {B("N"), B("SE")} \subseteq StepsFrom(B("NE"))
  /\ {B("NE"), B("S")} \subseteq StepsFrom(B("SE"))
  /\ {B("SE"), B("SW"), C("N")} \subseteq StepsFrom(B("S"))
  /\ {B("S"), B("NW"), A("NE")} \subseteq StepsFrom(B("SW"))
  /\ {B("SW"), B("N")} \subseteq StepsFrom(B("NW"))
  /\ {C("NW"), C("NE"), B("S")} \subseteq StepsFrom(C("N"))
  /\ {C("N"), C("SE")} \subseteq StepsFrom(C("NE"))
  /\ {C("NE"), C("S")} \subseteq StepsFrom(C("SE"))
  /\ {C("SE"), C("SW")} \subseteq StepsFrom(C("S"))
  /\ {C("S"), C("NW")} \subseteq StepsFrom(C("SW"))
  /\ {C("SW"), C("N"), A("SE")} \subseteq StepsFrom(C("NW"))
<1>1. /\ {A("NW"), A("NE")} \subseteq StepsFrom(A("N"))
      /\ {A("N"), A("SE"), B("SW")} \subseteq StepsFrom(A("NE"))
      /\ {A("NE"), A("S"), C("NW")} \subseteq StepsFrom(A("SE"))
      /\ {A("SE"), A("SW")} \subseteq StepsFrom(A("S"))
      /\ {A("S"), A("NW")} \subseteq StepsFrom(A("SW"))
      /\ {A("SW"), A("N")} \subseteq StepsFrom(A("NW"))
  BY DirectionTable, SidesAreTheSides, NoneIsNoSide
     DEF StepsFrom, FindLeft, FindRight, FindBack, IsAmbushSide, CanMove, IsMoveable,
         AroundHexagon, AcrossHexagons, A, B, C
<1>2. /\ {B("NW"), B("NE")} \subseteq StepsFrom(B("N"))
      /\ {B("N"), B("SE")} \subseteq StepsFrom(B("NE"))
      /\ {B("NE"), B("S")} \subseteq StepsFrom(B("SE"))
      /\ {B("SE"), B("SW"), C("N")} \subseteq StepsFrom(B("S"))
      /\ {B("S"), B("NW"), A("NE")} \subseteq StepsFrom(B("SW"))
      /\ {B("SW"), B("N")} \subseteq StepsFrom(B("NW"))
  BY DirectionTable, SidesAreTheSides, NoneIsNoSide
     DEF StepsFrom, FindLeft, FindRight, FindBack, IsAmbushSide, CanMove, IsMoveable,
         AroundHexagon, AcrossHexagons, A, B, C
<1>3. /\ {C("NW"), C("NE"), B("S")} \subseteq StepsFrom(C("N"))
      /\ {C("N"), C("SE")} \subseteq StepsFrom(C("NE"))
      /\ {C("NE"), C("S")} \subseteq StepsFrom(C("SE"))
      /\ {C("SE"), C("SW")} \subseteq StepsFrom(C("S"))
      /\ {C("S"), C("NW")} \subseteq StepsFrom(C("SW"))
      /\ {C("SW"), C("N"), A("SE")} \subseteq StepsFrom(C("NW"))
  BY DirectionTable, SidesAreTheSides, NoneIsNoSide
     DEF StepsFrom, FindLeft, FindRight, FindBack, IsAmbushSide, CanMove, IsMoveable,
         AroundHexagon, AcrossHexagons, A, B, C
<1>. QED
  BY <1>1, <1>2, <1>3

(* The sides within so many moves, one move after the other.               *)
LEMMA ReachGoesOn ==
  ASSUME NEW s \in Sides, NEW moves \in Nat
  PROVE  \E reach \in [0..moves -> SUBSET Sides] :
           /\ reach[0] = {s}
           /\ \A n \in 0..(moves - 1) :
                reach[n + 1] = reach[n] \cup UNION {StepsFrom(t) : t \in reach[n]}
           /\ WithinMoves(s, moves) = reach[moves]
<1>. DEFINE T == SUBSET Sides
            Then(S) == S \cup UNION {StepsFrom(t) : t \in S}
            op == [pair \in T \X Nat |-> Then(pair[1])]
            Body(reach) == [n \in 0..moves |-> IF n = 0 THEN {s} ELSE Then(reach[n - 1])]
            found == CHOOSE reach : reach = Body(reach)
<1>1. {s} \in T
  OBVIOUS
<1>2. ASSUME NEW S \in T PROVE Then(S) \in T
  BY StepsStayOnSides
<1>. HIDE DEF T, Then
<1>3. op \in [T \X Nat -> T]
  BY <1>2
<1>4. PICK f \in [Nat -> T] : IsRecursion(f, {s}, op)
  <2>. HIDE DEF op
  <2>. QED
    BY <1>1, <1>3, Recursion
<1>5. f[0] = {s} /\ \A n \in Nat : f[n + 1] = Then(f[n])
  BY <1>4 DEF IsRecursion
<1>. DEFINE g == [n \in 0..moves |-> f[n]]
<1>6. g = Body(g)
  <2>1. ASSUME NEW n \in 0..moves
        PROVE  f[n] = IF n = 0 THEN {s} ELSE Then(g[n - 1])
    <3>1. CASE n = 0
      BY <1>5, <3>1
    <3>2. CASE n # 0
      <4>1. n - 1 \in 0..moves /\ n - 1 \in Nat /\ (n - 1) + 1 = n
        BY <3>2
      <4>. QED
        BY <1>5, <3>2, <4>1
    <3>. QED
      BY <3>1, <3>2
  <2>. QED
    BY <2>1
<1>7. found = Body(found)
  <2>. HIDE DEF Body, g
  <2>. QED
    BY <1>6
<1>8. WithinMoves(s, moves) = found[moves]
  BY Zenon DEF WithinMoves, Then
<1>. HIDE DEF found
<1>9. ASSUME NEW n \in 0..moves
      PROVE  found[n] = IF n = 0 THEN {s} ELSE Then(found[n - 1])
  BY <1>7
<1>10. found[0] = {s}
  BY <1>9
<1>11. ASSUME NEW n \in 0..(moves - 1) PROVE found[n + 1] = Then(found[n])
  <2>1. n + 1 \in 0..moves /\ n + 1 # 0 /\ (n + 1) - 1 = n
    OBVIOUS
  <2>. QED
    BY <1>9, <2>1
<1>12. found \in [0..moves -> T]
  <2>. DEFINE typed == {n \in Nat : n <= moves => found[n] \in T}
  <2>1. 0 \in typed
    BY <1>1, <1>10
  <2>2. ASSUME NEW n \in Nat, n \in typed PROVE n + 1 \in typed
    <3>. SUFFICES ASSUME n + 1 <= moves PROVE found[n + 1] \in T
      OBVIOUS
    <3>1. n \in 0..(moves - 1) /\ found[n] \in T
      BY <2>2
    <3>. QED
      BY <1>2, <1>11, <3>1
  <2>3. Nat \subseteq typed
    <3>. HIDE DEF typed
    <3>. QED
      BY <2>1, <2>2, SetInduction
  <2>4. \A n \in 0..moves : found[n] \in T
    BY <2>3
  <2>5. found = [n \in 0..moves |-> found[n]]
    BY <1>7
  <2>. QED
    BY <2>4, <2>5
<1>. QED
  BY <1>8, <1>10, <1>11, <1>12, Zenon DEF Then, T

(* One move leads from the sides of near to sides of far.                  *)
Leads(near, far) == \A t \in near : {t} \cup StepsFrom(t) \subseteq far

(* The sides one more move leads to, with those reached so far.            *)
LEMMA OneMoreMoveLeads ==
  ASSUME NEW near, NEW far, far = near \cup UNION {StepsFrom(t) : t \in near}
  PROVE  Leads(near, far)
BY DEF Leads

(* Three moves are enough to get round a hexagon.                          *)
LEMMA RoundTheHexagon ==
  ASSUME NEW near, NEW nearer, NEW far, NEW farther,
         NEW s \in Sides, s \in near,
         Leads(near, nearer), Leads(nearer, far), Leads(far, farther)
  PROVE  \A d \in Directions : <<s[1], d>> \in farther
<1>0. Directions = {"N", "NE", "SE", "S", "SW", "NW"}
  BY DEF Directions, Clockwise
<1>1. CASE s \in {A("N"), A("NE"), A("SE"), A("S"), A("SW"), A("NW")}
  <2>1. s[1] = "A"
    BY <1>1, SidesAreTheSides
  <2>2. {A("N"), A("NE"), A("SE"), A("S"), A("SW"), A("NW")} \subseteq farther
    BY <1>1, StepsTable DEF Leads
  <2>. QED
    BY <1>0, <2>1, <2>2 DEF A
<1>2. CASE s \in {B("N"), B("NE"), B("SE"), B("S"), B("SW"), B("NW")}
  <2>1. s[1] = "B"
    BY <1>2, SidesAreTheSides
  <2>2. {B("N"), B("NE"), B("SE"), B("S"), B("SW"), B("NW")} \subseteq farther
    BY <1>2, StepsTable DEF Leads
  <2>. QED
    BY <1>0, <2>1, <2>2 DEF B
<1>3. CASE s \in {C("N"), C("NE"), C("SE"), C("S"), C("SW"), C("NW")}
  <2>1. s[1] = "C"
    BY <1>3, SidesAreTheSides
  <2>2. {C("N"), C("NE"), C("SE"), C("S"), C("SW"), C("NW")} \subseteq farther
    BY <1>3, StepsTable DEF Leads
  <2>. QED
    BY <1>0, <2>1, <2>2 DEF C
<1>. QED
  BY EverySide, <1>1, <1>2, <1>3

(* From a hexagon, a fourth move leads to each of the two others.          *)
LEMMA SevenMovesAreEnough ==
  ASSUME NEW s \in Sides
  PROVE  WithinMoves(s, 7) = Sides
<1>. DEFINE seven == 7
<1>0. seven \in Nat
  OBVIOUS
<1>. HIDE DEF seven
<1>1. PICK reach \in [0..seven -> SUBSET Sides] :
        /\ reach[0] = {s}
        /\ \A n \in 0..(seven - 1) :
             reach[n + 1] = reach[n] \cup UNION {StepsFrom(t) : t \in reach[n]}
        /\ WithinMoves(s, seven) = reach[seven]
  BY <1>0, ReachGoesOn
<1>2. /\ reach[1] = reach[0] \cup UNION {StepsFrom(t) : t \in reach[0]}
      /\ reach[2] = reach[1] \cup UNION {StepsFrom(t) : t \in reach[1]}
      /\ reach[3] = reach[2] \cup UNION {StepsFrom(t) : t \in reach[2]}
      /\ reach[4] = reach[3] \cup UNION {StepsFrom(t) : t \in reach[3]}
      /\ reach[5] = reach[4] \cup UNION {StepsFrom(t) : t \in reach[4]}
      /\ reach[6] = reach[5] \cup UNION {StepsFrom(t) : t \in reach[5]}
      /\ reach[7] = reach[6] \cup UNION {StepsFrom(t) : t \in reach[6]}
  <2>1. /\ reach[0 + 1] = reach[0] \cup UNION {StepsFrom(t) : t \in reach[0]}
        /\ reach[1 + 1] = reach[1] \cup UNION {StepsFrom(t) : t \in reach[1]}
        /\ reach[2 + 1] = reach[2] \cup UNION {StepsFrom(t) : t \in reach[2]}
        /\ reach[3 + 1] = reach[3] \cup UNION {StepsFrom(t) : t \in reach[3]}
        /\ reach[4 + 1] = reach[4] \cup UNION {StepsFrom(t) : t \in reach[4]}
        /\ reach[5 + 1] = reach[5] \cup UNION {StepsFrom(t) : t \in reach[5]}
        /\ reach[6 + 1] = reach[6] \cup UNION {StepsFrom(t) : t \in reach[6]}
    BY <1>1 DEF seven
  <2>. QED
    BY <2>1
<1>3a. Leads(reach[0], reach[1])
  BY <1>2, OneMoreMoveLeads
<1>3b. Leads(reach[1], reach[2])
  BY <1>2, OneMoreMoveLeads
<1>3c. Leads(reach[2], reach[3])
  BY <1>2, OneMoreMoveLeads
<1>3d. Leads(reach[3], reach[4])
  BY <1>2, OneMoreMoveLeads
<1>3e. Leads(reach[4], reach[5])
  BY <1>2, OneMoreMoveLeads
<1>3f. Leads(reach[5], reach[6])
  BY <1>2, OneMoreMoveLeads
<1>3g. Leads(reach[6], reach[7])
  BY <1>2, OneMoreMoveLeads
<1>4. s[1] \in Hexagons
  BY DEF Sides
<1>5. \A d \in Directions : <<s[1], d>> \in reach[3]
  <2>1. s \in reach[0]
    BY <1>1
  <2>. QED
    BY <1>3a, <1>3b, <1>3c, <2>1, RoundTheHexagon
<1>6. Directions = {"N", "NE", "SE", "S", "SW", "NW"}
  BY DEF Directions, Clockwise
<1>7. \A h \in Hexagons : \E t \in Sides : t[1] = h /\ t \in reach[4]
  <2>1. CASE s[1] = "A"
    <3>1. A("N") \in reach[4] /\ B("SW") \in reach[4] /\ C("NW") \in reach[4]
      <4>1. A("N") \in reach[3] /\ A("NE") \in reach[3] /\ A("SE") \in reach[3]
        BY <1>5, <1>6, <2>1 DEF A
      <4>. QED
        BY <1>3d, <4>1, StepsTable DEF Leads
    <3>. QED
      BY <3>1, SidesAreTheSides DEF Hexagons
  <2>2. CASE s[1] = "B"
    <3>1. B("N") \in reach[4] /\ A("NE") \in reach[4] /\ C("N") \in reach[4]
      <4>1. B("N") \in reach[3] /\ B("SW") \in reach[3] /\ B("S") \in reach[3]
        BY <1>5, <1>6, <2>2 DEF B
      <4>. QED
        BY <1>3d, <4>1, StepsTable DEF Leads
    <3>. QED
      BY <3>1, SidesAreTheSides DEF Hexagons
  <2>3. CASE s[1] = "C"
    <3>1. C("S") \in reach[4] /\ A("SE") \in reach[4] /\ B("S") \in reach[4]
      <4>1. C("S") \in reach[3] /\ C("NW") \in reach[3] /\ C("N") \in reach[3]
        BY <1>5, <1>6, <2>3 DEF C
      <4>. QED
        BY <1>3d, <4>1, StepsTable DEF Leads
    <3>. QED
      BY <3>1, SidesAreTheSides DEF Hexagons
  <2>. QED
    BY <1>4, <2>1, <2>2, <2>3 DEF Hexagons
<1>8. ASSUME NEW h \in Hexagons PROVE \A d \in Directions : <<h, d>> \in reach[7]
  <2>1. PICK t \in Sides : t[1] = h /\ t \in reach[4]
    BY <1>7
  <2>. QED
    BY <1>3e, <1>3f, <1>3g, <2>1, RoundTheHexagon
<1>9. Sides \subseteq reach[7]
  <2>1. ASSUME NEW t \in Sides PROVE t \in reach[7]
    <3>1. t = <<t[1], t[2]>> /\ t[1] \in Hexagons /\ t[2] \in Directions
      BY DEF Sides
    <3>. QED
      BY <1>8, <3>1
  <2>. QED
    BY <2>1
<1>10. reach[7] \subseteq Sides /\ WithinMoves(s, 7) = reach[7]
  BY <1>1 DEF seven
<1>. QED
  BY <1>9, <1>10

(* FightingPitLayout::move: whoever is placed gets from any side to every  *)
(* other one in seven moves.                                               *)
THEOREM EverySideIsAlwaysWithinReach == Spec => []EverySideIsWithinReach
<1>1. LayoutInv => EverySideIsWithinReach
  BY SevenMovesAreEnough DEF LayoutInv, EverySideIsWithinReach
<1>. QED
  BY LayoutInvariance, <1>1, PTL
==============================================================================
