---------------------------- MODULE HexagonSide ----------------------------
(***************************************************************************)
(* fys::arena::HexagonSide: the 18 sides of the three hexagons of a        *)
(* fighting pit and the moves between them. A side is a hexagon and a      *)
(* direction; the directions go round a hexagon clockwise, in the order of *)
(* the enumeration.                                                        *)
(***************************************************************************)
EXTENDS Integers, Sequences

CONSTANT NONE  \* no side

Hexagons == {"A", "B", "C"}

Clockwise == <<"N", "NE", "SE", "S", "SW", "NW">>

Directions == {Clockwise[k] : k \in 1..6}

Sides == Hexagons \X Directions

ASSUME NoneIsNoSide == NONE \notin Sides

Position(d) == CHOOSE k \in 1..6 : Clockwise[k] = d

NextDirection(d) == Clockwise[(Position(d) % 6) + 1]

PreviousDirection(d) == Clockwise[((Position(d) + 4) % 6) + 1]

A(d) == <<"A", d>>
B(d) == <<"B", d>>
C(d) == <<"C", d>>

(* Moves within a hexagon: to the two neighbours.                          *)
AroundHexagon(s) == {<<s[1], NextDirection(s[2])>>, <<s[1], PreviousDirection(s[2])>>}

(* Moves to another hexagon, as the specialisations list them.             *)
AcrossHexagons(s) ==
  CASE s = A("S")  -> {C("NW"), C("SW")}
    [] s = A("NE") -> {B("S"), B("NW"), B("SW"), C("N"), C("NW")}
    [] s = A("SE") -> {B("S"), B("SW"), C("N"), C("NW"), C("SW")}
    [] s = B("NW") -> {A("N"), A("NE")}
    [] s = B("S")  -> {C("N"), C("NE"), C("NW"), A("NE"), A("SE")}
    [] s = B("SE") -> {C("N"), C("NE")}
    [] s = B("SW") -> {C("N"), C("NW"), A("NE"), A("SE"), A("N")}
    [] s = C("N")  -> {B("S"), B("SE"), B("SW"), A("NE"), A("SE")}
    [] s = C("NE") -> {B("S"), B("SE")}
    [] s = C("NW") -> {A("SE"), A("S"), A("NE"), B("S"), B("SW")}
    [] s = C("SW") -> {A("S"), A("SE")}
    [] OTHER       -> {}

\* Slip: no specialisation leads out of a hexagon.
MoveableWithinHexagon(s, dest) == dest \in AroundHexagon(s)

\* Slip: B is left from its south only.
MoveableOutOfBFromSouth(s, dest) ==
  dest \in AroundHexagon(s) \cup (IF s \in {B("SE"), B("SW"), B("NW")} THEN {}
                                  ELSE AcrossHexagons(s))

IsMoveable(s, dest) == dest \in AroundHexagon(s) \cup AcrossHexagons(s)

(* The specialisations are chosen by the hexagon on record, then by the    *)
(* side: a side of another hexagon has no moves.                           *)
CanMove(hexagon, side, dest) ==
  /\ side # NONE
  /\ side[1] = hexagon
  /\ IsMoveable(side, dest)

\* The enumerator before A_N .. C_NW, with the three N wrapped around.
FindLeft(side) == <<side[1], PreviousDirection(side[2])>>

\* Slip: the last enumerator of a hexagon is not wrapped around.
FindRightUnwrapped(side) ==
  <<IF side[2] # "NW" THEN side[1] ELSE IF side[1] = "A" THEN "B" ELSE "C",
    NextDirection(side[2])>>

FindRight(side) == <<side[1], NextDirection(side[2])>>

IsAmbushSide(side) ==
  side \in {A("NE"), A("SE"), B("S"), B("SW"), C("N"), C("NW")}

(* The other side of an ambush border.                                     *)
FindBack(side) ==
  CASE ~IsAmbushSide(side) -> NONE
    [] side = B("S")  -> C("N")
    [] side = C("N")  -> B("S")
    [] side = A("NE") -> B("SW")
    [] side = B("SW") -> A("NE")
    [] side = C("NW") -> A("SE")
    [] side = A("SE") -> C("NW")

-----------------------------------------------------------------------------
(* The drawing of FightingPitLayout.hh, against which the moves are        *)
(* judged: a side lies between two corners; corners of two or three        *)
(* hexagons are one point of the drawing.                                  *)

\* The corner of a hexagon after a direction, clockwise: the centre of the
\* drawing, the three other corners two hexagons share, or one of its own.
Corner(h, d) ==
  CASE <<h, d>> \in {A("NE"), B("S"), C("NW")} -> A("NE")
    [] <<h, d>> \in {A("N"), B("SW")}          -> A("N")
    [] <<h, d>> \in {A("SE"), C("SW")}         -> A("SE")
    [] <<h, d>> \in {B("SE"), C("N")}          -> B("SE")
    [] OTHER                                   -> <<h, d>>

Corners(s) == {Corner(s[1], s[2]), Corner(s[1], PreviousDirection(s[2]))}

Touching(s, t) == s # t /\ Corners(s) \cap Corners(t) # {}

SameBorder(s, t) == s # t /\ Corners(s) = Corners(t)
=============================================================================
