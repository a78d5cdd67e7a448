-------------------------- MODULE TargetSelection --------------------------
(***************************************************************************)
(* How a character of a fighting pit is selected: fys::find_most_suitable  *)
(* and the selections PitContenders and AllyPartyTeams build on it for the *)
(* scripts. A character is a record with a life and a side; a comparison   *)
(* is the set of pairs of a character and one who is more suitable. The    *)
(* members of all the teams are one sequence: the search goes through the  *)
(* teams in order and hands the most suitable so far from one team to the  *)
(* next.                                                                   *)
(***************************************************************************)
EXTENDS Integers, Sequences, SequencesExt

\* Slip: the comparison is given its arguments the other way round.
BetterTheOtherWay(current, next, comp) ==
  IF <<next, current>> \in comp THEN next ELSE current

(* The more suitable of the two, the present one unless the next is.       *)
Better(current, next, comp) ==
  IF <<current, next>> \in comp THEN next ELSE current

(* The search starts from the first character, who is compared with        *)
(* himself too.                                                            *)
FindMostSuitable(characters, comp) ==
  FoldLeft(LAMBDA current, next : Better(current, next, comp),
           Head(characters), characters)

IsDead(character) == character.life = 0

(* Of two characters only the one held as the most suitable so far has to  *)
(* be alive and on the side: what was asked of him is not asked of the     *)
(* next, and once he fails it nobody replaces him.                         *)
SelectSuitableOnSideAlive(characters, side, comp) ==
  FindMostSuitable(characters,
    {pair \in comp : ~IsDead(pair[1]) /\ pair[1].side = side})

(* Any of those who stand on the side, the dead included.                  *)
OnSide(characters, side) == {c \in Range(characters) : c.side = side}

Pairs(characters) == Range(characters) \X Range(characters)

(* decide_target.lower_life and higher_life of the scripts.                *)
LowerLife(characters) == {p \in Pairs(characters) : p[1].life >= p[2].life}
HigherLife(characters) == {p \in Pairs(characters) : p[1].life <= p[2].life}
=============================================================================
