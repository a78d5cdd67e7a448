--------------------------- MODULE MCFightingPit ---------------------------
(***************************************************************************)
(* A pit for the model checker: teams of three members and two contenders  *)
(* over two sides, a third side where nobody stands. The first member and  *)
(* the second contender share their id and their side.                     *)
(***************************************************************************)
EXTENDS FightingPit, TLC

TwoFronts == <<"A_N", "B_S", "C_S">>

ThreeMembers ==
  <<[life |-> 2, side |-> "B_S"], [life |-> 1, side |-> "B_S"],
    [life |-> 3, side |-> "A_N"]>>

TwoContenders == <<"B_S", "B_S">>

\* Which the announcer never does.
ContendersApart == <<"A_N", "B_S">>

\* The one slashes who has the least life, the other anybody.
LowestOrAny == (0 :> "lower_life") @@ (1 :> "one_random")

\* The action of a key without folders, and one more.
TwoActions == <<"slash", "arena:heal">>

Names == [k \in {"slash", "arena:heal"} |-> IF k = "slash" THEN k ELSE "heal"]

TargetOfName == [n \in {"slash", "heal"} |-> IF n = "slash" THEN "ENNEMY" ELSE "ALLY"]

\* An action on a target who is there, and one the script map does not know.
SlashOrder == [key |-> "slash", target |-> [kind |-> "ENNEMY", id |-> 0]]
HealOrder == [key |-> "arena:heal", target |-> [kind |-> "ALLY", id |-> 1]]

SomeOrders == {SlashOrder, HealOrder}
=============================================================================
