--------------------------- MODULE MCPitBuilding ---------------------------
(***************************************************************************)
(* A configuration for the model checker: a zone with a range, one without *)
(* and one that is not registered; two classes of contenders, of which one *)
(* needs the action of the team.                                           *)
(***************************************************************************)
EXTENDS PitBuilding, TLC

ScriptKeys == {"action", "slash", "Sampy", "Slime"}

\* The names are the keys: folders and extensions left out.
Names == [k \in ScriptKeys |-> k]

UsesOfScripts ==
  [k \in ScriptKeys |->
     CASE k = "Slime" -> {"action", "slash", "Slime"}
       [] k = "Sampy" -> {"action", "Sampy"}
       [] OTHER -> {k}]

OneBaseAction == <<"action">>
SlashOfTheTeam == <<"slash">>
NoActions == << >>

\* The last is none of FightingPit::Level.
ThreeLevels == {"EASY", "HARD", "OTHER"}
TwoDifficulties == {"EASY", "HARD"}

\* Chances in quarters; the second difficulty has them the other way round.
Entries(keys, chances) ==
  [n \in DOMAIN keys |->
     [key |-> keys[n],
      chance |-> [d \in TwoDifficulties |->
                    IF d = "EASY" THEN chances[n] ELSE chances[Len(chances) + 1 - n]]]]

Ranges == [d \in TwoDifficulties |-> IF d = "EASY" THEN <<1, 1>> ELSE <<1, 2>>]

ZonesOfOneArena ==
  [rangePerZone |-> ("WS00" :> Ranges),
   contendersPerZone |-> ("WS00" :> Entries(<<"Sampy", "Slime">>, <<1, 3>>))
                           @@ ("WS01" :> Entries(<<"Sampy">>, <<4>>))]

AllZones == {"WS00", "WS01", "WS11"}

\* All the chances up to a quarter too many, of up to four entries.
ManyConfigs ==
  {[rangePerZone |-> << >>,
    contendersPerZone |-> ("WS00" :> Entries([n \in 1..Len(chances) |-> "Sampy"], chances))] :
     chances \in UNION {[1..n -> 0..5] : n \in 1..4}}
=============================================================================
