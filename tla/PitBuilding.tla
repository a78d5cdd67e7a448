---------------------------- MODULE PitBuilding ----------------------------
(***************************************************************************)
(* The building of a fighting pit: the encounters the arena server is      *)
(* configured with, the choice of the contenders, and the scripts that are *)
(* loaded for them into the pit's interpreter from the script cache, whose *)
(* files may change in the middle of it. ArenaServer has the building of a *)
(* pit as one step that fails or not.                                      *)
(***************************************************************************)
EXTENDS ScriptCache, Sequences, SequencesExt, FiniteSetsExt

CONSTANTS
  Difficulties,   \* FightingPit::Level: "EASY" and others
  Levels,         \* levels an encounter may be asked for
  Percent,        \* what the chances of a zone add up to: 100
  Config,         \* EncounterContext: a range and the contenders of each zone
  RawConfigs,     \* what the configuration files may say
  WsIds,          \* zones a pit may be asked for
  Users,          \* players who may be awaited, the empty name included
  NoName,         \* the empty name
  BaseActions,    \* keys of registerBaseActions, in order
  TeamActions,    \* keys of the actions of the members, in order
  GetNameFromKey, \* last part of a key: the class its script defines
  Uses,           \* classes the construction of a class needs, its own included
  Broken,         \* a content the interpreter refuses
  Unset,          \* a content whose class cannot set its contender up
  MaxChanges      \* bound of the model: changes of files

VARIABLES
  stage,       \* part of buildFightingPit under way
  wsId,        \* the zone and
  difficulty,  \* the difficulty of the pit under way
  actions,     \* keys still to be loaded in this stage
  classes,     \* classes the pit's interpreter knows, from which content
  left,        \* contenders still to be generated
  contenders,  \* entries the pit's contenders come from
  loaded,      \* _loadedScript
  alive,       \* the process runs
  changes      \* history: how often a file has changed

buildVars == <<stage, wsId, difficulty, actions, classes, left,
               contenders, loaded, alive, changes>>
vars == <<cacheVars, buildVars>>

(* What the reader makes of a configuration file: no number is negative.   *)
ReadEntry == [key : Keys, chance : [Difficulties -> Nat]]

ReadConfig(c) ==
  /\ \A z \in DOMAIN c.contendersPerZone : c.contendersPerZone[z] \in Seq(ReadEntry)
  /\ \A z \in DOMAIN c.rangePerZone : c.rangePerZone[z] \in [Difficulties -> Nat \X Nat]

ASSUME PitBuildingAssumption ==
  /\ "EASY" \in Difficulties
  /\ Percent \in Nat \ {0}
  /\ \A c \in RawConfigs \cup {Config} : ReadConfig(c)
  /\ BaseActions \in Seq(Keys) /\ TeamActions \in Seq(Keys)
  /\ \A k \in Keys : GetNameFromKey[k] \in Uses[GetNameFromKey[k]]
  /\ MaxChanges \in Nat

-----------------------------------------------------------------------------
(* The configuration.                                                      *)

Zones(c) == DOMAIN c.contendersPerZone

TotalChance(entries, d) == FoldLeft(LAMBDA total, e : total + e.chance[d], 0, entries)

\* Slip: chances that add up to less are accepted.
ValidatedUpTo(c) ==
  \A z \in Zones(c), d \in Difficulties :
    TotalChance(c.contendersPerZone[z], d) <= Percent

ValidateEncounterContext(c) ==
  /\ \A z \in DOMAIN c.rangePerZone, d \in Difficulties : c.rangePerZone[z][d][1] > 0
  /\ \A z \in Zones(c), d \in Difficulties :
       TotalChance(c.contendersPerZone[z], d) = Percent

-----------------------------------------------------------------------------
(* BoundaryMap: what is drawn is the element of the lowest boundary that   *)
(* is not below the value.                                                 *)

\* Slip: the boundaries above the value only.
BoundariesAbove(bm, index) == {b \in DOMAIN bm : b > index}

Boundaries(bm, index) == {b \in DOMAIN bm : b >= index}

Get(bm, index) == Min(Boundaries(bm, index))

WithBoundary(bm, b, element) == [i \in DOMAIN bm \cup {b} |-> IF i = b THEN element ELSE bm[i]]

(* An element whose boundary is not above the others' goes right behind    *)
(* the one that is in its way.                                             *)
InsertBoundary(bm, index, element) ==
  IF Boundaries(bm, index) = {} THEN WithBoundary(bm, index, element)
  ELSE WithBoundary(bm, Get(bm, index) + 1, element)

MakeContenderRngBoundaryMap(entries, d) ==
  LET add(former, n) ==
        [val |-> former.val + entries[n].chance[d],
         bm |-> InsertBoundary(former.bm, former.val + entries[n].chance[d], n)]
  IN  FoldLeftDomain(add, [val |-> 0, bm |-> << >>], entries).bm

(* The rank of the contender drawn by a value, among those of the zone.    *)
Drawn(bm, value) == bm[Get(bm, value)]

-----------------------------------------------------------------------------
(* The building.                                                           *)

Idle(outcome) ==
  /\ stage' = outcome
  /\ actions' = << >>
  /\ left' = 0

Defines(content) == content \notin {Absent, Broken}

(* The interpreter a pit starts with knows no class of a script.           *)
CreateChaiInstance == << >>

(* A class the interpreter knows already keeps its first definition.       *)
WithClassOf(key) ==
  IF Defines(Found(key))
  THEN [name \in DOMAIN classes \cup {GetNameFromKey[key]} |->
          IF name \in DOMAIN classes THEN classes[name] ELSE Found(key)]
  ELSE classes

Constructs(name, known) == Uses[name] \subseteq DOMAIN known

(* The server starts on a configuration it accepts and whole scripts.      *)
Init ==
  /\ CacheInit
  /\ \A k \in Keys : source[k] \notin {Absent, Broken, Unset}
  /\ stage = "none"
  /\ wsId \in WsIds
  /\ difficulty \in Difficulties
  /\ actions = << >>
  /\ classes = CreateChaiInstance
  /\ left = 0
  /\ contenders = << >>
  /\ loaded = {}
  /\ alive = ValidateEncounterContext(Config)
  /\ changes = 0

Building == stage \in {"base", "team", "contenders"}

(* Whatever is not a level is easy.                                        *)
TranslateLevelFromFlatbuffer(level) ==
  IF level \in Difficulties THEN level ELSE "EASY"

(* createNewFightingPit, up to the first script.                           *)
BuildFightingPit(user, ws, d) ==
  /\ alive
  /\ ~Building
  /\ user # NoName
  /\ ws \in Zones(Config)
  /\ stage' = "base"
  /\ wsId' = ws
  /\ difficulty' = d
  /\ actions' = BaseActions
  /\ classes' = CreateChaiInstance
  /\ contenders' = << >>
  /\ loaded' = {}
  /\ UNCHANGED <<cacheVars, left, alive, changes>>

RefuseFightingPit(user, ws) ==
  /\ alive
  /\ ~Building
  /\ user = NoName \/ ws \notin Zones(Config)
  /\ Idle("refused")
  /\ contenders' = << >>
  /\ UNCHANGED <<cacheVars, wsId, difficulty, classes, loaded, alive, changes>>

(* registerBaseActions, one script: what cannot be loaded is left out.     *)
RegisterBaseAction ==
  /\ alive
  /\ stage = "base"
  /\ actions # << >>
  /\ FindInCache(Head(actions))
  /\ classes' = WithClassOf(Head(actions))
  /\ actions' = Tail(actions)
  /\ UNCHANGED <<stage, wsId, difficulty, left, contenders, loaded,
                 alive, changes>>

BaseActionsAreRegistered ==
  /\ alive
  /\ stage = "base"
  /\ actions = << >>
  /\ stage' = "team"
  /\ actions' = TeamActions
  /\ UNCHANGED <<cacheVars, wsId, difficulty, classes, left, contenders,
                 loaded, alive, changes>>

(* loadAndRegisterAction, one action: the first that cannot be made for    *)
(* its member leaves the others unloaded, and the pit is built all the     *)
(* same.                                                                   *)
LoadAndRegisterAction ==
  /\ alive
  /\ stage = "team"
  /\ actions # << >>
  /\ FindInCache(Head(actions))
  /\ classes' = WithClassOf(Head(actions))
  /\ actions' = IF Constructs(GetNameFromKey[Head(actions)], classes') THEN Tail(actions)
                ELSE << >>
  /\ UNCHANGED <<stage, wsId, difficulty, left, contenders, loaded,
                 alive, changes>>

GenerateInRange(a, b) == a..b

(* The number of contenders; a zone without a range is not expected.       *)
StartGeneratingContenders ==
  /\ alive
  /\ stage = "team"
  /\ actions = << >>
  /\ \/ /\ wsId \in DOMAIN Config.rangePerZone
        /\ LET range == Config.rangePerZone[wsId][difficulty]
           IN  left' \in GenerateInRange(range[1], range[2])
        /\ stage' = "contenders"
        /\ UNCHANGED alive
     \/ /\ wsId \notin DOMAIN Config.rangePerZone
        /\ alive' = FALSE
        /\ UNCHANGED <<left, stage>>
  /\ UNCHANGED <<cacheVars, wsId, difficulty, actions, classes,
                 contenders, loaded, changes>>

(* getScriptContentString and its evaluation: once per class and pit,      *)
(* whatever came of it.                                                    *)
LoadContenderScript(key) ==
  \/ /\ GetNameFromKey[key] \in loaded
     /\ UNCHANGED <<cacheVars, classes, loaded>>
  \/ /\ GetNameFromKey[key] \notin loaded
     /\ FindInCache(key)
     /\ classes' = WithClassOf(key)
     /\ loaded' = loaded \cup {GetNameFromKey[key]}

(* setupContender: whether the class, as it was loaded, sets itself up.    *)
SetsUp(name, known) == known[name] # Unset

(* The contender is there before his setup is known to succeed.            *)
AddContender(rank) == contenders' = Append(contenders, rank)

(* One contender: it has to be constructed, and should set itself up; the  *)
(* pit is given up if it does not.                                         *)
GenerateContender(value) ==
  LET entries == Config.contendersPerZone[wsId]
      rank == Drawn(MakeContenderRngBoundaryMap(entries, difficulty), value)
      name == GetNameFromKey[entries[rank].key]
  IN  /\ alive
      /\ stage = "contenders"
      /\ left > 0
      /\ LoadContenderScript(entries[rank].key)
      /\ \/ /\ ~Constructs(name, classes')
            /\ alive' = FALSE
            /\ UNCHANGED <<stage, actions, left, contenders>>
         \/ /\ Constructs(name, classes')
            /\ ~SetsUp(name, classes')
            /\ AddContender(rank)
            /\ Idle("failed")
            /\ UNCHANGED alive
         \/ /\ Constructs(name, classes')
            /\ SetsUp(name, classes')
            /\ AddContender(rank)
            /\ left' = left - 1
            /\ UNCHANGED <<alive, stage, actions>>
      /\ UNCHANGED <<wsId, difficulty, changes>>

\* Slip: the last contender is left out.
StopOneEarly ==
  /\ alive
  /\ stage = "contenders"
  /\ left <= 1
  /\ Idle("built")
  /\ UNCHANGED <<cacheVars, wsId, difficulty, classes, contenders, loaded, alive,
                 changes>>

ContendersAreGenerated ==
  /\ alive
  /\ stage = "contenders"
  /\ left = 0
  /\ Idle("built")
  /\ UNCHANGED <<cacheVars, wsId, difficulty, classes, contenders, loaded, alive,
                 changes>>

-----------------------------------------------------------------------------
(* Around the server.                                                      *)

ChangeFiles ==
  /\ changes < MaxChanges
  /\ \E k \in Keys :
       \/ \E content \in Contents \cup {Absent} : ChangeSource(k, content)
       \/ \E content \in Contents : ChangeLocal(k, content)
       \/ RemoveLocal(k)
  /\ changes' = changes + 1
  /\ UNCHANGED <<stage, wsId, difficulty, actions, classes, left, contenders,
                 loaded, alive>>

TimePasses ==
  /\ Tick
  /\ UNCHANGED buildVars

Restart ==
  /\ LoseMemory
  /\ Idle("none")
  /\ classes' = CreateChaiInstance
  /\ contenders' = << >>
  /\ loaded' = {}
  /\ alive' = ValidateEncounterContext(Config)
  /\ UNCHANGED <<wsId, difficulty, changes>>

Next ==
  \/ \E user \in Users, ws \in WsIds :
       \/ RefuseFightingPit(user, ws)
       \/ \E level \in Levels :
            BuildFightingPit(user, ws, TranslateLevelFromFlatbuffer(level))
  \/ RegisterBaseAction
  \/ BaseActionsAreRegistered
  \/ LoadAndRegisterAction
  \/ StartGeneratingContenders
  \/ \E value \in GenerateInRange(0, Percent) : GenerateContender(value)
  \/ ContendersAreGenerated
  \/ ChangeFiles
  \/ TimePasses
  \/ Restart

Spec == Init /\ [][Next]_vars

-----------------------------------------------------------------------------
(* Properties.                                                             *)

EntriesOf(c, z) == c.contendersPerZone[z]

ValueDraws(c, z, d, value) ==
  \E bm \in {MakeContenderRngBoundaryMap(EntriesOf(c, z), d)} :
    Boundaries(bm, value) # {} /\ Drawn(bm, value) \in DOMAIN EntriesOf(c, z)

(* As many values draw a contender as its chance says, and one more the    *)
(* first: there is a value more than there are percents.                   *)
ChancesOf(c, z, d) ==
  \E bm \in {MakeContenderRngBoundaryMap(EntriesOf(c, z), d)} :
    \A rank \in DOMAIN EntriesOf(c, z) :
      Cardinality({value \in 0..Percent :
                     Boundaries(bm, value) # {} /\ Drawn(bm, value) = rank})
        = EntriesOf(c, z)[rank].chance[d] + (IF rank = 1 THEN 1 ELSE 0)

Accepted == {raw \in RawConfigs : ValidateEncounterContext(raw)}

AllAcceptedDraw ==
  \A c \in Accepted : \A z \in Zones(c), d \in Difficulties, value \in 0..Percent :
    ValueDraws(c, z, d, value)

AllAcceptedKeepChances ==
  \A c \in Accepted : \A z \in Zones(c), d \in Difficulties :
    (\A e \in Range(EntriesOf(c, z)) : e.chance[d] > 0) => ChancesOf(c, z, d)

(* Whatever value is drawn, a zone of a configuration the server starts on *)
(* has a contender for it: generateContenders relies on the draw finding   *)
(* one.                                                                    *)
EveryValueDrawsAContender == alive => AllAcceptedDraw

(* The chances of a zone are those configured, as long as none is zero: an *)
(* entry without a chance goes right behind the one before and is drawn.   *)
ChancesAreKept == alive => AllAcceptedKeepChances

(* A pit that was built has as many contenders as its zone allows, all of  *)
(* a class the interpreter knows and that could set them up, whatever      *)
(* happened to the scripts in the meantime.                                *)
PitHasItsContenders ==
  stage = "built" =>
    \E range \in {Config.rangePerZone[wsId][difficulty]} :
      /\ Len(contenders) \in range[1]..range[2]
      /\ \A rank \in Range(contenders) :
           \E name \in {GetNameFromKey[EntriesOf(Config, wsId)[rank].key]} :
             Constructs(name, classes) /\ SetsUp(name, classes)

(* The scripts the contenders of the zones need beside the base actions    *)
(* and their own.                                                          *)
NeededOfTheTeam(z) ==
  UNION {Uses[GetNameFromKey[e.key]] \
           ({GetNameFromKey[e.key]} \cup {GetNameFromKey[k] : k \in Range(BaseActions)}) :
           e \in Range(EntriesOf(Config, z))}

(* As long as nobody touches the scripts, building a pit only ends the     *)
(* server in a zone without a range, or whose contenders rely on actions   *)
(* no member of the team has.                                              *)
OnlyBadConfigurationsEndTheServer ==
  ~alive /\ changes = 0 =>
    \/ ~ValidateEncounterContext(Config)
    \/ wsId \notin DOMAIN Config.rangePerZone
    \/ ~(NeededOfTheTeam(wsId) \subseteq {GetNameFromKey[k] : k \in Range(TeamActions)})

(* The scripts the contenders require are there, as long as nobody touches *)
(* them: building a pit does not end the server in a zone with a range.    *)
RequiredScriptsAreLoaded ==
  ~alive /\ changes = 0 => wsId \notin DOMAIN Config.rangePerZone
=============================================================================
