SPECIFICATION Spec
CONSTANTS
  Keys <- ScriptKeys
  Contents = {Good, Broken, Unset}
  Absent = Absent
  EpochGap = 0
  MaxNow = 1
  Difficulties <- TwoDifficulties
  Levels <- ThreeLevels
  Percent = 4
  Config <- ZonesOfOneArena
  RawConfigs <- ManyConfigs
  WsIds <- AllZones
  Users = {ann, NoName}
  NoName = NoName
  BaseActions <- OneBaseAction
  TeamActions <- SlashOfTheTeam
  GetNameFromKey <- Names
  Uses <- UsesOfScripts
  Broken = Broken
  Unset = Unset
  MaxChanges = 2
INVARIANTS
  StaleOnlyWithinATick
  EveryValueDrawsAContender
  ChancesAreKept
  PitHasItsContenders
  OnlyBadConfigurationsEndTheServer
