SPECIFICATION DataDirSpec
CONSTANTS
  Hosts = {"h1", "h2"}
  Stems = {"a", "b", "c"}
  Outside = {}
  Files <- MCFiles
  Sidecars <- MCSidecars
  Bundles <- MCBundles
  Runners = {"node", "uvx"}
  Commands = {"git"}
  NoFile = NoFile
  Broken = Broken
  NoModel = NoModel
  Settings <- MCSettings
  SkillsDir = "work"
  DefaultDir = "home"
  DefaultDb = "home.db"
  ProjectFiles <- MCProjects
  ProviderConfigs <- MCProviders
  Messages <- MCMessages
  ServerTools <- MCServerTools
  InLowerCase <- MCInLowerCase
  NoValue = NoValue
  MaxDeaths = 1
  Topologies <- MCTopologies
  NoGroup = NoGroup
  NoAgent = NoAgent
  Valid <- MCValid
  MaxRestarts = 2
INVARIANTS
  PhasesRunInTurn
  RequestIsGranted
PROPERTIES
  CompletedStays
  SkillFilesSurvive
CHECK_DEADLOCK FALSE
