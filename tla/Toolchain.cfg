SPECIFICATION Spec
CONSTANTS
  Entities = {1, 2}
  Paths = {"p"}
  Priorities <- OfBothSigns
  Shapes = {"functions", "class", "updateAlone", "none", "throws"}
  MaxScripts = 2
  Numbers = {1, 2}
  MaxSaves = 2
  Parcels = {1, 2}
  Mine = {1}
  MaxRequests = 2
  Clients = {"bevy", "unity"}
  Legacy = {"bevy"}
  Scenes <- OneScene
  MaxChanges = 2
  Helpers = {"src/lib.ts"}
  Ui = {}
  Assets <- TwoModels
  Missing <- OneMissing
  RunsOnMigrated = FALSE
  Items = {1, 2}
  Commands = {"create", "create-from-json", "list", "activate", "deactivate", "manager"}
  MaxPosts = 2
  Folders = 1
  Grid <- SixParcels
  World <- AllButOne
  MaxParcels = 3
  Projects <- TwoProjects
  Lower <- InLowerCase
  DefaultIgnored = {"x.ts"}
  UserIgnored = {"A"}
  UnderOutput = {"o"}
  Contents = {"1", "2"}
  MaxEdits = 1
  MaxRuns = 2
INVARIANTS
  TypesOK
  
  
  
  
  
  WalkFindsConnection

  
  
CHECK_DEADLOCK FALSE
