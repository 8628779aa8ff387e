SPECIFICATION Spec
CONSTANTS
  Intervals = {1, 2, 3}
  FrameTimes = {1, 2, 5}
  MaxTimers = 3
  MaxTime = 5
  NaN = NaN
  MaxBusMessages = 6
  Hangs = {5}
  Texts = {"", "a", "b"}
  EmptyText = ""
  NoText = NoText
  MaterialEntities = {"e1"}
  TextureFields = {"bumpTexture"}
  TexturePaths = {"a"}
  MaxObjects = 2
  ComponentNames = {"Transform", "a", "b"}
  ComponentKinds = {"lww", "valueSet"}
  MaxDefinitions = 3
  ComponentNumber <- ThreeNames
  TweenEntities = {"e1"}
  TweenNumbers = {1, 2}
  TweenSequences <- SmallSequences
  MaxTweenCalls = 5
  AreaEntities = {"e1"}
  Triggerers = {"p1", "p2"}
  SceneOwned = {"p1"}
  MaxAreaEvents = 4
  ForceSources = {"s1", "s2"}
  Vectors = {0, 1}
  Repulsions <- SmallRepulsions
  Positions <- SmallPositions
  Durations = {1, 2}
  MaxPhysicsCalls = 3
  Players = {"p1", "p2", "p3"}
  EventNames = {"playerClicked", "onEnterScene", "onLeaveScene", "profileChanged", "sceneStart"}
  UiSystemOrder <- TwoUiSystems
  Canvases = {1}
  RaycastEntities = {"e1", "e2"}
  ImmediateEntities = {"e2"}
  MaxRaycasts = 2
  MediaEntities = {"e1"}
  MediaKinds = {"asset", "audio", "video"}
  MediaStates = {1, 2}
  MaxRow = 3
  Observers = {1, 2, 3}
  Masks = {{1}, {1, 2}}
  OnceObservers = {2}
  ListSystems = {"a", "b", "c", "tasks"}
  Priority <- OneFirst
  TaskSystem = "tasks"
  Tasks = {"t"}
  MaxListCalls = 5
  PointerEntities = {"e1"}
  Buttons = {1, 2}
  IA_ANY = 0
  PointerStates = {"down", "up"}
  Registrations = {"onClick", "onPointerUp"}
  PointerOptions <- TwoOptions
  MaxPointerCalls = 2
  MaxCommands = 3
INVARIANTS
  TypesOK
  
  NothingIsLost
  
  CompletionIsOfThisTween
  WritesAreSent
  CanvasMatchesTree
  
  
  
  RowsAreNewestOfLogs
CHECK_DEADLOCK FALSE
