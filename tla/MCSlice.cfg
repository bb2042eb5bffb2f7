SPECIFICATION ChangeSpec
CONSTANTS
  KindOf <- MCKind
  KidsOf <- MCKids
  CallsOf <- MCCalls
  ArgOf <- MCArg
  StepOf <- MCStep
  Body <- MCBody
  Mains = {"edited", "inner", "loop", "branch", "enters", "returns", "threads", "signals", "breaks", "spins"}
  MainTid = "main"
  Tids = {"main", "t1"}
  Initialised = {"m", "n"}
  Reads <- MCReads
  Writes <- MCWrites
  Endless <- MCEndless
  GlobalVars = {"x1", "x2", "x3", "x4", "x5", "x6", "x7", "x8", "x9", "s", "z"}
  Observed <- MCObserved
  Changed <- MCChanged
  Text <- MCSays
  Newer <- MCNewer
INVARIANTS
  SliceFollows
  DefinitionsKept
  ImpactFollows
  TreePatched
  NetPatched
CHECK_DEADLOCK FALSE
