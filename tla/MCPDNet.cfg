SPECIFICATION RunSpec
CONSTANTS
  KindOf <- MCKind
  KidsOf <- MCKids
  CallsOf <- MCCalls
  ArgOf <- MCArg
  StepOf <- MCStep
  Body <- MCBody
  Mains = {"nest", "breaks", "calls", "asserts", "waits", "forloop", "locks", "signals", "pool", "continues", "condcalls"}
  MainTid = "t0"
  Tids = {"t0", "t1", "t2"}
  Initialised = {"n", "o"}
  DefaultMains = {"nest", "breaks", "calls", "asserts", "waits", "forloop", "locks", "signals", "pool"}
INVARIANTS OneTokenPerThread MutexTokens OnlyCSteps EveryCStep
CHECK_DEADLOCK FALSE
