SPECIFICATION Spec
CONSTANTS
  old = old
  new = new
  first = first
  second = second
  analysis = analysis
  Procs <- MCProcs
  Ticks <- MCTicks
  Jobs <- MCJobs
  MaxTime = 4
  MaxRows = 3
  Period <- MCPeriod
SYMMETRY Symmetry
INVARIANTS
  TypeOK
  GapsAreSilent
  SilenceAccounted
