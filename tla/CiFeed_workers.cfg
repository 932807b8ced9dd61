\* Two overlapping worker invocations over two jobs.
SPECIFICATION Spec
CONSTANTS
  push = push
  pr = pr
  ping = ping
  sha1 = sha1
  none = none
  Shas = {sha1}
  NoSha = none
  DeliverySha <- MCDeliverySha
  PreserveWorkdir = FALSE
  Deliveries = {}
  Handlers = {h1}
  Workers = {w1, w2}
  MaxAttempts = 2
  MaxRuns = 2
SYMMETRY Symmetry
INVARIANTS
  TypeOK
  LockExclusive
  AttemptsBounded
  QueuedIffReady
  DoneOnceMeansSettled
  TreeLostOnlyToRelease
PROPERTIES
  EndedStaysEnded
  ImplementsLifecycle
