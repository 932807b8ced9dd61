\* Intake alone: three requests in flight, four runs.
SPECIFICATION Spec
CONSTANTS
  push = push
  pr = pr
  ping = ping
  sha1 = sha1
  none = none
  Shas = {sha1, sha2}
  NoSha = none
  DeliverySha <- MCDeliverySha
  PreserveWorkdir = FALSE
  Deliveries = {push, pr, ping}
  Handlers = {h1, h2, h3}
  Workers = {}
  MaxAttempts = 3
  MaxRuns = 4
SYMMETRY Symmetry
INVARIANTS
  OneJobPerRun
  DuplicatesBounded
PROPERTIES
  WorkLostOnlyInFailure
