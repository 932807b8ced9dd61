\* A clone that fails.
SPECIFICATION Spec
CONSTANTS
  push = push
  pr = pr
  ping = ping
  sha1 = sha1
  none = none
  Shas = {sha1}
  NoSha = none
  DeliverySha <- MCDeliverySha
  PreserveWorkdir = FALSE
  Deliveries = {push}
  Handlers = {h1}
  Workers = {w1}
  MaxAttempts = 3
  MaxRuns = 1
INVARIANTS
  DeadMeansRunFailed
