\* The push and pull_request deliveries of one push.
SPECIFICATION Spec
CONSTANTS
  push = push
  pr = pr
  ping = ping
  sha1 = sha1
  none = none
  Shas = {sha1}
  NoSha = none
  DeliverySha <- MCDeliverySha
  PreserveWorkdir = FALSE
  Deliveries = {push, pr}
  Handlers = {h1, h2}
  Workers = {}
  MaxAttempts = 3
  MaxRuns = 2
INVARIANTS
  OneRecentRunPerSha
