\* One job, as many invocations as it can be leased, plus one.
SPECIFICATION FairSpec
CONSTANTS
  push = push
  pr = pr
  ping = ping
  sha1 = sha1
  none = none
  Shas = {sha1}
  NoSha = none
  DeliverySha <- MCDeliverySha
  PreserveWorkdir = FALSE
  Deliveries = {}
  Handlers = {h1}
  Workers = {w1, w2, w3}
  MaxAttempts = 2
  MaxRuns = 1
PROPERTIES
  JobsEnd
