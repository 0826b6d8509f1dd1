SPECIFICATION MCSpec
CONSTANTS
  owner = owner
  friend = friend
  phone = phone
  Clients = {owner, friend, phone}
  Owners = {owner}
  ReadOnly = {phone}
  NoClient = NoClient
  Keys = {k1, k2}
  NoReceipt = NoReceipt
  PublisherRuns = TRUE
  MaxRevision = 2
  MaxRequests = 2
  MaxStreams = 1
  MaxRestarts = 1
INVARIANTS
  LeaseIsSound
  AppliedOnce
PROPERTIES
  ControlIsFenced
  AloneGraceEnds
