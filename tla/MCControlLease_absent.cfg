SPECIFICATION MCSpec
CONSTANTS
  owner = owner
  friend = friend
  phone = phone
  Clients = {owner, friend}
  Owners = {owner}
  ReadOnly = {}
  NoClient = NoClient
  Keys = {k1}
  NoReceipt = NoReceipt
  PublisherRuns = FALSE
  MaxRevision = 2
  MaxRequests = 2
  MaxStreams = 2
  MaxRestarts = 1
PROPERTIES
  LostControllerReleased
