SPECIFICATION Spec
CONSTANTS
  Nothing = Nothing
  SupportedCodes = {1, 2}
  Preroll = 2
  MaxVadFrames = 8
  Offers <- MCOffers
  Descriptors <- MCDescriptors
  MaxUpdates = 1
  Tokens = {1, 2, 3}
INVARIANTS OneOwner LiveFollowsProfile ReceiverFollowsConfig
PROPERTIES FailedCallChangesNothing
