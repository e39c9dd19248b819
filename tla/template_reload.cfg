SPECIFICATION SlackFairSpec
CONSTANTS
  Mtime = {1, 2}
  MaxVersions = 2
  MaxAttachments = 3
  MaxSHA = 1
  MaxDetail = 2
  MaxItems = 4
  Configs <- Environments
  Sessions <- AllSessions
INVARIANTS EveryAppAccounted ShownAsReported WireFaithful SentWhateverTheFile
PROPERTIES KeepsGoodTemplate PicksUpTemplate
CHECK_DEADLOCK FALSE
