CONSTANTS
  pull = pull
  other = other
  Operations = {pull, other}
  Routed = {"gacha", "assets", "backpack"}
SPECIFICATION FairSpec
INVARIANT ReplayInv
INVARIANT EvidenceBelongsToOperation
INVARIANT ReplayIsTruthful
PROPERTY ReplayIsAnswered
