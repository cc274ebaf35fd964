CONSTANTS
  account = account
  ledger = ledger
  inventory = inventory
  Sections = {account, ledger, inventory}
  MayBeMissing = {account}
  Routed = {account, ledger}
SPECIFICATION FairSpec
INVARIANT PageInv
INVARIANT NeverSendsOnClosed
INVARIANT PageIsComplete
INVARIANT PartialIsTruthful
PROPERTY PageIsAnswered
