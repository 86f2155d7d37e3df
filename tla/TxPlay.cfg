CONSTANTS
  edit = edit  make = make  free = free
  column = column  two = two  call = call
  Nodes = {"n1", "n2"}
  Honor = {"n1"}
  Txs <- Tests
  Payer <- MCPayer
  Code <- MCCode
  Size <- MCSize
  Free <- MCFree
  Heavy <- MCHeavy
  Tokens <- MCTokens
  Wallet = "w"
  Accounts <- People
  Amount = 10
  Storage <- MCStorage
  Price <- MCPrice
  Estimate <- MCEstimate
  TaxesSize = 50
  MaxTxFuel = 6
  MaxBlockFuel = 8
  MaxBlocks = 2
  MaxTxs = 2
  MaxFaults = 1
SPECIFICATION Spec
INVARIANTS TypeOK MemoryTrue AgreesWithChain MoneyStays
PROPERTIES FailedOnlyPays ReplayAccepts JamsOnlyIf
CHECK_DEADLOCK FALSE
