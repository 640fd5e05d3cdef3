SPECIFICATION Spec
CONSTANTS
  phone = phone
  b1 = b1
  b2 = b2
  h1 = h1
  h2 = h2
  Devices <- MCDevices
  Batches <- MCBatches
  Commands <- TwoCommands
  Payloads <- MCPayloads
  SequenceOf <- MCSequenceOf
  BatchSize = 2
SYMMETRY Symmetric
INVARIANTS TypeOK AppliedOnce AnswersMatchLedger
PROPERTIES BlockIsFinal
