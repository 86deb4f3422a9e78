SPECIFICATION FairSpec
CONSTANTS
  c1 = c1
  c2 = c2
  Clients <- MCClients
  Endpoints <- MCEndpoints
  Hashes = {1, 2}
  Nil = Nil
  MaxTime = 1
  MaxWrites = 3
  MaxFaults = 1
INVARIANTS
  OneAnswerPerHash
  AnswersAreOfTheRequest
  SummariesCoverPrimary
  AnswersSplitFields
  IInv
PROPERTIES
  RequestIsAnswered
