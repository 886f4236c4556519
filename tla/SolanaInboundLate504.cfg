CONSTANTS
  q1 = q1
  q2 = q2
  q3 = q3
  cheap = cheap
  dear = dear
  NoRow = NoRow
  Requests <- MCRequests
  Challenges <- MCChallenges
  Amounts = {1, 2}
  Quote <- MCQuote
  Need <- MCNeed
SPECIFICATION InboundSpec
SYMMETRY CheapAlike
INVARIANTS
  SpentMeansServed
CHECK_DEADLOCK FALSE
