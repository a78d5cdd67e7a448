SPECIFICATION Spec
CONSTANTS
  Values = {a, b, c}
  SIZE_QUEUE = 3
  WordSize = 16
  MaxTail = 8
  Nothing = Nothing
  Accepted = Accepted
  Refused = Refused
PROPERTY ImplementsFifo
