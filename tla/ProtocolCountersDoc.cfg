SPECIFICATION Spec
CONSTANTS
  Protocols = {p1, p2, p3}
  NoProtocol = NoProtocol
  MaxProtocols = 2
  NumEpochs = 2
  MaxEpoch = 5
  Amounts = {1, 2}
  Caps = {0, 2}
  MaxPerEpoch = 2
INVARIANT ElapsedWindowFreesCounter
CHECK_DEADLOCK FALSE
