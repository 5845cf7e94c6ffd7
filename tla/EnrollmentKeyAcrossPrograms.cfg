SPECIFICATION Spec
CONSTANTS
  stamps = stamps
  sale = sale
  gone = gone
  d1 = d1
  ana = ana
  bea = bea
  k1 = k1
  k2 = k2
  k3 = k3
  Invocation = {i1, i2}
  Key = {k1, k2, k3}
  Program = {stamps, sale, gone}
  Device = {d1}
  NoDevice = NoDevice
  Blank = Blank
  Person = {ana, bea}
  Request <- CrossProgramRequests
  Programs <- MCPrograms
  MaxDay = 3
  Switchable = {sale}
  Faults = {}
CHECK_DEADLOCK FALSE
INVARIANT
  AnswerMatchesRequest
