CONSTANTS
  Keys = {k1, k2, k3}
  Conns = {1, 2, 3}
  NoConn = 0
  MaxSize = 2
  EvictCount = 1
  Bufs = {b1, b2}
  NoBuf = NoBuf
  MaxAge = 0
  MaxTime = 1
  MaxDatagrams = 3
  Hosts = {h1}
  Answers <- DnsAnswers
  LookupErr = LookupErr
  NoEntry = NoEntry
  TTL = 1
  Literal = Literal
  Targets = {Literal}
  NoResult = NoResult
  Failed = Failed
SPECIFICATION Spec
SYMMETRY KeySymmetry
CHECK_DEADLOCK FALSE
INVARIANT InOrderDelivery
