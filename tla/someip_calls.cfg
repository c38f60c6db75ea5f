SPECIFICATION SomeIpSpec
CONSTANTS
  g1 = g1
  g2 = g2
  m1 = m1
  m2 = m2
  Udps = {"sd", "ep"}
  Group = "group"
  Nobody = "nobody"
  Plain <- MCPlain
  NoDatagram <- MCNoDatagram
  QueueSize = 2
  MaxOps = 3
  Sd = "sd"
  Ep = "ep"
  Offers <- MCOffers
  Services = {"s1", "s2"}
  Groups = {g1, g2}
  Methods = {m1, m2}
  Codes = {"E_OK"}
  Retries = {2}
  MaxCalls = 2
  MaxUnasked = 1
INVARIANTS
  SocketsInv
  FindTellsTheOffers
  SubscriptionIsAnswered
  InvokeIsOwn
SYMMETRY MCSymmetry
