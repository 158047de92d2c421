CONSTANTS
  p1 = p1
  p2 = p2
  p3 = p3
  ours = ours
  theirs = theirs
  Tabs = {t1, t2}
  Pads = {p1, p2, p3}
  Generated = {p1, p2}
  Legacy = {}
  None = None
  Torn = Torn
  Requests = {ours, theirs}
  OwnRequests = {ours}
  Nonces = {1, 2}
  Parcels <- MCParcels
  Forged <- MCForged
  Transfers = {transfer1, transfer2}
  MaxEvents = 1
SPECIFICATION MCSpec
PROPERTY AbandonedStaysPending
CHECK_DEADLOCK FALSE
