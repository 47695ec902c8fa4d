CONSTANTS
  d1 = d1
  d2 = d2
  d3 = d3
  x1 = x1
  x2 = x2
  x3 = x3
  x4 = x4
  o1 = o1
  o2 = o2
  Delivery = {d1, d2, d3}
  Transfer = {x1, x2, x3, x4}
  Announced <- MCAnnounced
  Amount <- MCAmount
  Incoming = {x1, x2, x3}
  Tracked = {x1, x2, x3, x4}
  Order = {o1, o2}
  Mentions <- MCMentions
  Total <- MCTotal
  Deposit <- MCDeposit
  NoOrder = NoOrder
  NoTransfer = NoTransfer
  NoDesk = NoDesk
  Attempts = 2
  MaxEvents = 2
  MaxPaid = 3
SPECIFICATION Spec
INVARIANT OneRowPerTransfer
CHECK_DEADLOCK FALSE
