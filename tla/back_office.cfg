CONSTANTS
  Parts = {"book", "spx", "places", "photos", "store", "notices", "shop", "day", "guards",
           "parcels", "browser", "rollout"}
  Clerks = {c1, c2}
  MaxTime = 3
  MaxFaults = 1
  Orders = {o1, o2}
  Values = {1, 2}
  MaxUses = 1
  MaxRequests = 2
  Addresses = {a1, a2, none}
  Blank = none
  Calls = {k1, k2}
  MaxEdits = 2
  Tables <- MCTables
  BareName <- MCBareName
  Letters <- MCLetters
  Hints <- MCHints
  Texts <- MCTexts
  Said <- MCSaid
  NoPlace = ""
  Root = "top"
  Jobs = {j1, j2}
  JobTTL = 1
  JobTime = 2
  Hashes = {h1}
  MaxReceipts = 3
  Transfers = {t1, t2}
  Untold = {t2}
  MaxReports = 3
  MaxShows = 1
  Employees = {e1}
  ShiftCodes = {ca1, ca2}
  MaxCalls = 3
  Shifts <- MCShifts
  Grace = 1
  MaxSamples = 1
  MaxChecks = 2
  MaxAdjustments = 2
  CacheTTL <- MCCacheTTL
  Requests = {r1, r2}
  MaxSaves = 2
  MaxNumber = 2
  Refreshes = {f1, f2}
  MaxFiles = 3
  Tabs = {b1, b2}
  MaxTokens = 3
  MaxIncidents = 2
  outgoing = outgoing
  incoming = incoming
  restarted = restarted
  Pods = {outgoing, incoming, restarted}
  Image <- MCImage
  FilesOf <- MCFilesOf
  LastFunction = 2
  MaxBoots = 5
SYMMETRY MCSymmetry
SPECIFICATION Spec
INVARIANTS TypeOK  CountTold StaleIsMarked OnePlace SupplierCounted BillsBounded  PaidQrGone RosterTold FilledToItsLength StaleIsBounded DeliveredIsItsOwn StaysSignedOn ServesItsSchema
PROPERTIES HandPickKept
CHECK_DEADLOCK FALSE
