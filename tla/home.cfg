SPECIFICATION LiveSpec
CONSTANTS
  None = None
  LegalKeys = {"t", "n", "d", "b"}
  MaxItems = 2
  Blanks = {"", " "}
  CalendarDates = {"2028-02-29"}
  Trimmed <- MCTrimmed
  NumberOf <- MCNumberOf
  Candidates <- MCCandidates
  Bodies <- MCBodies
  Clears <- MCClears
  Home = t1
  Tenants = {t1, t2}
  Offers <- MCOffers
  Colleagues <- MCColleagues
  Ids = {1, 2, 3}
  OwnIds = {1, 2}
  Times = {1, 2}
  Inputs <- MCInputs
  DefaultLimit = 1
  MaxLimit = 2
  Addresses <- MCAddresses
  MaxVisits = 1
  MaxVersions = 2
CHECK_DEADLOCK FALSE
INVARIANTS
  ResolvesToOverlay
  UntouchedEditKeepsValues
  UnchangedIsReordered
  PagesWalkOnce
  PageIsOfAddress
  SavedIsStored
PROPERTY HomeSettles
