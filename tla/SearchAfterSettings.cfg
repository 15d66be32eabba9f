CONSTANTS
  c1 = c1
  k1 = k1
  k2 = k2
  p1 = p1
  p2 = p2
  e1 = e1
  e2 = e2
  None = None
  MaxTime = 3
  Contacts <- MCContacts
  Keys <- MCKeys
  Packages <- MCPackages
  Foreign <- MCForeign
  Days = 2
  Codings <- MCCodings
  Unsafe <- MCUnsafe
  Validity = 2
  MaxFrames = 3
  x = x
  y = y
  v1 = v1
  v2 = v2
  blank = blank
  pw = pw
  Nothing = Nothing
  Identities <- MCIdentities
  Contents <- MCContents
  Files <- MCFiles
  Secrets <- MCSecrets
  EntryIds <- MCEntryIds
  MaxTries = 3
  Chosen <- MCChosen
  Stored <- MCIdentities
  Nowhere = Nothing
  i1 = i1
  i2 = i2
  i3 = i3
  work = work
  home = home
  some = some
  AllEvents = AllEvents
  Blank = Blank
  All = All
  EventTypes <- MCEventTypes
  Exported = "change"
  MaxLog = 3
  PerPage = 2
  Items <- MCItems
  CategoryOf <- MCCategoryOf
  Finds <- MCFinds
  PageSize = 1
  MaxTimers = 2
SPECIFICATION Spec
INVARIANTS SearchFinds
