CONSTANTS
  Ann = Ann
  Bea = Bea
  Carl = Carl
  Dora = Dora
  Club = Club
  Choir = Choir
  First = First
  Second = Second
  None = None
  Databases = {First, Second}
  GroupIds = {Club, Choir}
  OptionNames = {"sound"}
  DefaultOption = 1
  Stored <- MCStored
  OwnerOf <- MCOwnerOf
  KeyOf <- MCKeyOf
  Names <- MCNames
  LegacyContacts <- MCLegacyContacts
  LegacyGroups <- MCLegacyGroups
  Today = 10
  CheckAge = 1
  ServerAge = 7
  LatestLevel = 2
  Clicks = 2
  Messages = 1
  Openings = 2
SPECIFICATION Spec
INVARIANT SettledWindowShowsTheDatabase
PROPERTY OpeningEnds
CHECK_DEADLOCK FALSE
