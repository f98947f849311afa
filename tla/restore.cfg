SPECIFICATION Spec
CONSTANTS
    None = None
    here = here
    there = there
    Folders <- MCFolders
    OldFolders <- MCOldFolders
    Backups <- MCBackups
    Content <- MCContent
    Self <- Us
    Passwords <- MCPasswords
    LegacySteps <- MCLegacySteps
    MaxMishaps = 1
    Tables <- MCTables
    MaxJobs = 2
INVARIANTS
    OfferedDatabasesAreComplete
    OpenedDatabasesAreWhole
PROPERTIES
    ImportsAreReported
