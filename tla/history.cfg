CONSTANTS
    file = file
    image = image
    text = text
    Messages = {file, image, text}
    Kind <- MCKind
    Ours = {file, text}
    SortBy <- MCSortBy
    CreatedAt <- MCCreatedAt
    Earlier = {file}
    PageSize = 2
    More = 1
    Ages <- MCAges
    Dates <- MCDates
    Counts = {1}
    Now <- MCNow
    MaxClicks = 3
    MaxRestarts = 1

SPECIFICATION Spec

INVARIANTS
    MediaLiveWithTheirMessage
    ItemsAreInOrder
    SettledTabIsRight

CHECK_DEADLOCK FALSE
