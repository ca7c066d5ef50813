SPECIFICATION WebClientSpec
VIEW Seen
CONSTANTS
    MaxRequests = 2
    MaxFaults = 1
    Calendars <- MCCalendars
    NoTasks <- MCNoTasks
    MaxClicks = 3
    OldCalendars <- MCOldCalendars
    NewCalendars <- MCNewCalendars
    MaxDialogs = 4
    SharedCalendars <- MCCalendars
    People <- MCPeople
    MaxShareClicks = 3
    Typings <- MCTypings
    Persons <- MCPersons
    Places <- MCPlaces
    MaxStrokes = 3
    Holders <- MCHolders
    MaxAttachClicks = 3
    Guests <- MCPersons
    Venues <- MCVenues
    MaxDrafts = 2
    MaxDraftEdits = 2
    Tasks <- MCTasks
    FirstTree <- MCFirstTree
    MovedByOthers <- MCMovedByOthers
    CreatedByOthers <- MCCreatedByOthers
    MaxTaskClicks = 3
    Entries <- MCEntries
    MaxJournalClicks = 4
    Rows <- MCRows
    MaxSwitchClicks = 3
    Books <- MCBooks
    MaxBookClicks = 3
    MaxSecurityClicks = 3
    Providers <- MCProviders
    Kind <- MCKind
    MaxProviderClicks = 4
    Channels <- MCChannels
    MaxAccountClicks = 4
INVARIANTS
    ViewFollowsSelection
    ReloadRestores
    MenuMatchesText
    PlaceMatchesText
    NoDuplicateAttendees
    AttachmentsOfHolder
    RowsTrue
    ContactsOfBook
    RecoveryCodesShown
    FieldsOfProvider
    UserPrefsTrue
PROPERTIES
    FailedImportsUndone
    OtherFieldsKept
    AccessChangedAsAsked
    LinkShownOnce
    ErasedFromHolder
    EveryTaskDrawn
    OffersAcyclic
    TaskAddedOnce
    NotedOnce
    JournalTextKept
    SavedButForLosses
CHECK_DEADLOCK FALSE
