SPECIFICATION FormSpec
CONSTANTS
    Guests = {"ann"}
    Venues = {"station"}
    MaxDrafts = 1
    MaxDraftEdits = 1
PROPERTY AttendeesKept
CHECK_DEADLOCK FALSE
