\* Two tabs, two texts typed into each field, one form submitted.
SPECIFICATION Spec
CONSTANTS
    summary = summary
    conclusion = conclusion
    name = name
    Fields <- MCFields
    Forms <- MCForms
    Tabs = {t1, t2}
    MaxVersion = 2
    Long <- MCLong
    MaxSubmits = 1
    Unread = Unread
    Nobody = Nobody
INVARIANTS
    TypeOK
    SettledTextStored
PROPERTY
    TypedIsStoredOrTold
CHECK_DEADLOCK FALSE
