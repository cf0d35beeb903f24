\* A unit of 10 s: useNow reads the clock every unit and answers are late after two, as
\* in the code; it polls once in a unit, where the code does twice, and the 300 s after
\* which reports are old are scaled down to 3 units.
CONSTANTS
    port = port sea = sea seaRounded = seaRounded far = far
    aalesund = aalesund none = none missing = missing Never = Never
    Places <- MCPlaces
    Linkable <- MCLinkable
    Rounded <- MCRounded
    Centres <- MCCentres
    Ranges = {60}
    DefaultCentre <- MCDefaultCentre
    DefaultRange = 60
    NoName = none
    Missing = missing
    Busy = {port}
    NowEvery = 1
    StalledAfter = 2
    StaleAfter = 3
    MaxAbandoned = 1
SPECIFICATION FairSpec
INVARIANTS
    LiveIsTrue
PROPERTIES
    ImplementsLatestAnswer
    ReloadRestoresTheView
    Recovers
