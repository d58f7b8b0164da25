\* Two slots and five entries: main meets a full channel, an empty one and a
\* channel closed with entries still queued.
CONSTANTS
    main = main
    dispatcher = dispatcher
    Main = main
    Dispatcher = dispatcher
    Senders <- OneSender
    Receivers <- OneReceiver
    Capacity = 2
    MaxSends = 5
SPECIFICATION LogSpec
INVARIANTS
    NothingLostOnTheWay
    CleanExit
    InFlightBounded
PROPERTIES
    EveryEntryIsWritten
    Terminates
\* The process ends.
CHECK_DEADLOCK FALSE
