\* Two workers, two updates; registrations at any moment of the start-up.
CONSTANTS
    Workers = {w1, w2}
    Main = main_thread
    Updates = {u1, u2}
SPECIFICATION FairSpec
INVARIANTS
    CompletionAfterAll
    SlotsAgree
PROPERTIES
    ThreadsMakeProgress
CHECK_DEADLOCK FALSE
