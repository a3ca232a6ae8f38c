\* Two posting threads and the loop's own posts, three callbacks, two objects.
CONSTANTS
    Posters = {p1, p2}
    Loop = loop_thread
    Callbacks = {c1, c2, c3}
    Objects = {o1, o2}
    Scbs = {"post", "delete", "destroy"}
SPECIFICATION Spec
INVARIANTS
    TypeOK
    NoLostWakeup
    DeferredIsScheduled
PROPERTIES
    PostIsMailbox
    DeferredIsMailbox
CHECK_DEADLOCK FALSE
