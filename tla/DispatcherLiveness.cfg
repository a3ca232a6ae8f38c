\* Delivery under fairness: two posting threads and the loop's own posts.
CONSTANTS
    Posters = {p1, p2}
    Loop = loop_thread
    Callbacks = {c1, c2}
    Objects = {o1}
    Scbs = {"post", "delete", "destroy"}
SPECIFICATION FairSpec
PROPERTIES
    EverythingDelivered
CHECK_DEADLOCK FALSE
