SPECIFICATION Spec
CONSTANTS
    Bodies <- MCBodies
    ZipBodies <- MCZipBodies
INVARIANTS
    FramingAgrees
    BodyDelivered
\* A message ends.
CHECK_DEADLOCK FALSE
