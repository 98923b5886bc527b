CONSTANTS
    q1 = q1
    q2 = q2
    Slot = {q1, q2}
    Plain = {"updateCurrentUser", "exportServer"}
    MaxGen = 3
    MaxRows = 1
    Faulty = TRUE
SPECIFICATION SSpec
PROPERTIES NeverDropsLive
CHECK_DEADLOCK FALSE
