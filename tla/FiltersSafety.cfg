\* One slot and the room's own filter, two requests at a time.
CONSTANTS
    Slots = {s1}
    Rules = {a, b}
    Room = Room
    Handlers = {h1, h2}
    MaxEdits = 3
    MaxFaults = 1
SPECIFICATION Spec
SYMMETRY Interchangeable
INVARIANTS
    FilterInForce
PROPERTIES
    OthersRulesSurvive
