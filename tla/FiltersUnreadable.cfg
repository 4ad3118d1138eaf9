\* One slot and the room's own filter, one request, and a rollback that leaves
\* behind a row nobody can parse.
CONSTANTS
    Slots = {s1}
    Rules = {a, b}
    Room = Room
    Handlers = {h1}
    MaxEdits = 1
    MaxFaults = 1
SPECIFICATION Spec
SYMMETRY Interchangeable
PROPERTIES
    RulesStand
