\* One profile of two fields, two requests at a time: patches that race
\* with a first login made twice.
SPECIFICATION Spec
CONSTANTS
    Profile = {k1}
    Field = {name, bio}
    Value = {v1, v2}
    Blank = Blank
    Proc = {p1, p2}
    MaxCrashes = 1
SYMMETRY Interchangeable
INVARIANTS PatchesKept CreatedIsAnnounced TwiceOnlyTogether
