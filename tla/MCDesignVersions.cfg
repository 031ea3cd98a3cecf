\* Three submissions that overlap, fail and come late.
SPECIFICATION Spec
CONSTANTS
    Author = author
    Lead = lead
    Designers = {d1}
    NoOne = NoOne
    Submissions = {r1, r2, r3}
SYMMETRY MCSymmetry
INVARIANTS
    OnePending
    ReviewHasFiles
PROPERTIES
    ReviewedOnce
CHECK_DEADLOCK FALSE
