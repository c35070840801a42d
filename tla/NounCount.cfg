\* Three boxes, with up to three references to each, and two forgotten.
SPECIFICATION Spec
CONSTANTS
    Box = {b1, b2, b3}
    Cat = cat
    MaxRef = 3
    MaxForget = 2
    Sticky = 4
INVARIANTS NoDangling NoGarbage CountExact SavedIsLive
SYMMETRY BoxSymmetry
