\* Thirty-one words, for cells and a larger slab.
SPECIFICATION Spec
CONSTANTS
    Top = 31
    Lens = {3, 15}
    Sticky = 3
    MaxHeld = 3
INVARIANTS Tiled TagsAgree FreeListed HeldStays
CHECK_DEADLOCK FALSE
VIEW LiveWords
