SPECIFICATION MCSpec
CONSTANTS
    Width = 4
    BlockSize = 2
    MaxAllocation = 16
    TableWidth = 2
    MaxHeld = 5
    Sizes <- MCSizes
    text_a = text_a
    text_b = text_b
    text_c = text_c
    text_d = text_d
    Text = {text_a, text_b, text_c, text_d}
    NoText = NoText
    Hash <- MCHash
    Slots = 4
    user_1 = user_1
    user_2 = user_2
    Users = {user_1, user_2}
    NoUser = NoUser
    MaxReferences = 1
SYMMETRY Symmetry
INVARIANTS ArenaSound TableSound RefsExact
PROPERTY ServesFromArena
