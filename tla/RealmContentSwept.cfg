SPECIFICATION Spec
CONSTANTS
    a = a
    c1 = c1
    c2 = c2
    Fields <- MCFields
    Values = {0, 1, 2}
    NoHash = NoHash
    Slots <- MCSlots
    Seeder = Seeder
    None = None
    Dialects = {"sqlite"}
    Guarded = FALSE
    Policies = {"patch_only"}
    Default <- MCDefault
    MaxItems = 2
    ItemsOn <- MCItemsOn
    EditsOn <- MCEditsOn
    MaxCrashes = 1
PROPERTIES SweepSparesConflicts
SYMMETRY MCSymmetry
