SPECIFICATION Spec
CONSTANTS
    Page = 4
    Pages = 5
    Word = 32
    Image <- MCImage
    Brk0 = 8
    BrkLimit = 16
    Hint0 = 12
    Addr = {8, 12}
    Length = {4, 5}
    Breaks = {8, 13}
    Prots = {{"r"}, {"r", "w"}}
    Sources = {"anon", "file", "badfd"}
    MaxLength = 16
    MaxMaps = 3
    MaySplit = FALSE
INVARIANTS
    MappingsDisjoint
PROPERTIES
    FailureChangesNothing
    
CHECK_DEADLOCK FALSE
