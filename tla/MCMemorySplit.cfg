SPECIFICATION Spec
CONSTANTS
    Page = 4
    Pages = 6
    Word = 32
    Image <- MCImage
    Brk0 = 8
    BrkLimit = 16
    Hint0 = 12
    Addr = {4, 8, 12}
    Length = {4, 12}
    Breaks = {8, 9, 13}
    Prots = {{"r"}, {"r", "w"}}
    Sources = {"anon"}
    MaxLength = 16
    MaxMaps = 5
    MaySplit = TRUE
INVARIANTS
    MappingsDisjoint
CHECK_DEADLOCK FALSE
