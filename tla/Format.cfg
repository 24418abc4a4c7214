CONSTANTS
    Menus <- MCMenus
    Widths <- MCWidths
    Marked = {"Oo", "Bk", "Fo", "Bf", "Op", "Ql", "D1", "Dl", "Bd", "Bl"}
    Formats = {"html", "term", "man", "markdown"}
    MaxTags = 9
    MaxLists = 3
SPECIFICATION Spec
INVARIANTS NoFault MarksBalanced ManNesting MarkdownBlocks TermModes
CHECK_DEADLOCK FALSE
