CONSTANTS
    Menus <- MCMenus
    Formats = {"html", "term"}
    MaxMargins = 3
    MaxTags = 12
SPECIFICATION Spec
INVARIANTS HtmlLists Margins Fields LinesWhole
CHECK_DEADLOCK FALSE
