----------------------------- MODULE MCFormat -----------------------------
(* Instances of Format for TLC. *)
EXTENDS Format

\* Without an offset and a width, indented, and moved to the left.
MCWidths == {<<0, 0>>, <<-2, 6>>, <<-2, -6>>}
NoWidths == {<<0, 0>>}

Menu(S, d) == [has |-> {"Sh"} \cup S, depth |-> d]

\* Macros that are examined together, with the depth of the tree.
MCMenus ==
    {Menu({"other", "Bl", "bullet", "tag", "It"}, 11),
     Menu({"other", "Bl", "tag", "It", "Bd", "filled"}, 11),
     Menu({"other", "Bl", "bullet", "It", "Bd", "filled"}, 10),
     Menu({"other", "Bl", "tag", "bullet", "It", "Oo", "D1"}, 10),
     Menu({"other", "Bl", "column", "diag", "It", "Xo", "D1"}, 9),
     Menu({"other", "Ss", "Bd", "literal", "centered", "D1", "Oo"}, 9),
     Menu({"other", "Bd", "literal", "Oo", "nf", "fi"}, 9),
     Menu({"other", "Ss", "Bd", "literal", "filled", "Ql", "nf", "fi", "tbl", "Fn", "refill"}, 8),
     Menu({"other", "Dl", "Bd", "filled", "Ql", "Bk", "Oo", "Pp"}, 9),
     Menu({"SYNOPSIS", "Nm", "words", "Fn", "Op", "Eo", "Bk", "Sm"}, 9),
     Menu({"SYNOPSIS", "Fo", "Fa", "Fn", "Bf", "Oo", "Em"}, 9),
     Menu({"SEE ALSO", "AUTHORS", "Nd", "Rs", "%T", "An", "Xr", "eqn", "sp", "ce", "br"}, 8)}
===========================================================================
