------------------------------- MODULE MCMdoc -------------------------------
(* Instances of MdocMacro for TLC. *)
EXTENDS MdocMacro

Menu(S, depth, calls) == [has |-> S, depth |-> depth, calls |-> calls]

\* Blocks of all kinds that break each other, and lists with columns.
MCMenus ==
  {Menu({"Sh", "Nd", "Nm", "Pp", "Bd", "Ed", "Fo", "Fc", "Ao", "Ac", "Eo",
         "Ec", "Op", "Fl", "Lk", "Fn", "Xr", "Pf"}, 3, 2),
   Menu({"Sh", "Bl", "El", "It", "Ta", "Ao", "Ac", "Op", "Ns"}, 5, 3)}
=============================================================================
