---------------------------- MODULE MCManFormat ----------------------------
(* Instances of ManFormat for TLC. *)
EXTENDS ManFormat

Menu(S, depth, rs, widths) ==
    [has |-> {"SH"} \cup S, depth |-> depth, rs |-> rs, widths |-> widths]

MCMenus ==
    {Menu({"TP", "IP", " ", "*", "-"}, 6, 1, {<<3>>}),
     Menu({"TP", "TQ", "IP", " ", "RS", "B", "tbl"}, 8, 1, {<<3>>}),
     Menu({"IP", " ", "HP", "RS"}, 7, 2, {<<3>>, <<-9>>, <<2000>>}),
     Menu({"RS", "PP", "HP", "SS"}, 11, 4, {<<3>>}),
     Menu({"SS", "PP", "HP", "UR", "nf", "fi", "EX", "EE", "blank", "RS"}, 8, 1, {<<3>>}),
     Menu({"SY", "UR", "OP", "BI", "MR", "ce", "br", "sp", "ft", "eqn", "nf", "fi"}, 7, 1, {<<3>>}),
     Menu({"TP", "IP", " ", "in", "PD", "B", "PP"}, 7, 1, {<<3>>})}
=============================================================================
