------------------------------- MODULE MCTbl -------------------------------
(***************************************************************************)
(* Tables for the model checker: each kind has some of the keys and        *)
(* strings, so that three columns, or three rows, can be examined.         *)
(***************************************************************************)
EXTENDS Tbl

Table(keys, strings, c, r, s) ==
    [keys |-> keys, strings |-> strings, cols |-> c, rows |-> r, spans |-> s]

MCKinds ==
    {Table({"l", "s", "^"}, {"text", "up"}, 3, 2, 2),
     Table({"l", "s"}, {"text", "T{"}, 3, 2, 2),
     Table({"l", "_"}, {"up", "T{"}, 2, 2, 3),
     Table({"l", "^"}, {"text", "up"}, 1, 3, 4)}
=============================================================================
