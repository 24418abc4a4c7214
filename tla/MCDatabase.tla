----------------------------- MODULE MCDatabase -----------------------------
(***************************************************************************)
(* A small manual page tree for the model checker: a formatted page with a *)
(* possible source, three sources that may be links or .so files of each   *)
(* other in chains and circles, and a source for one architecture.         *)
(***************************************************************************)
EXTENDS Database

\* Attributes of a source file and of a formatted file.
Source(name, arch) ==
    [name |-> name, dform |-> "man", fform |-> "man", dsec |-> "1",
     fsec |-> "1", arch |-> arch, source |-> ""]
Formatted(name, source) ==
    [name |-> name, dform |-> "cat", fform |-> "cat", dsec |-> "1",
     fsec |-> "1", arch |-> "", source |-> source]

MCPathOrder == <<"cat1/a.0", "man1/a.1", "man1/b.1", "man1/c.1", "man1/x/d.1">>

MCAttr ==
    [p \in Paths |->
        CASE p = "cat1/a.0" -> Formatted("a", "man1/a.1")
          [] p = "man1/a.1" -> Source("a", "")
          [] p = "man1/b.1" -> Source("b", "")
          [] p = "man1/c.1" -> Source("c", "")
          [] p = "man1/x/d.1" -> Source("d", "x")]

Item(mac, sec, arg) == [mac |-> mac, sec |-> sec, arg |-> arg]
Manual(title, desc, syn, refs) ==
    [kind |-> "mdoc", title |-> title, sec |-> "1", arch |-> "",
     items |-> <<Item("Nm", "NAME", title), Item("Nd", "NAME", desc)>> \o
               syn \o refs]

MCDoc ==
    <<Manual("a", "first", <<Item("Nm", "SYNOPSIS", "c")>>,
             <<Item("Xr", "SEE ALSO", "k1")>>),
      Manual("b", "second", <<>>, <<Item("Xr", "SEE ALSO", "k1"),
                                    Item("Xr", "SEE ALSO", "k2")>>),
      [kind |-> "so", dest |-> "man1/a.1"],
      [kind |-> "so", dest |-> "man1/b.1"],
      [kind |-> "so", dest |-> "man1/c.1"],
      [kind |-> "plain", text |-> "third"]>>

MCInstallable ==
    [p \in Paths |->
        CASE p = "cat1/a.0" -> {6}
          [] p = "man1/a.1" -> {1, 2, 4}
          [] p = "man1/b.1" -> {1, 3, 5}
          [] p = "man1/c.1" -> {3, 4}
          [] p = "man1/x/d.1" -> {1}]

\* Trees in which two sources are there; files are removed or changed later.
MCFirstTrees ==
    {t \in [Paths -> 0..6] :
        /\ \A p \in Paths : t[p] \in MCInstallable[p] \cup {0}
        /\ t["cat1/a.0"] = 6
        /\ t["man1/x/d.1"] = 1
        /\ t["man1/a.1"] \notin {0, 2} /\ t["man1/b.1"] # 0}

\* A single tree is enough to watch two writers.
MCOneTree == {[p \in Paths |-> IF p = "man1/a.1" THEN 1 ELSE 0]}

\* Single files, and pairs of related sources.
MCArgLists ==
    {<<p>> : p \in Paths} \cup
    {s \in [1..2 -> {"man1/a.1", "man1/b.1", "man1/c.1"}] : s[1] # s[2]}

MCKeys == {"k1", "k2"}

\* The type of databases.
Names == UNION {[ns -> SUBSET NAME_MASK] : ns \in SUBSET {"a", "b", "c", "d"}}
Pages == [names : Names, sect : SUBSET {"1"}, arch : SUBSET {"x"},
          desc : STRING, files : Seq(Paths)]
MCValues == [pages : Seq(Pages), macros : [Keys -> Seq(Nat)]]

Symmetry == Permutations(Ids)

MCQueryTerms == {TermWord("Nm", "b"), TermWord("Xr", "k1"),
                 TermWord("Nd", "second")}
MCSections == <<"1", "8", "6", "2", "3", "5", "7", "4", "9", "3p">>
=============================================================================
