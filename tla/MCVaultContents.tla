--------------------------- MODULE MCVaultContents ---------------------------
(* VaultContents on small instances, for TLC. *)
EXTENDS VaultContents

Owners == [bot |-> "ann"]

Line(n, t) == [name |-> Typed(n), value |-> "file", deleted |-> t, folder |-> "x",
               files |-> 1]

\* A name twice, next to another one and to the one it would be renamed to.
CsvFiles == {<<Typed("b"), Typed("a"), Typed("a")>>,
             <<Typed("a"), Typed("a"), Numbered(Typed("a"), 2)>>}
\* Active and trashed rows of one name.
OtherFiles == {<<Line("a", Active), Line("a", 1), Line("b", 1)>>}
Archives == {[owner |-> "ola", items |-> <<
                [row |-> Line("a", Active), shares |-> {"bot"}],
                [row |-> Line("a", Active), shares |-> {"ann"}],
                [row |-> Line("b", 1), shares |-> {"ann"}]>>]}
=============================================================================
