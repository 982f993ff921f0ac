--------------------------- MODULE MCCatalogPublish ---------------------------
(* Two requests about the same two catalogs.                                  *)
EXTENDS CatalogPublish, TLC

cat(id, content, force) == [id |-> id, content |-> content, force |-> force]

posted(catalogs, directives, retire) ==
    [catalogs |-> catalogs, directives |-> directives, retire |-> retire]

\* A change of both catalogs, and one that retires a catalog beside it.
First == {
    posted(<<cat("a", "x", FALSE), cat("b", "x", FALSE)>>, <<[id |-> "a", mode |-> "MERGE"]>>, <<>>),
    posted(<<cat("a", "y", FALSE)>>, <<>>, <<"b", "a">>)}

\* A change, a forced baseline, a retirement listed twice, and a body whose
\* directive is about no catalog of it.
Second == {
    posted(<<cat("a", "v", FALSE)>>, <<>>, <<"b">>),
    posted(<<cat("a", "w", TRUE)>>, <<>>, <<>>),
    posted(<<>>, <<>>, <<"b", "b">>),
    posted(<<cat("a", "z", TRUE)>>, <<[id |-> "b", mode |-> ""]>>, <<"b">>)}

MCBodies == [r1 |-> First, r2 |-> Second]

=============================================================================
