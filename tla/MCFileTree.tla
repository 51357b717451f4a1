---------------------------- MODULE MCFileTree ----------------------------
(* Instances of FileTree for TLC: documents and clocks for the .cfg files. *)
EXTENDS FileTreeStore, TLC

\* A document, a document in a folder of that name, and one that is two
\* folders deep and named like the folder above it.
A == <<"a">>
AB == <<"a", "b">>
AA == <<"a", "a">>
ABA == <<"a", "b", "a">>

NestedDocs == {A, AB}
TwinDocs == {A, AA}
DeepDocs == {ABA}
CrossedDocs == {A, AB, AA}
FourDocs == {A, AB, AA, ABA}

MCName == {"a", "b"}

DistinctStamps == {1}

WriterSymmetry == Permutations(Client)
=============================================================================
