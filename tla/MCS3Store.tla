---------------------------- MODULE MCS3Store ----------------------------
(* Instances of S3Store for TLC: names, documents and bounds of the .cfgs. *)
EXTENDS S3Store, TLC

CA == <<"c", "a">>
CAB == <<"c", "a", "b">>

MCName == {"c", "a", "b"}

\* None of these names begins with another.
NoBeyond == <<>>

\* A document and one in a folder of its name; one that is two folders deep.
ClashingDocs == {CA, CAB}
DeepDocs == {CAB}

StoreSymmetry == Permutations(Client) \cup Permutations(Value)
=============================================================================
