---------------------------- MODULE MCAuthFile ----------------------------
(* Instances of AuthFile for TLC: scopes and paths of the .cfg files.      *)
EXTENDS AuthFile, TLC

\* "notes:rw", "notes/a:r" and "*:r"
MCScopes == {{<<<<"notes">>, "r">>, <<<<"notes">>, "w">>},
             {<<<<"notes", "a">>, "r">>}, {<<<<>>, "r">>}}

\* /notes/a, /notes/a/ and /public/notes/
MCPaths == {[names |-> <<"notes", "a">>, isdir |-> FALSE],
            [names |-> <<"notes", "a">>, isdir |-> TRUE],
            [names |-> <<"public", "notes">>, isdir |-> FALSE]}

AuthSymmetry == Permutations(Client) \cup Permutations(Token) \cup Permutations(Password)
=============================================================================
