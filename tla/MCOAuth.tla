------------------------------ MODULE MCOAuth ------------------------------
(* OAuth for TLC: one browser of two tabs, two apps and two users: one    *)
(* with storage, one who administers.                                      *)
EXTENDS OAuth, TLC

CONSTANTS t1, t2, a1, a2, u1, u2, nobody, star, public, bad,
          docs, notes, photos, dashed, undashed, music

MCKept == [n \in Name |-> IF n = dashed THEN undashed ELSE n]
MCBegins == ("none" :> "other") @@ ("r" :> "r") @@ ("rw" :> "rw") @@ ("rwx" :> "rw")

\* Three plain scopes, and odd ones: a name that loses its dash, a name asked
\* for twice, and "public" with a level that the page does not know.
MCAsked == {<< <<docs, "r">>, <<notes, "none">>, <<photos, "rw">>, <<dashed, "r">>,
               <<music, "rw">>, <<music, "r">>, <<public, "rwx">> >>}
MCPath ==
  LET documents == {<<>>, <<docs>>, <<notes, docs>>, <<public, photos>>, <<undashed>>,
                    <<music>>, <<docs, bad>>}
  IN  [segs : documents, folder : {FALSE}] \cup [segs : {<<public, public>>}, folder : {TRUE}]
MCPrivileges == (u1 :> {"STORE"}) @@ (u2 :> {"ADMIN"})
Symmetric == Permutations(Tab) \cup Permutations(App)
=============================================================================
