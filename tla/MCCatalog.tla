------------------------------ MODULE MCCatalog -----------------------------
(* Catalog for TLC: two uploads of different users, the second of which may *)
(* share a tag with the first; queries in either case, within a tag or a    *)
(* name, by both, by a word that nothing holds, and by a wildcard.          *)
EXTENDS Catalog, TLC

CONSTANTS ann, bob

MCLowerCase == "B" :> "b"
MCUploader == (1 :> ann) @@ (2 :> bob)
MCTagLists == {<<>>, <<<<"a", "b">>>>, <<<<"c">>, <<"a", "b">>>>}
MCNames == {<<"a">>, <<"c", "B">>, <<"c">>}
MCFirstName == (ann :> <<"a">>) @@ (bob :> <<"c", "B">>)
MCQueries ==
    {[tag |-> tag, name |-> name] :
        tag \in {<<>>, <<"B">>, <<"c", "a">>, <<"_">>}, name \in {<<>>, <<"b">>}}
    \ {[tag |-> <<>>, name |-> <<>>]}
=============================================================================
