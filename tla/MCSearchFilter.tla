---------------------------- MODULE MCSearchFilter ----------------------------
(***************************************************************************)
(* An alphabet with a letter in both cases, a letter outside ASCII and,    *)
(* for NarrowingIsSafe, the Kelvin sign, whose lower case is k.            *)
(***************************************************************************)
EXTENDS SearchFilter

MCLowerOf == [c \in Chars |-> CASE c = "K" -> "k" [] c = "Kelvin" -> "k" [] OTHER -> c]

\* "k", "K", "ke" with an accent, "x k", and with the Kelvin sign in place of K.
MCCommands == {<<"k">>, <<"K">>, <<"k", "eacute">>, <<"x", " ", "k">>}
MCKelvinCommands == MCCommands \cup {<<"Kelvin">>, <<"Kelvin", "eacute">>}

\* Every one-character query and those that extend it by one more, from one
\* letter; queries of two terms, and one that ends in a space.
MCQueries ==
    {<< >>} \cup {<<c>> : c \in Chars} \cup {<<"k", c>> : c \in Chars}
        \cup {<<"k", " ", "x">>, <<"x", " ">>, <<"x", " ", "k">>}
===============================================================================
