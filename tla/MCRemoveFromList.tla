-------------------------- MODULE MCRemoveFromList --------------------------
EXTENDS RemoveFromList

\* Two one-letter names and one name that contains both of them, so that
\* inputs with and without a substring collision both occur.
MCDomains == {<<"a">>, <<"b">>, <<"a", "b">>}
=============================================================================
