------------------------------ MODULE MCConfigHash ------------------------------
EXTENDS ConfigHash

\* Two letters; keys that are prefixes of each other, values that may be empty or
\* look like a key
MCKeys == {<<1>>, <<2>>, <<1, 2>>}
MCContents == {<<>>, <<1>>, <<2, 1>>}
=============================================================================
