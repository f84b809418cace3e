---------------------------- MODULE MCLifecycle ----------------------------
EXTENDS Lifecycle

\* Every command line of at most two of the options that matter, and those
\* of three in which three parts meet.
Letters == {"a", "d", "f", "i", "m", "s", "S", "t", "T", "w", "g", "Z", "l"}
MCArgLists ==
    UNION {[1 .. k -> Letters] : k \in 0 .. 2}
    \cup {<<"a", "m", "d">>, <<"a", "w", "Z">>, <<"s", "t", "w">>, <<"w", "d", "Z">>}

\* A directory of -d holds a file of the user's, and perhaps what an earlier
\* run left there.
MCContents == {{"notes"}, {"notes", Index}, {"notes", "i1", "w1"}}
=============================================================================
