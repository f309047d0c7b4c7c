---------------------------- MODULE MCVersioning ----------------------------
EXTENDS Versioning

MCWord == [digits |-> FALSE, value |-> 0]
MCDigit(n) == [digits |-> TRUE, value |-> n]

\* One that does not match, v0, v0.0-0, v0-word.1, v0-word, v0.1-1.word,
\* v0.1, v1.0.1-0.0, v1.0.1.
MCReleases ==
  { [core |-> <<>>, pre |-> <<>>],
    [core |-> <<0>>, pre |-> <<>>],
    [core |-> <<0, 0>>, pre |-> <<MCDigit(0)>>],
    [core |-> <<0>>, pre |-> <<MCWord, MCDigit(1)>>],
    [core |-> <<0>>, pre |-> <<MCWord>>],
    [core |-> <<0, 1>>, pre |-> <<MCDigit(1), MCWord>>],
    [core |-> <<0, 1>>, pre |-> <<>>],
    [core |-> <<1, 0, 1>>, pre |-> <<MCDigit(0), MCDigit(0)>>],
    [core |-> <<1, 0, 1>>, pre |-> <<>>] }
=============================================================================
