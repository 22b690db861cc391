----------------------------- MODULE MCPreview ------------------------------
EXTENDS Preview, TLC

CONSTANTS s1, s2, s3, t1, t2

\* None given, an ordinary one, and one above the maximum.
AskedTTLs == {-1, 1, 9}

\* Two spellings of one token, and another token.
Spelt == [s \in Strings |-> IF s = s3 THEN t2 ELSE t1]

\* Safety run: routes, requests and the two spellings are interchangeable.
Symmetry == Permutations(Routes) \cup Permutations(Requests) \cup Permutations({s1, s2})
=============================================================================
