------------------------ MODULE SemanticVersion_proofs ------------------------
(***************************************************************************)
(* Which laws of an order the operators of SemanticVersion keep, for all   *)
(* versions, and which they do not.                                        *)
(***************************************************************************)
EXTENDS SemanticVersion, TLAPS

\* operator== tells any two versions apart.
THEOREM EqualIsEquality ==
    ASSUME NEW a \in Version, NEW b \in Version
    PROVE  Equal(a, b) <=> a = b
BY DEF Version, Equal

\* The order of versions is a strict order in which any two versions differ or
\* are equal: it is what the operators of ethosu.cpp:181-207 are measured by.
LEMMA OlderIsStrictOrder ==
    ASSUME NEW a \in Version, NEW b \in Version, NEW c \in Version
    PROVE  /\ ~Older(a, a)
           /\ Older(a, b) /\ Older(b, c) => Older(a, c)
           /\ Older(a, b) \/ Older(b, a) \/ a = b
<1>1. ~Older(a, a)
  BY DEF Version, Older
<1>2. Older(a, b) /\ Older(b, c) => Older(a, c)
  BY DEF Version, Older
<1>3. Older(a, b) \/ Older(b, a) \/ a = b
  BY EqualIsEquality DEF Version, Older, Equal
<1> QED  BY <1>1, <1>2, <1>3

\* operator< misses no older version: a client that requires `at least b' by
\* !(a < b) never takes a version that is too old.
THEOREM OlderIsLess ==
    ASSUME NEW a \in Version, NEW b \in Version, Older(a, b)
    PROVE  Less(a, b) /\ NotEqual(a, b) /\ LessEqual(a, b) /\ ~GreaterEqual(a, b) /\ ~Greater(a, b)
BY DEF Version, Older, Less, LessEqual, Equal, NotEqual, Greater, GreaterEqual

\* Versions that differ in one component only are ordered correctly by all of
\* operators <, <=, > and >=.
THEOREM SingleDifferenceIsOrdered ==
    ASSUME NEW a \in Version, NEW b \in Version,
           \/ a.major = b.major /\ a.minor = b.minor
           \/ a.major = b.major /\ a.patch = b.patch
           \/ a.minor = b.minor /\ a.patch = b.patch
    PROVE  /\ Less(a, b) <=> Older(a, b)
           /\ LessEqual(a, b) <=> Older(a, b) \/ a = b
           /\ Greater(a, b) <=> Older(b, a)
           /\ GreaterEqual(a, b) <=> Older(b, a) \/ a = b
BY DEF Version, Older, Less, LessEqual, Equal, Greater, GreaterEqual

\* Otherwise operator< is no order: whenever a newer version has a smaller
\* component somewhere behind, each of the two is less than the other.
THEOREM LessIsNotAsymmetric ==
    ASSUME NEW a \in Version, NEW b \in Version,
           Older(a, b), b.minor < a.minor \/ b.patch < a.patch
    PROVE  Less(a, b) /\ Less(b, a) /\ ~Older(b, a)
BY DEF Version, Older, Less
=============================================================================
