--------------------------- MODULE SemanticVersion ---------------------------
(***************************************************************************)
(* The comparison operators of SemanticVersion (driver_library), by which  *)
(* a client tells driver, hardware and architecture revisions apart, and   *)
(* the order of versions major.minor.patch they are meant to be.           *)
(***************************************************************************)
EXTENDS Naturals

CONSTANT Numbers   \* values of a component that a device may report

Version == [major : Nat, minor : Nat, patch : Nat]
Reported == [major : Numbers, minor : Numbers, patch : Numbers]

\* operator==, <, <=, !=, >, >= with a for *this.
Equal(a, b) == b.major = a.major /\ b.minor = a.minor /\ b.patch = a.patch
Less(a, b) == b.major > a.major \/ b.minor > a.minor \/ b.patch > a.patch
LessEqual(a, b) == Less(a, b) \/ Equal(a, b)
NotEqual(a, b) == ~Equal(a, b)
Greater(a, b) == ~LessEqual(a, b)
GreaterEqual(a, b) == ~Less(a, b)

\* The order of versions: the first component in which they differ decides.
Older(a, b) == \/ a.major < b.major
               \/ a.major = b.major /\ a.minor < b.minor
               \/ a.major = b.major /\ a.minor = b.minor /\ a.patch < b.patch

-----------------------------------------------------------------------------
\* A client compares the version it requires with the one that is reported by
\* the capabilities of one device after another.
VARIABLES required, reported

Init == required \in Reported /\ reported \in Reported
Next == required' = required /\ reported' \in Reported
Spec == Init /\ [][Next]_<<required, reported>>

\* "Sematic Version : major.minor.patch" (ethosu.hpp:57): a version that is less
\* than another is the older one of the two.
LessMeansOlder == Less(reported, required) => Older(reported, required)
=============================================================================
