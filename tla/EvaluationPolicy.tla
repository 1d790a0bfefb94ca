--------------------------- MODULE EvaluationPolicy ---------------------------
(***************************************************************************)
(* Immutable evaluation policies.  Create lists the project's policies,    *)
(* takes the next version of the name and inserts; the unique key on       *)
(* (project, name, version) decides between creators that listed the same. *)
(***************************************************************************)
EXTENDS Integers, Sequences

CONSTANTS
    PolicyName,  \* names in use
    Creator,     \* Create calls in flight
    MaxPolicies  \* bound of the model: versions of one name

VARIABLES
    policies,    \* the versions of each name in insertion order
    creator      \* the name and the version each call is about to insert

policyVars == <<policies, creator>>

NoCreate == [step |-> "idle"]

PolicyInit ==
    /\ policies = [n \in PolicyName |-> <<>>]
    /\ creator = [c \in Creator |-> NoCreate]

Versions(n) == {policies[n][i] : i \in 1..Len(policies[n])}

\* Mutant: the names share their versions.
nextVersionOfProject(n) ==
    1 + Len(CHOOSE s \in {policies[m] : m \in PolicyName} :
              \A m \in PolicyName : Len(policies[m]) <= Len(s))

\* One more than the greatest version listed for the name.
nextVersion(n) ==
    CHOOSE k \in 1..(Len(policies[n]) + 1) :
        /\ k \notin Versions(n)
        /\ \A j \in Versions(n) : j < k

\* The gates were valid and the dataset belongs to the project: List.
ListPolicies(c, n) ==
    /\ creator[c].step = "idle"
    /\ creator' = [creator EXCEPT ![c] = [step |-> "insert", name |-> n, version |-> nextVersion(n)]]
    /\ UNCHANGED policies

\* isUniqueViolation: somebody inserted this version first.
Conflict(n, k) == k \in Versions(n)

\* INSERT: a conflict is ErrInvalidPolicy to the caller.
InsertPolicy(c) ==
    LET n == creator[c].name
        k == creator[c].version
    IN  /\ creator[c].step = "insert"
        /\ Len(policies[n]) < MaxPolicies
        /\ policies' = IF Conflict(n, k) THEN policies
                       ELSE [policies EXCEPT ![n] = Append(@, k)]
        /\ creator' = [creator EXCEPT ![c] = NoCreate]

PolicyNext ==
    \E c \in Creator : InsertPolicy(c) \/ \E n \in PolicyName : ListPolicies(c, n)

PolicySpec == PolicyInit /\ [][PolicyNext]_policyVars

-----------------------------------------------------------------------------

\* The versions of a name are 1, 2, 3, ... in the order of their insertion:
\* concurrent creators neither repeat a version nor leave a gap.
PolicyVersionsDense ==
    \A n \in PolicyName : \A i \in 1..Len(policies[n]) : policies[n][i] = i
=============================================================================
