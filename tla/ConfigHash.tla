------------------------------- MODULE ConfigHash -------------------------------
(***************************************************************************)
(* computeConfigHash: what the digest of the two prerequisites, annotated  *)
(* on the pod template so that pods restart when one of them changes, can  *)
(* tell apart.                                                             *)
(*                                                                         *)
(* A key or value is a sequence of bytes.  SHA-256 is taken as injective:  *)
(* two digests are equal when the bytes written to the hash are.           *)
(***************************************************************************)
EXTENDS Naturals, Sequences, SequencesExt

CONSTANTS
    Keys,       \* keys of a ConfigMap or Secret, not empty and of bounded length
    Contents    \* values

ASSUME HashAssumption ==
    /\ IsFiniteSet(Keys) /\ Keys \subseteq Seq(Nat) \ {<<>>}
    /\ Contents \subseteq Seq(Nat)

VARIABLES configMap, secret     \* the Data of the two prerequisites

vars == <<configMap, secret>>

DataMaps == UNION {[ks -> Contents] : ks \in SUBSET Keys}

-----------------------------------------------------------------------------

\* Order of strings in Go: of the first byte that differs, else the shorter first
Less(a, b) ==
    \/ IsStrictPrefix(a, b)
    \/ \E n \in DOMAIN a \cap DOMAIN b :
          a[n] < b[n] /\ \A m \in 1 .. n - 1 : a[m] = b[m]

\* Mutated: the keys are not sorted
Unsorted(keys) == keys

\* sort.Strings on the keys in the order in which the map yielded them: how they are
\* rearranged depends on that order
Sorted(keys) ==
    LET Rearranged(p) == [n \in DOMAIN keys |-> keys[p[n]]]
    IN  Rearranged(CHOOSE p \in SetToSeqs(DOMAIN keys) : IsSorted(Rearranged(p), Less))

\* What the loop over the keys writes: each key and its value, nothing between
Written(data, order) ==
    LET keys == Sorted(order)
    IN  FlattenSeq([n \in DOMAIN keys |-> keys[n] \o data[keys[n]]])

\* Every order in which a range over the map may yield its keys
Orders(data) == SetToSeqs(DOMAIN data)

\* Mutated: the Secret is left out
HashOfConfigMapOnly(cm, s) == Written(cm, CHOOSE o \in Orders(cm) : TRUE)

ComputeConfigHash(cm, s) ==
    LET cmKeys == CHOOSE o \in Orders(cm) : TRUE
        secretKeys == CHOOSE o \in Orders(s) : TRUE
    IN  Written(cm, cmKeys) \o Written(s, secretKeys)

\* Every digest a call may return, by the order in which the maps yield their keys
Digests(cm, s) == {Written(cm, p) \o Written(s, q) : p \in Orders(cm), q \in Orders(s)}

-----------------------------------------------------------------------------
(* Edits of the prerequisites.                                             *)

Without(data, k) == [x \in DOMAIN data \ {k} |-> data[x]]
With(data, k, v) == [x \in DOMAIN data \cup {k} |-> IF x = k THEN v ELSE data[x]]

\* kubectl edit of one entry: it is set, changed or removed
EditedOnce(data) ==
    {With(data, k, v) : k \in Keys, v \in Contents} \cup {Without(data, k) : k \in DOMAIN data}

Edit ==
    \/ configMap' \in EditedOnce(configMap) /\ UNCHANGED secret
    \/ secret' \in EditedOnce(secret) /\ UNCHANGED configMap

\* Any other contents applied at once
Replace ==
    \/ configMap' \in DataMaps /\ UNCHANGED secret
    \/ secret' \in DataMaps /\ UNCHANGED configMap

Init == configMap \in DataMaps /\ secret \in DataMaps

Next == Edit \/ Replace

Spec == Init /\ [][Next]_vars

-----------------------------------------------------------------------------

\* The digest does not depend on Go's map iteration order (prerequisites.go,
\* computeConfigHash: "Keys are sorted to ensure deterministic output").
OrderIrrelevant == \A g, h \in Digests(configMap, secret) : g = h

DigestMoves ==
    ComputeConfigHash(configMap', secret') # ComputeConfigHash(configMap, secret)

\* An edit of one entry of one prerequisite always changes the digest, so the pods
\* restart (prerequisites.go, computeConfigHash: "to detect changes").
EditIsDetected == [][Edit => DigestMoves]_vars

\* When a prerequisite changes in whatever way, the digest changes (README: "When
\* either resource changes, the hash changes on the next reconciliation").
ChangeIsDetected == [][DigestMoves]_vars
=============================================================================
