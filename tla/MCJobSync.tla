------------------------------ MODULE MCJobSync ------------------------------
(* Instances of JobSync for TLC. *)
EXTENDS JobSync, TLC

CONSTANTS p1, p2, m1, m2

\* Both models belong to one provider.
OneOwner == [m \in {m1, m2} |-> p1]
\* One model for each of two providers.
TwoOwners == (m1 :> p1) @@ (m2 :> p2)
=============================================================================
