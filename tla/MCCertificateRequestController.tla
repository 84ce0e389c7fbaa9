------------------- MODULE MCCertificateRequestController -------------------
(* Values of the constants for TLC.                                          *)
EXTENDS CertificateRequestController, TLC

CONSTANTS c1, c2, m1, m2

\* Every request names an Issuer.
AllIssuers == [c \in Requests |-> "Issuer"]

\* Neither request names a kind the controller handles.
UnregisteredAndList == [c \in Requests |-> IF c = c1 THEN "Unregistered" ELSE "IssuerList"]

\* One request names a list kind of the group, the other another group.
ListAndForeign == [c \in Requests |-> IF c = c1 THEN "IssuerList" ELSE "ForeignGroup"]

\* Requests are denied or left alone: with the flag off an approval makes no difference.
Quiet == \A c \in Requests : ~Latest(c).deleted /\ Latest(c).approval # "approved"

QuietSpec == Init /\ [][Next /\ Quiet']_vars /\ Fairness

Symmetry == Permutations(Managers)

=============================================================================
