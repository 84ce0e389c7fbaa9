------------------------ MODULE MCIssuersAndRequests ------------------------
(* One request for one issuer.                                               *)
EXTENDS IssuersAndRequests

CONSTANTS c1, i1, m1

AllIssuers == [c \in Requests |-> "Issuer"]
OneIssuer == [c \in Requests |-> i1]

\* The issuer stays, and the only faults are restarts, of the process that runs both
\* controllers.
Kept ==
    /\ requestFaults = issuerFaults
    /\ \A i \in Issuers : ~I!Latest(i).deleted

KeptSpec == Init /\ [][Next /\ Kept']_vars

\* Nobody denies the request, or deletes it or its issuer: the case in which it
\* has to be decided.
Wanted ==
    /\ \A c \in Requests : ~R!Latest(c).deleted /\ R!Latest(c).approval # "denied"
    /\ \A i \in Issuers : ~I!Latest(i).deleted

WantedSpec == Init /\ [][Next /\ Wanted']_vars /\ Fairness

=============================================================================
