------------------------- MODULE IssuersAndRequests -------------------------
(***************************************************************************)
(* The request controller and an issuer controller in the managers that run  *)
(* both (main.go).  They share nothing but the issuers' Ready condition and   *)
(* the secrets, which the request controller reads from the manager's caches  *)
(* when it resolves the issuer of a request.                                  *)
(*                                                                            *)
(* CertificateRequestController leaves open whether that succeeds.  Here it   *)
(* depends on what the caches hold: first the issuer is read, later its       *)
(* secret, and either may have changed since, or in between.                  *)
(***************************************************************************)
EXTENDS Naturals, Sequences

CONSTANTS
    Requests, Managers, IssuerRef, CheckApprovedCondition, RejectedStates,
    RefusalText, NoRequest, MaxOrders, MaxTouches,
    Issuers, NoIssuer, MaxSecretChanges, MaxIssuerTouches, MaxVersions,
    MaxFaults,  \* bound: restarts and lost status updates, for each controller
    IssuerOf    \* IssuerOf[c]: the issuer that request c names

ASSUME IssuerOfAssumption == IssuerOf \in [Requests -> Issuers]

VARIABLES
    requests, requestsSeen, requestQueue, requestWorker, orders, requestFaults, touches,
    issuers, secret, issuerQueue, issuerWorker, issuersSeen, secretSeen,
    changes, issuerFaults, issuerTouches,
    found  \* found[m]: the version of the issuer a call has read as ready, 0 when none

requestVars == <<requests, requestsSeen, requestQueue, requestWorker, orders,
                 requestFaults, touches>>
issuerVars == <<issuers, secret, issuerQueue, issuerWorker, issuersSeen, secretSeen,
                changes, issuerFaults, issuerTouches>>
vars == <<requestVars, issuerVars, found>>

R == INSTANCE CertificateRequestController WITH
       log <- requests, seen <- requestsSeen, queue <- requestQueue,
       worker <- requestWorker, faults <- requestFaults

I == INSTANCE IssuerController WITH
       log <- issuers, seen <- issuersSeen, queue <- issuerQueue,
       worker <- issuerWorker, faults <- issuerFaults, touches <- issuerTouches,
       MaxTouches <- MaxIssuerTouches

ASSUME ControllersAssumption == R!ConstantsAssumption /\ I!IssuerConstantsAssumption

Init ==
    /\ R!Init
    /\ I!Init
    /\ found = [m \in Managers |-> 0]

-----------------------------------------------------------------------------
(* What the two controllers do on their own.                                 *)

RequestsOnly(action) == action /\ UNCHANGED <<issuerVars, found>>
IssuersOnly(action) == action /\ UNCHANGED <<requestVars, found>>

RequestEnvironment(c) == RequestsOnly(R!Environment(c))
Progress(o) == RequestsOnly(R!OrderProgress(o))
RequestInformer(m, c) == RequestsOnly(R!Informer(m, c))
RequestBegin(m, c) == RequestsOnly(R!Begin(m, c))
RequestEnd(m) == RequestsOnly(R!End(m))

IssuerEnvironment(i) == IssuersOnly(I!Environment(i))
IssuerInformer(m, i) == IssuersOnly(I!Informer(m, i))
IssuerBegin(m, i) == IssuersOnly(I!Begin(m, i))
IssuerEnd(m) == IssuersOnly(I!End(m))

\* The program installs a checker that never fails.
HealthCheck(m) == IssuersOnly(I!SecretMissing(m) \/ I!SecretFound(m) \/ I!CheckSucceeds(m))

\* One process runs both controllers.
Restart(m) ==
    /\ R!Crash(m)
    /\ I!Crash(m)
    /\ found' = [found EXCEPT ![m] = 0]

-----------------------------------------------------------------------------
(* The request controller resolves the issuer.                               *)

\* The issuer of the call in progress.
Named(m) == IssuerOf[requestWorker[m].cr]

\* Mutation: an issuer is good until it is known to be bad.
IsNotFalse(m) ==
    LET i == Named(m) IN
    /\ issuersSeen[m][i] # 0
    /\ ~I!Cached(m, i).deleted
    /\ I!Cached(m, i).status # "False"

IsReady(m) ==
    LET i == Named(m) IN
    /\ issuersSeen[m][i] # 0
    /\ ~I!Cached(m, i).deleted
    /\ I!Cached(m, i).status = "True"

Resolving(m) ==
    /\ requestWorker[m].pc = "signer"
    /\ UNCHANGED issuerVars

\* Mutation: the call ends without an error, and is not repeated.
GiveUpForGood(m) ==
    /\ R!At(m, "signer")
    /\ R!Returns(m, requestWorker[m].obj, "done", "none")
    /\ UNCHANGED orders
    /\ found' = [found EXCEPT ![m] = 0]

\* An error return.
GiveUp(m) ==
    /\ R!SignerUnavailable(m)
    /\ found' = [found EXCEPT ![m] = 0]

FindIssuer(m) ==
    /\ Resolving(m)
    /\ found[m] = 0
    /\ IsReady(m)
    /\ found' = [found EXCEPT ![m] = issuersSeen[m][Named(m)]]
    /\ UNCHANGED requestVars

\* No such issuer in the cache, or it is not ready.
IssuerNotReady(m) ==
    /\ Resolving(m)
    /\ found[m] = 0
    /\ ~IsReady(m)
    /\ GiveUp(m)

\* Mutation: the keys are not looked for.
HasSecret(m) == I!CachedSecret(m, Named(m)) # "absent"

HasCredentials(m) == I!CachedSecret(m, Named(m)) = "complete"

\* The secret has the four keys, and essendi XC grants a token.
BuildSigner(m) ==
    /\ Resolving(m)
    /\ found[m] # 0
    /\ HasCredentials(m)
    /\ R!SignerBuilt(m)
    /\ found' = [found EXCEPT ![m] = 0]

\* No secret, a key missing from it, or no token.
NoSigner(m) ==
    /\ Resolving(m)
    /\ found[m] # 0
    /\ GiveUp(m)

\* Submitting, polling and fetching do not look at the issuer again.
Exchange(m) ==
    RequestsOnly(\/ R!SubmitAccepted(m) \/ R!SubmitUnanswered(m) \/ R!SubmitRejected(m)
                 \/ R!PollAnswered(m) \/ R!PollNoNews(m) \/ R!PollFails(m)
                 \/ R!FetchSucceeds(m) \/ R!FetchFails(m))

Resolve(m) == FindIssuer(m) \/ IssuerNotReady(m) \/ BuildSigner(m) \/ NoSigner(m)

-----------------------------------------------------------------------------
RequestStep ==
    \/ \E c \in Requests : RequestEnvironment(c)
    \/ \E o \in 1 .. Len(orders) : Progress(o)
    \/ \E m \in Managers, c \in Requests : RequestInformer(m, c) \/ RequestBegin(m, c)
    \/ \E m \in Managers : Resolve(m) \/ Exchange(m) \/ RequestEnd(m)

IssuerStep ==
    \/ \E i \in Issuers : IssuerEnvironment(i)
    \/ \E m \in Managers, i \in Issuers : IssuerInformer(m, i) \/ IssuerBegin(m, i)
    \/ \E m \in Managers : HealthCheck(m) \/ IssuerEnd(m)

Next == RequestStep \/ IssuerStep \/ \E m \in Managers : Restart(m)

Spec == Init /\ [][Next]_vars

(***************************************************************************)
(* Fairness: that of the two controllers, but nothing is assumed of the      *)
(* issuer's readiness.  What remains of the fairness of SignerBuilt is that  *)
(* essendi XC does not deny a token for ever to a call that found complete   *)
(* credentials.                                                              *)
(***************************************************************************)
Answered(m) == RequestsOnly(R!Answered(m))

RequestFairness(m) ==
    /\ WF_vars(Resolve(m) \/ Exchange(m) \/ RequestEnd(m))
    /\ \A c \in Requests :
          /\ WF_vars(RequestsOnly(R!Deliver(m, c)))
          /\ WF_vars(RequestsOnly(R!TimerFires(m, c)))
          /\ SF_vars(RequestBegin(m, c))
          /\ SF_vars(requestWorker[m].cr = c /\ BuildSigner(m))
          /\ SF_vars(requestWorker[m].cr = c /\ Answered(m))

IssuerFairness(m) ==
    /\ WF_vars(HealthCheck(m) \/ IssuerEnd(m))
    /\ \A i \in Issuers :
          /\ WF_vars(IssuersOnly(I!Deliver(m, i)))
          /\ WF_vars(IssuersOnly(I!DeliverSecret(m, i)))
          /\ WF_vars(IssuersOnly(I!TimerFires(m, i)))
          /\ SF_vars(IssuerBegin(m, i))

Fairness ==
    /\ \A m \in Managers : RequestFairness(m) /\ IssuerFairness(m)
    /\ \A o \in 1 .. MaxOrders : WF_vars(o <= Len(orders) /\ Progress(o))

FairSpec == Spec /\ Fairness

-----------------------------------------------------------------------------
(* Properties.                                                               *)

\* A task is only ever placed for a request whose issuer was once reported Ready
\* by a health check, and once had complete credentials.
TasksNeedAReadyIssuer ==
    \A o \in 1 .. Len(orders) :
        LET i == IssuerOf[orders[o].cr] IN
        /\ \E k \in 1 .. Len(issuers[i]) : issuers[i][k].status = "True"
        /\ \E k \in 1 .. Len(secret[i]) : secret[i][k] = "complete"

\* A certificate that is stored for a request came from an issued task of that very
\* request, whose issuer was once reported Ready by a health check and once had
\* complete credentials; where approvals are checked, the version was approved.
CertificatesAreEntitled ==
    \A c \in Requests : \A n \in 1 .. Len(requests[c]) :
        LET v == requests[c][n]
            i == IssuerOf[c] IN
        v.certificate # 0 =>
            /\ v.certificate <= Len(orders)
            /\ orders[v.certificate] = [cr |-> c, state |-> "ISSUED"]
            /\ CheckApprovedCondition => v.approval = "approved"
            /\ \E k \in 1 .. Len(issuers[i]) : issuers[i][k].status = "True"
            /\ \E k \in 1 .. Len(secret[i]) : secret[i][k] = "complete"

\* However late an issuer is created or its secret repaired: once it is left
\* alone with complete credentials, each approved request for it is decided.
RepairedIssuerDecides ==
    \A c \in Requests :
        <>[](I!Secret(IssuerOf[c]) = "complete" /\ ~I!Latest(IssuerOf[c]).deleted) =>
            (R!Latest(c).approval = "approved"
                ~> (R!Latest(c).ready \in {"Issued", "Failed"} \/ R!Latest(c).deleted))

=============================================================================
