---------------------- MODULE IssuersAndRequests_proofs ----------------------
(***************************************************************************)
(* Theorems about the two controllers together.  The composition implements   *)
(* each of them, so what is proved of one holds here too; with both, a task   *)
(* is only placed for an issuer that was ready.                               *)
(***************************************************************************)
EXTENDS IssuersAndRequests, TLAPS

RP == INSTANCE CertificateRequestOrders_proofs WITH
        log <- requests, seen <- requestsSeen, queue <- requestQueue,
        worker <- requestWorker, faults <- requestFaults

IP == INSTANCE IssuerController_proofs WITH
        log <- issuers, seen <- issuersSeen, queue <- issuerQueue,
        worker <- issuerWorker, faults <- issuerFaults, touches <- issuerTouches,
        MaxTouches <- MaxIssuerTouches

-----------------------------------------------------------------------------
(* The composition implements the two controllers.                           *)

LEMMA RequestSteps == [Next]_vars => [R!Next]_(R!vars)
<1> SUFFICES ASSUME [Next]_vars
             PROVE  [R!Next]_(R!vars)
  OBVIOUS
<1>1. CASE UNCHANGED requestVars
  BY <1>1 DEF requestVars, R!vars
<1>2. CASE \E c \in Requests : RequestEnvironment(c)
  BY <1>2 DEF RequestEnvironment, RequestsOnly, R!Next
<1>3. CASE \E o \in 1 .. Len(orders) : Progress(o)
  BY <1>3 DEF Progress, RequestsOnly, R!Next
<1>4. CASE \E m \in Managers, c \in Requests : RequestInformer(m, c) \/ RequestBegin(m, c)
  BY <1>4 DEF RequestInformer, RequestBegin, RequestsOnly, R!Next
<1>5. CASE \E m \in Managers : Resolve(m) \/ Exchange(m) \/ RequestEnd(m) \/ Restart(m)
  <2>1. PICK m \in Managers : Resolve(m) \/ Exchange(m) \/ RequestEnd(m) \/ Restart(m)
    BY <1>5
  <2>2. CASE Resolve(m)
    BY <1>1, <2>2 DEF Resolve, FindIssuer, IssuerNotReady, BuildSigner, NoSigner, GiveUp, R!Next, R!Call
  <2>3. CASE Exchange(m)
    BY <2>3 DEF Exchange, RequestsOnly, R!Next, R!Call
  <2>4. CASE RequestEnd(m) \/ Restart(m)
    BY <2>4 DEF RequestEnd, Restart, RequestsOnly, R!Next
  <2>5. QED
    BY <2>1, <2>2, <2>3, <2>4
<1>6. CASE IssuerStep
  BY <1>1, <1>6 DEF IssuerStep, IssuerEnvironment, IssuerInformer, IssuerBegin, HealthCheck,
                    IssuerEnd, IssuersOnly
<1>7. CASE UNCHANGED vars
  BY <1>1, <1>7 DEF vars
<1>8. QED
  BY <1>2, <1>3, <1>4, <1>5, <1>6, <1>7 DEF Next, RequestStep

LEMMA IssuerSteps == [Next]_vars => [I!Next]_(I!vars)
<1> SUFFICES ASSUME [Next]_vars
             PROVE  [I!Next]_(I!vars)
  OBVIOUS
<1>1. CASE UNCHANGED issuerVars
  BY <1>1 DEF issuerVars, I!vars, I!caches, I!budgets
<1>2. CASE RequestStep
  BY <1>1, <1>2 DEF RequestStep, RequestEnvironment, Progress, RequestInformer, RequestBegin,
                    Resolve, FindIssuer, IssuerNotReady, BuildSigner, NoSigner, Resolving,
                    Exchange, RequestEnd, RequestsOnly
<1>3. CASE \E i \in Issuers : IssuerEnvironment(i)
  BY <1>3 DEF IssuerEnvironment, IssuersOnly, I!Next
<1>4. CASE \E m \in Managers, i \in Issuers : IssuerInformer(m, i) \/ IssuerBegin(m, i)
  BY <1>4 DEF IssuerInformer, IssuerBegin, IssuersOnly, I!Next
<1>5. CASE \E m \in Managers : HealthCheck(m) \/ IssuerEnd(m) \/ Restart(m)
  BY <1>5 DEF HealthCheck, IssuerEnd, Restart, IssuersOnly, I!Next, I!Call
<1>6. CASE UNCHANGED vars
  BY <1>1, <1>6 DEF vars
<1>7. QED
  BY <1>2, <1>3, <1>4, <1>5, <1>6 DEF Next, IssuerStep

\* By the shape of the definitions, each step of the composition is one of the request
\* controller or leaves it alone: what carries its theorems over to the composition.
LEMMA RequestsAreImplemented == Spec => R!Spec
<1>1. Init => R!Init
  BY DEF Init
<1>2. QED
  BY <1>1, RequestSteps, PTL DEF Spec, R!Spec

\* And likewise one of the issuer controller.
LEMMA IssuersAreImplemented == Spec => I!Spec
<1>1. Init => I!Init
  BY DEF Init
<1>2. QED
  BY <1>1, IssuerSteps, PTL DEF Spec, I!Spec

-----------------------------------------------------------------------------
(* The theorems about the controllers, at hand here: R and I are instances of *)
(* their modules, RP and IP of the modules that prove something about them,    *)
(* so the two say the same once their definitions are written out.            *)

LEMMA SameRequestInit ==
    R!Init <=> RP!Init
  BY DEF R!Init, RP!Init, R!NewRequest, RP!NewRequest, R!Idle, RP!Idle

LEMMA SameRequestEnvironment ==
    ASSUME NEW c
    PROVE  R!Environment(c) <=> RP!Environment(c)
  BY DEF R!Environment, RP!Environment, R!Approve, RP!Approve, R!Decide, RP!Decide,
         R!Latest, RP!Latest, R!Store, RP!Store, R!Deny, RP!Deny, R!Touch, RP!Touch,
         R!Delete, RP!Delete

LEMMA SameRequestOrderProgress ==
    ASSUME NEW o
    PROVE  R!OrderProgress(o) <=> RP!OrderProgress(o)
  BY DEF R!OrderProgress, RP!OrderProgress, R!TaskStates, RP!TaskStates

LEMMA SameRequestInformer ==
    ASSUME NEW m, NEW c
    PROVE  R!Informer(m, c) <=> RP!Informer(m, c)
  BY DEF R!Informer, RP!Informer, R!Deliver, RP!Deliver, R!Resync, RP!Resync,
         R!TimerFires, RP!TimerFires

LEMMA SameRequestBegin ==
    ASSUME NEW m, NEW c
    PROVE  R!Begin(m, c) <=> RP!Begin(m, c)
  BY DEF R!Begin, RP!Begin, R!IgnoreRequest, RP!IgnoreRequest, R!Takes, RP!Takes,
         R!Ignored, RP!Ignored, R!Cached, RP!Cached, R!MarkDenied, RP!MarkDenied,
         R!Handles, RP!Handles, R!Works, RP!Works, R!SetReady, RP!SetReady,
         R!Initialise, RP!Initialise, R!RejectKind, RP!RejectKind, R!Proceeds, RP!Proceeds,
         R!PanicOnKind, RP!PanicOnKind, R!ResolveIssuer, RP!ResolveIssuer,
         R!HandledKinds, RP!HandledKinds

LEMMA SameRequestCall ==
    ASSUME NEW m
    PROVE  R!Call(m) <=> RP!Call(m)
  BY DEF R!Call, RP!Call, R!SignerUnavailable, RP!SignerUnavailable, R!At, RP!At,
         R!ReturnsError, RP!ReturnsError, R!Returns, RP!Returns, R!SetReady, RP!SetReady,
         R!SignerBuilt, RP!SignerBuilt, R!IsSigned, RP!IsSigned, R!IsSubmitted, RP!IsSubmitted,
         R!SubmitAccepted, RP!SubmitAccepted, R!PlaceOrder, RP!PlaceOrder,
         R!SubmitUnanswered, RP!SubmitUnanswered, R!SubmitRejected, RP!SubmitRejected,
         R!PollAnswered, RP!PollAnswered, R!PollSigned, RP!PollSigned, R!Polls, RP!Polls,
         R!Task, RP!Task, R!PollProgress, RP!PollProgress, R!IsProcessing, RP!IsProcessing,
         R!IsApproved, RP!IsApproved, R!PollRejected, RP!PollRejected,
         R!PollNoNews, RP!PollNoNews, R!PollFails, RP!PollFails,
         R!FetchSucceeds, RP!FetchSucceeds, R!FetchFails, RP!FetchFails

LEMMA SameRequestEnd ==
    ASSUME NEW m
    PROVE  R!End(m) <=> RP!End(m)
  BY DEF R!End, RP!End, R!WriteStatus, RP!WriteStatus, R!IsCurrent, RP!IsCurrent,
         R!StoreStatus, RP!StoreStatus, R!Latest, RP!Latest, R!Finish, RP!Finish,
         R!Idle, RP!Idle, R!NewRequest, RP!NewRequest, R!WriteConflict, RP!WriteConflict,
         R!WriteUnreachable, RP!WriteUnreachable,
         R!WriteUnacknowledged, RP!WriteUnacknowledged

LEMMA SameRequestCrash ==
    ASSUME NEW m
    PROVE  R!Crash(m) <=> RP!Crash(m)
  BY DEF R!Crash, RP!Crash, R!Idle, RP!Idle, R!NewRequest, RP!NewRequest

LEMMA SameRequestSpec == R!Spec => RP!Spec
<1>1. [R!Next]_(R!vars) => [RP!Next]_(RP!vars)
  BY SameRequestEnvironment, SameRequestOrderProgress, SameRequestInformer, SameRequestBegin,
     SameRequestCall, SameRequestEnd, SameRequestCrash
  DEF R!Next, RP!Next, R!vars, RP!vars
<1>2. QED
  BY <1>1, SameRequestInit, PTL DEF R!Spec, RP!Spec

LEMMA SameIssuerInit ==
    I!Init <=> IP!Init
  BY DEF I!Init, IP!Init, I!NewIssuer, IP!NewIssuer, I!SecretStates, IP!SecretStates,
         I!Idle, IP!Idle

LEMMA SameIssuerEnvironment ==
    ASSUME NEW i
    PROVE  I!Environment(i) <=> IP!Environment(i)
  BY DEF I!Environment, IP!Environment, I!Touch, IP!Touch, I!Store, IP!Store,
         I!Latest, IP!Latest, I!caches, IP!caches, I!Delete, IP!Delete, I!budgets, IP!budgets,
         I!ChangeSecret, IP!ChangeSecret, I!SecretStates, IP!SecretStates, I!Secret, IP!Secret

LEMMA SameIssuerInformer ==
    ASSUME NEW m, NEW i
    PROVE  I!Informer(m, i) <=> IP!Informer(m, i)
  BY DEF I!Informer, IP!Informer, I!Deliver, IP!Deliver, I!budgets, IP!budgets,
         I!DeliverSecret, IP!DeliverSecret, I!TimerFires, IP!TimerFires, I!caches, IP!caches

LEMMA SameIssuerBegin ==
    ASSUME NEW m, NEW i
    PROVE  I!Begin(m, i) <=> IP!Begin(m, i)
  BY DEF I!Begin, IP!Begin, I!IgnoreIssuer, IP!IgnoreIssuer, I!Takes, IP!Takes,
         I!caches, IP!caches, I!budgets, IP!budgets, I!Cached, IP!Cached,
         I!FirstSeen, IP!FirstSeen, I!Works, IP!Works,
         I!SetReadyCondition, IP!SetReadyCondition, I!Inspect, IP!Inspect

LEMMA SameIssuerCall ==
    ASSUME NEW m
    PROVE  I!Call(m) <=> IP!Call(m)
  BY DEF I!Call, IP!Call, I!SecretMissing, IP!SecretMissing, I!At, IP!At, I!caches, IP!caches,
         I!CachedSecret, IP!CachedSecret, I!Returns, IP!Returns,
         I!SetReadyCondition, IP!SetReadyCondition, I!SecretFound, IP!SecretFound,
         I!CheckFails, IP!CheckFails, I!CheckSucceeds, IP!CheckSucceeds

LEMMA SameIssuerEnd ==
    ASSUME NEW m
    PROVE  I!End(m) <=> IP!End(m)
  BY DEF I!End, IP!End, I!WriteStatus, IP!WriteStatus, I!IsCurrent, IP!IsCurrent,
         I!StoreStatus, IP!StoreStatus, I!Latest, IP!Latest, I!Finish, IP!Finish,
         I!Idle, IP!Idle, I!NewIssuer, IP!NewIssuer, I!caches, IP!caches,
         I!budgets, IP!budgets, I!WriteConflict, IP!WriteConflict,
         I!WriteUnreachable, IP!WriteUnreachable, I!Fault, IP!Fault,
         I!WriteUnacknowledged, IP!WriteUnacknowledged

LEMMA SameIssuerCrash ==
    ASSUME NEW m
    PROVE  I!Crash(m) <=> IP!Crash(m)
  BY DEF I!Crash, IP!Crash, I!Fault, IP!Fault, I!Idle, IP!Idle, I!NewIssuer, IP!NewIssuer

LEMMA SameIssuerSpec == I!Spec => IP!Spec
<1>1. [I!Next]_(I!vars) => [IP!Next]_(IP!vars)
  BY SameIssuerEnvironment, SameIssuerInformer, SameIssuerBegin, SameIssuerCall, SameIssuerEnd,
     SameIssuerCrash
  DEF I!Next, IP!Next, I!vars, IP!vars, I!caches, IP!caches, I!budgets, IP!budgets
<1>2. QED
  BY <1>1, SameIssuerInit, PTL DEF I!Spec, IP!Spec

LEMMA SameAssumptions == RP!ConstantsAssumption /\ IP!IssuerConstantsAssumption
  BY ControllersAssumption
  DEF R!ConstantsAssumption, RP!ConstantsAssumption, R!RefKinds, RP!RefKinds,
      R!HandledKinds, RP!HandledKinds, I!IssuerConstantsAssumption, IP!IssuerConstantsAssumption

LEMMA ControllersSpec == Spec => RP!Spec /\ IP!Spec
<1>1. Spec => RP!Spec
  BY RequestsAreImplemented, SameRequestSpec
<1>2. Spec => IP!Spec
  BY IssuersAreImplemented, SameIssuerSpec
<1>3. QED
  BY <1>1, <1>2

\* Both controllers' inductive invariants hold in the composition.
LEMMA ControllersInvariance == Spec => [](RP!CallInv /\ IP!IssuerInv)
<1>1. RP!Spec => []RP!CallInv
  BY SameAssumptions, RP!CallsConsistent
<1>2. IP!Spec => []IP!IssuerInv
  BY SameAssumptions, IP!IssuerInvariance
<1>3. QED
  BY <1>1, <1>2, ControllersSpec, PTL

\* What Reconcile of a request relies on and achieves holds in a manager that runs
\* both controllers: no lost wakeup, a task and a certificate of the request's own,
\* and no order without approval.
THEOREM RequestsStaySafe ==
    Spec => [](/\ R!NoLostWakeup /\ R!FollowsItsOwnOrder /\ R!IssuedIsJustified
               /\ R!OnlyApprovedIsOrdered /\ R!ReportsFitTheRequest)
<1>1. RP!Spec => []RP!NoLostWakeup
  BY SameAssumptions, RP!NoRequestIsForgotten
<1>2. RP!Spec => []RP!FollowsItsOwnOrder
  BY SameAssumptions, RP!TasksBelongToTheirRequest
<1>3. RP!Spec => []RP!IssuedIsJustified
  BY SameAssumptions, RP!CertificatesAreJustified
<1>4. RP!Spec => []RP!OnlyApprovedIsOrdered
  BY SameAssumptions, RP!OnlyApprovedRequestsAreOrdered
<1>5. RP!Spec => []RP!ReportsFitTheRequest
  BY SameAssumptions, RP!ReportsFit
<1>6. RP!NoLostWakeup => R!NoLostWakeup
  BY DEF RP!NoLostWakeup, R!NoLostWakeup, RP!Ignored, R!Ignored, RP!Latest, R!Latest
<1>7. /\ RP!FollowsItsOwnOrder => R!FollowsItsOwnOrder
      /\ RP!IssuedIsJustified => R!IssuedIsJustified
  BY DEF RP!FollowsItsOwnOrder, R!FollowsItsOwnOrder, RP!IssuedIsJustified, R!IssuedIsJustified,
         RP!IsSubmitted, R!IsSubmitted, RP!IsSigned, R!IsSigned
<1>8. RP!OnlyApprovedIsOrdered => R!OnlyApprovedIsOrdered
  BY DEF RP!OnlyApprovedIsOrdered, R!OnlyApprovedIsOrdered, RP!Latest, R!Latest
<1>9. RP!ReportsFitTheRequest => R!ReportsFitTheRequest
  BY DEF RP!ReportsFitTheRequest, R!ReportsFitTheRequest, RP!ReportsFor, R!ReportsFor,
         RP!HandledKinds, R!HandledKinds, RP!ReadyStates, R!ReadyStates
<1>10. QED
  BY <1>1, <1>2, <1>3, <1>4, <1>5, <1>6, <1>7, <1>8, <1>9, ControllersSpec, PTL

\* The task that is recorded is not exchanged, a lost one not taken up again, nor
\* progress set back, when what is recorded meanwhile of the issuer delays or ends the
\* calls.
THEOREM RecordsStaySafe ==
    Spec => [](/\ R!OrderIsNotForgotten /\ R!LostTasksStayLost /\ R!ProgressIsMonotonic)
<1>1. RP!Spec => []RP!OrderIsNotForgotten
  BY SameAssumptions, RP!TasksAreNotForgotten
<1>2. RP!Spec => []RP!ProgressIsMonotonic
  BY SameAssumptions, RP!ProgressNeverGoesBack
<1>3. RP!OrderIsNotForgotten => R!OrderIsNotForgotten
  BY DEF RP!OrderIsNotForgotten, R!OrderIsNotForgotten
<1>4. RP!ProgressIsMonotonic => R!ProgressIsMonotonic
  <2>1. \A v : RP!Stage(v) = R!Stage(v)
    BY DEF RP!Stage, R!Stage
  <2>2. QED
    BY <2>1 DEF RP!ProgressIsMonotonic, R!ProgressIsMonotonic
<1>5. RP!Spec => []RP!LostTasksStayLost
  BY SameAssumptions, RP!LostTasksAreNotFollowed
<1>6. RP!LostTasksStayLost => R!LostTasksStayLost
  BY DEF RP!LostTasksStayLost, R!LostTasksStayLost
<1>7. QED
  BY <1>1, <1>2, <1>3, <1>4, <1>5, <1>6, ControllersSpec, PTL

\* No step of the other controller, nor a restart of both, takes back an approval, a
\* denial or a certificate, or lets a call that could record it place a task beside the
\* one that is followed.
THEOREM DecisionsStayTogether == Spec => R!DecisionsAreFinal /\ R!TasksAreCalledFor
<1>1. RP!Spec => RP!DecisionsAreFinal
  BY SameAssumptions, RP!DecisionsStay
<1>2. RP!Spec => RP!TasksAreCalledFor
  BY SameAssumptions, RP!TasksAreNeeded
<1>3. RP!DecisionsAreFinal => R!DecisionsAreFinal
  BY DEF RP!DecisionsAreFinal, R!DecisionsAreFinal, RP!Latest, R!Latest, RP!vars, R!vars
<1>4. RP!TasksAreCalledFor => R!TasksAreCalledFor
  BY DEF RP!TasksAreCalledFor, R!TasksAreCalledFor, RP!Latest, R!Latest, RP!Ignored, R!Ignored,
         RP!IsCurrent, R!IsCurrent, RP!vars, R!vars
<1>5. QED
  BY <1>1, <1>2, <1>3, <1>4, ControllersSpec

\* And so does what Reconcile of an issuer promises: the next health check is never
\* lost, and what is reported was once true of the secret and comes in order, though
\* restarts hit both controllers at once.
THEOREM IssuersStaySafe ==
    Spec => [](/\ I!HealthChecksGoOn /\ I!ReadinessIsJustified /\ I!ConditionsComeInOrder
               /\ I!TransitionTimeIsAccurate)
<1>1. IP!Spec => []IP!HealthChecksGoOn
  BY SameAssumptions, IP!HealthChecks
<1>2. IP!Spec => []IP!ReadinessIsJustified
  BY SameAssumptions, IP!ReadinessJustified
<1>3. IP!Spec => []IP!ConditionsComeInOrder
  BY SameAssumptions, IP!ConditionsInOrder
<1>4. IP!Spec => []IP!TransitionTimeIsAccurate
  BY SameAssumptions, IP!TransitionTimes
<1>5. IP!HealthChecksGoOn => I!HealthChecksGoOn
  BY DEF IP!HealthChecksGoOn, I!HealthChecksGoOn, IP!Latest, I!Latest
<1>6. IP!ReadinessIsJustified => I!ReadinessIsJustified
  BY DEF IP!ReadinessIsJustified, I!ReadinessIsJustified, IP!Justified, I!Justified,
         IP!Was, I!Was
<1>7. IP!ConditionsComeInOrder => I!ConditionsComeInOrder
  BY DEF IP!ConditionsComeInOrder, I!ConditionsComeInOrder, IP!Successors, I!Successors
<1>8. IP!TransitionTimeIsAccurate => I!TransitionTimeIsAccurate
  BY DEF IP!TransitionTimeIsAccurate, I!TransitionTimeIsAccurate
<1>9. QED
  BY <1>1, <1>2, <1>3, <1>4, <1>5, <1>6, <1>7, <1>8, ControllersSpec, PTL

-----------------------------------------------------------------------------
(* Tasks need an issuer that was ready.                                      *)

EverReady(i) == \E k \in 1 .. Len(issuers[i]) : issuers[i][k].status = "True"
EverComplete(i) == \E k \in 1 .. Len(secret[i]) : secret[i][k] = "complete"

\* What a call relies on: the issuer it found was ready, and once it may place a
\* task the credentials it found were complete.
CallIsEntitled(m) ==
    LET i == IssuerOf[requestWorker[m].cr] IN
    /\ found[m] # 0 => requestWorker[m].pc = "signer" /\ EverReady(i)
    /\ requestWorker[m].pc = "submit" => EverReady(i) /\ EverComplete(i)

TasksInv ==
    /\ TasksNeedAReadyIssuer
    /\ found \in [Managers -> Nat]
    /\ \A m \in Managers : CallIsEntitled(m)

\* What is needed of the controllers' invariants.
Typed ==
    /\ requestWorker \in [Managers -> RP!Work]
    /\ \A m \in Managers : requestWorker[m].pc # "idle" => requestWorker[m].cr \in Requests
    /\ orders \in Seq(RP!Order)
    /\ issuers \in [Issuers -> Seq(IP!Version)]
    /\ secret \in [Issuers -> Seq(IP!SecretStates)]
    /\ issuersSeen \in [Managers -> [Issuers -> Nat]]
    /\ secretSeen \in [Managers -> [Issuers -> Nat \ {0}]]
    /\ \A m \in Managers, i \in Issuers :
          issuersSeen[m][i] <= Len(issuers[i]) /\ secretSeen[m][i] <= Len(secret[i])

LEMMA ControllersTyped == RP!CallInv /\ IP!IssuerInv => Typed
  BY DEF RP!CallInv, RP!CallOK, RP!TypeOK, RP!Work, IP!IssuerInv, IP!TypeOK, Typed

\* Neither readiness nor complete credentials are forgotten.
Remembered ==
    \A i \in Issuers :
        /\ EverReady(i) => EverReady(i)'
        /\ EverComplete(i) => EverComplete(i)'

LEMMA StoredVersionsStay ==
    ASSUME IP!IssuerInv, [Next]_vars
    PROVE  Remembered
<1>1. [IP!Next]_(IP!vars)
  BY IssuerSteps, SameIssuerEnvironment, SameIssuerInformer, SameIssuerBegin, SameIssuerCall,
     SameIssuerEnd, SameIssuerCrash
  DEF I!Next, IP!Next, I!vars, IP!vars, I!caches, IP!caches, I!budgets, IP!budgets
<1>2. IP!Grows
  <2>1. IP!IssuerConstantsAssumption
    BY ControllersAssumption DEF I!IssuerConstantsAssumption, IP!IssuerConstantsAssumption
  <2>2. QED
    BY <1>1, <2>1, IP!NextKeepsInv
<1>3. ASSUME NEW i \in Issuers
      PROVE  EverReady(i) => EverReady(i)'
  <2>1. \A k \in 1 .. Len(issuers[i]) : k \in 1 .. Len(issuers'[i]) /\ issuers'[i][k] = issuers[i][k]
    <3>1. Len(issuers[i]) \in Nat /\ Len(issuers'[i]) \in Nat
      BY <1>2 DEF IP!Grows, IP!IssuerInv, IP!TypeOK
    <3>2. QED
      BY <1>2, <3>1 DEF IP!Grows
  <2>2. QED
    BY <2>1 DEF EverReady
<1>4. ASSUME NEW i \in Issuers
      PROVE  EverComplete(i) => EverComplete(i)'
  <2>1. secret[i] \in Seq(IP!SecretStates) /\ Len(secret[i]) \in Nat
    BY DEF IP!IssuerInv, IP!TypeOK
  <2>2. CASE UNCHANGED secret
    BY <2>2 DEF EverComplete
  <2>3. ASSUME NEW j \in Issuers, IP!ChangeSecret(j)
        PROVE  \A k \in 1 .. Len(secret[i]) :
                  k \in 1 .. Len(secret'[i]) /\ secret'[i][k] = secret[i][k]
    <3>1. PICK s \in IP!SecretStates : secret' = [secret EXCEPT ![j] = Append(@, s)]
      BY <2>3 DEF IP!ChangeSecret
    <3>2. secret \in [Issuers -> Seq(IP!SecretStates)]
      BY DEF IP!IssuerInv, IP!TypeOK
    <3>3. CASE i = j
      <4>1. secret'[i] = Append(secret[i], s)
        BY <3>1, <3>2, <3>3
      <4>2. QED
        BY <2>1, <4>1
    <3>4. CASE i # j
      BY <2>1, <3>1, <3>2, <3>4
    <3>5. QED
      BY <3>3, <3>4
  <2>4. CASE \E j \in Issuers : IP!ChangeSecret(j)
    BY <2>3, <2>4 DEF EverComplete
  <2>5. QED
    BY <1>1, <2>2, <2>4
    DEF IP!Next, IP!Environment, IP!Touch, IP!Delete, IP!Informer, IP!Deliver, IP!DeliverSecret,
        IP!TimerFires, IP!Begin, IP!IgnoreIssuer, IP!FirstSeen, IP!Inspect, IP!Takes, IP!Call,
        IP!SecretMissing, IP!SecretFound, IP!CheckFails, IP!CheckSucceeds, IP!At, IP!End,
        IP!WriteStatus, IP!WriteConflict, IP!WriteUnreachable, IP!WriteUnacknowledged,
        IP!Crash, IP!Fault, IP!vars
<1>5. QED
  BY <1>3, <1>4 DEF Remembered

\* Tasks stay justified when each new one is for an issuer that was ready.
LEMMA TasksStay ==
    ASSUME TasksNeedAReadyIssuer, Typed, Remembered,
           \A o \in 1 .. Len(orders') :
               \/ o \in 1 .. Len(orders) /\ orders'[o].cr = orders[o].cr
               \/ \E i \in Issuers :
                     i = IssuerOf[orders'[o].cr] /\ EverReady(i)' /\ EverComplete(i)'
    PROVE  TasksNeedAReadyIssuer'
<1>1. ASSUME NEW o \in 1 .. Len(orders')
      PROVE  \E i \in Issuers :
                i = IssuerOf[orders'[o].cr] /\ EverReady(i)' /\ EverComplete(i)'
  <2>1. CASE o \in 1 .. Len(orders) /\ orders'[o].cr = orders[o].cr
    <3>1. orders[o] \in RP!Order
      BY <2>1 DEF Typed
    <3>2. IssuerOf[orders[o].cr] \in Issuers
      BY <3>1, IssuerOfAssumption DEF RP!Order
    <3>3. EverReady(IssuerOf[orders[o].cr]) /\ EverComplete(IssuerOf[orders[o].cr])
      BY <2>1 DEF TasksNeedAReadyIssuer, EverReady, EverComplete
    <3>4. QED
      BY <2>1, <3>2, <3>3 DEF Remembered
  <2>2. QED
    BY <1>1, <2>1
<1>2. ASSUME NEW o \in 1 .. Len(orders')
      PROVE  /\ \E k \in 1 .. Len(issuers'[IssuerOf[orders'[o].cr]]) :
                   issuers'[IssuerOf[orders'[o].cr]][k].status = "True"
             /\ \E k \in 1 .. Len(secret'[IssuerOf[orders'[o].cr]]) :
                   secret'[IssuerOf[orders'[o].cr]][k] = "complete"
  <2>1. PICK i \in Issuers :
           i = IssuerOf[orders'[o].cr] /\ EverReady(i)' /\ EverComplete(i)'
    BY <1>1
  <2>2. /\ \E k \in 1 .. Len(issuers'[i]) : issuers'[i][k].status = "True"
        /\ \E k \in 1 .. Len(secret'[i]) : secret'[i][k] = "complete"
    BY <2>1 DEF EverReady, EverComplete
  <2>3. QED
    BY <2>1, <2>2
<1>3. QED
  BY <1>2 DEF TasksNeedAReadyIssuer

\* A call that does not move stays entitled to what it does.
LEMMA CallStays ==
    ASSUME TasksInv, Typed, Remembered, NEW n \in Managers,
           requestWorker'[n] = requestWorker[n], found'[n] = found[n]
    PROVE  CallIsEntitled(n)'
<1>1. CASE requestWorker[n].pc = "idle"
  BY <1>1 DEF TasksInv, CallIsEntitled
<1>2. CASE requestWorker[n].pc # "idle"
  <2>1. IssuerOf[requestWorker[n].cr] \in Issuers
    BY <1>2, IssuerOfAssumption DEF Typed
  <2>2. QED
    BY <2>1 DEF TasksInv, CallIsEntitled, Remembered
<1>3. QED
  BY <1>1, <1>2

\* A step of one manager, whose call is in order afterwards.
LEMMA StepKeepsTasks ==
    ASSUME TasksInv, Typed, Remembered, NEW m \in Managers,
           \A n \in Managers \ {m} : requestWorker'[n] = requestWorker[n] /\ found'[n] = found[n],
           found' \in [Managers -> Nat],
           CallIsEntitled(m)',
           \A o \in 1 .. Len(orders') :
               \/ o \in 1 .. Len(orders) /\ orders'[o].cr = orders[o].cr
               \/ \E i \in Issuers :
                     i = IssuerOf[orders'[o].cr] /\ EverReady(i)' /\ EverComplete(i)'
    PROVE  TasksInv'
<1>1. \A n \in Managers \ {m} : CallIsEntitled(n)'
  BY CallStays
<1>2. TasksNeedAReadyIssuer'
  BY TasksStay DEF TasksInv
<1>3. QED
  BY <1>1, <1>2 DEF TasksInv

LEMMA InitTasksInv == Init => TasksInv
  BY DEF Init, R!Init, R!Idle, TasksInv, TasksNeedAReadyIssuer, CallIsEntitled

\* Steps that leave the calls of the request controller alone.
LEMMA OthersKeepTasks ==
    ASSUME TasksInv, Typed, Remembered, UNCHANGED <<requestWorker, found>>,
           Len(orders') = Len(orders),
           \A o \in 1 .. Len(orders) : orders'[o].cr = orders[o].cr
    PROVE  TasksInv'
<1>1. \A m \in Managers : CallIsEntitled(m)'
  BY CallStays
<1>2. TasksNeedAReadyIssuer'
  BY TasksStay DEF TasksInv
<1>3. QED
  BY <1>1, <1>2 DEF TasksInv

\* A step of manager m after which its call may neither have found an issuer nor
\* be about to place a task, and which places none.
LEMMA DoneWithIssuer ==
    ASSUME TasksInv, Typed, Remembered, NEW m \in Managers, UNCHANGED orders,
           requestWorker' = [requestWorker EXCEPT ![m] = requestWorker'[m]],
           requestWorker'[m].pc # "submit",
           found' = [found EXCEPT ![m] = 0]
    PROVE  TasksInv'
<1>1. /\ \A n \in Managers \ {m} : requestWorker'[n] = requestWorker[n] /\ found'[n] = found[n]
      /\ found' \in [Managers -> Nat] /\ found'[m] = 0
  BY DEF TasksInv, Typed
<1>2. CallIsEntitled(m)'
  BY <1>1 DEF CallIsEntitled
<1>3. \A o \in 1 .. Len(orders') : o \in 1 .. Len(orders) /\ orders'[o].cr = orders[o].cr
  OBVIOUS
<1>4. QED
  BY <1>1, <1>2, <1>3, StepKeepsTasks

\* A call that is not resolving its issuer has found none.
LEMMA NothingFound ==
    ASSUME TasksInv, NEW m \in Managers, requestWorker[m].pc # "signer"
    PROVE  found = [found EXCEPT ![m] = 0]
<1>1. found[m] = 0 /\ found \in [Managers -> Nat]
  BY DEF TasksInv, CallIsEntitled
<1>2. QED
  BY <1>1

\* What the return of an error leaves.
LEMMA ErrorReturns ==
    ASSUME Typed, NEW m \in Managers, R!ReturnsError(m)
    PROVE  /\ requestWorker' = [requestWorker EXCEPT ![m] = requestWorker'[m]]
           /\ requestWorker'[m].pc = "update"
  BY DEF Typed, RP!Work, R!ReturnsError, R!Returns

LEMMA RequestStepKeepsTasks ==
    ASSUME TasksInv, RP!CallInv, Typed, Remembered, RequestStep
    PROVE  TasksInv'
<1>1. CASE \E c \in Requests : RequestEnvironment(c)
  BY <1>1, OthersKeepTasks
  DEF RequestEnvironment, RequestsOnly, R!Environment, R!Approve, R!Deny, R!Decide, R!Touch, R!Delete
<1>2. ASSUME NEW o \in 1 .. Len(orders), Progress(o)
      PROVE  TasksInv'
  <2>1. R!OrderProgress(o) /\ UNCHANGED <<requestWorker, found>>
    BY <1>2 DEF Progress, RequestsOnly, R!OrderProgress
  <2>2. RP!ConstantsAssumption
    BY ControllersAssumption
    DEF R!ConstantsAssumption, RP!ConstantsAssumption, R!RefKinds, RP!RefKinds,
        R!HandledKinds, RP!HandledKinds
  <2>3. /\ Len(orders') = Len(orders)
        /\ \A i \in 1 .. Len(orders) : orders'[i].cr = orders[i].cr
    BY <2>1, <2>2, SameRequestOrderProgress, RP!OrderProgressChanges DEF RP!CallInv
  <2>4. QED
    BY <2>1, <2>3, OthersKeepTasks
<1>3. ASSUME NEW m \in Managers, NEW c \in Requests, RequestInformer(m, c)
      PROVE  TasksInv'
  BY <1>3, OthersKeepTasks
  DEF RequestInformer, RequestsOnly, R!Informer, R!Deliver, R!Resync, R!TimerFires
<1>4. ASSUME NEW m \in Managers, NEW c \in Requests, RequestBegin(m, c)
      PROVE  TasksInv'
  <2>1. R!Begin(m, c) /\ R!Takes(m, c) /\ UNCHANGED <<orders, found>>
    BY <1>4 DEF RequestBegin, RequestsOnly, R!Begin, R!IgnoreRequest, R!MarkDenied, R!Initialise,
                R!RejectKind, R!PanicOnKind, R!ResolveIssuer, R!Proceeds, R!Handles, R!Takes
  <2>2. requestWorker[m].pc = "idle" /\ found' = [found EXCEPT ![m] = 0]
    BY <2>1, NothingFound DEF R!Takes
  <2>3. /\ requestWorker' = [requestWorker EXCEPT ![m] = requestWorker'[m]]
        /\ requestWorker'[m].pc # "submit"
    BY <2>1, <2>2 DEF Typed, R!Begin, R!IgnoreRequest, R!MarkDenied, R!Initialise, R!RejectKind,
                      R!PanicOnKind, R!ResolveIssuer, R!Works
  <2>4. QED
    BY <2>1, <2>2, <2>3, DoneWithIssuer
<1>5. ASSUME NEW m \in Managers, Resolve(m)
      PROVE  TasksInv'
  <2> DEFINE i == IssuerOf[requestWorker[m].cr]
  <2>1. requestWorker[m].pc = "signer" /\ i \in Issuers
    <3>1. requestWorker[m].pc = "signer"
      BY <1>5 DEF Resolve, FindIssuer, IssuerNotReady, BuildSigner, NoSigner, Resolving
    <3>2. QED
      BY <3>1, IssuerOfAssumption DEF Typed
  <2>2. CASE FindIssuer(m)
    <3>1. UNCHANGED <<requestWorker, orders>> /\ found' = [found EXCEPT ![m] = issuersSeen[m][i]]
      BY <2>2 DEF FindIssuer, requestVars, Named
    <3>2. issuersSeen[m][i] \in 1 .. Len(issuers[i])
      BY <2>1, <2>2 DEF FindIssuer, IsReady, Named, Typed
    <3>3. EverReady(i)
      BY <2>2, <3>2 DEF FindIssuer, IsReady, Named, I!Cached, EverReady
    <3>4. /\ \A n \in Managers \ {m} : found'[n] = found[n]
          /\ found' \in [Managers -> Nat]
      BY <3>1, <3>2 DEF TasksInv
    <3>5. CallIsEntitled(m)'
      BY <2>1, <3>1, <3>3 DEF CallIsEntitled, Remembered
    <3>6. QED
      BY <3>1, <3>4, <3>5, StepKeepsTasks
  <2>3. CASE IssuerNotReady(m) \/ NoSigner(m)
    <3>1. R!ReturnsError(m) /\ UNCHANGED orders /\ found' = [found EXCEPT ![m] = 0]
      BY <2>3 DEF IssuerNotReady, NoSigner, GiveUp, R!SignerUnavailable
    <3>2. QED
      BY <3>1, ErrorReturns, DoneWithIssuer
  <2>4. CASE BuildSigner(m)
    <3>1. R!SignerBuilt(m) /\ UNCHANGED orders /\ found' = [found EXCEPT ![m] = 0] /\ found[m] # 0
      BY <2>4 DEF BuildSigner, R!SignerBuilt
    <3>2. EverReady(i)
      BY <3>1 DEF TasksInv, CallIsEntitled
    <3>3. EverComplete(i)
      <4>1. secretSeen[m][i] \in 1 .. Len(secret[i])
        BY <2>1 DEF Typed
      <4>2. QED
        BY <2>4, <4>1 DEF BuildSigner, HasCredentials, Named, I!CachedSecret, EverComplete
    <3>4. /\ \A n \in Managers \ {m} : requestWorker'[n] = requestWorker[n] /\ found'[n] = found[n]
          /\ found' \in [Managers -> Nat] /\ found'[m] = 0
      BY <3>1 DEF TasksInv, Typed, R!SignerBuilt
    <3>5. requestWorker'[m].cr = requestWorker[m].cr
      BY <3>1 DEF Typed, RP!Work, R!SignerBuilt
    <3>6. CallIsEntitled(m)'
      BY <2>1, <3>2, <3>3, <3>4, <3>5 DEF CallIsEntitled, Remembered
    <3>7. QED
      BY <3>1, <3>4, <3>6, StepKeepsTasks
  <2>5. QED
    BY <1>5, <2>2, <2>3, <2>4 DEF Resolve
<1>6. ASSUME NEW m \in Managers, Exchange(m)
      PROVE  TasksInv'
  <2>1. requestWorker[m].pc \in {"submit", "poll", "fetch"} /\ UNCHANGED found
    BY <1>6 DEF Exchange, RequestsOnly, R!SubmitAccepted, R!SubmitUnanswered, R!SubmitRejected,
                R!PollAnswered, R!PollSigned, R!PollProgress, R!PollRejected, R!PollNoNews,
                R!PollFails, R!Polls, R!FetchSucceeds, R!FetchFails, R!At
  <2>2. found' = [found EXCEPT ![m] = 0]
    BY <2>1, NothingFound
  <2>3. /\ requestWorker' = [requestWorker EXCEPT ![m] = requestWorker'[m]]
        /\ requestWorker'[m].pc = "update"
    <3>1. CASE R!ReturnsError(m)
      BY <3>1, ErrorReturns
    <3>2. ASSUME NEW obj, NEW result, NEW event, R!Returns(m, obj, result, event)
          PROVE  /\ requestWorker' = [requestWorker EXCEPT ![m] = requestWorker'[m]]
                 /\ requestWorker'[m].pc = "update"
      BY <3>2 DEF Typed, RP!Work, R!Returns
    <3>3. QED
      BY <1>6, <3>1, <3>2
      DEF Exchange, RequestsOnly, R!SubmitAccepted, R!SubmitUnanswered, R!SubmitRejected,
          R!PollAnswered, R!PollSigned, R!PollProgress, R!PollRejected, R!PollNoNews,
          R!PollFails, R!FetchSucceeds, R!FetchFails
  <2>4. CASE UNCHANGED orders
    BY <2>2, <2>3, <2>4, DoneWithIssuer
  <2>5. CASE R!PlaceOrder(m) /\ requestWorker[m].pc = "submit"
    <3> DEFINE new == [cr |-> requestWorker[m].cr, state |-> "PROCESSING"]
    <3>1. orders' = Append(orders, new) /\ orders \in Seq(RP!Order)
      BY <2>5 DEF R!PlaceOrder, Typed
    <3>2. PICK j \in Issuers :
             j = IssuerOf[requestWorker[m].cr] /\ EverReady(j) /\ EverComplete(j)
      <4>1. IssuerOf[requestWorker[m].cr] \in Issuers
        BY <2>5, IssuerOfAssumption DEF Typed
      <4>2. QED
        BY <2>5, <4>1 DEF TasksInv, CallIsEntitled
    <3>3. \A o \in 1 .. Len(orders') :
             \/ o \in 1 .. Len(orders) /\ orders'[o] = orders[o]
             \/ orders'[o] = new
      BY <3>1
    <3>4. /\ \A n \in Managers \ {m} : requestWorker'[n] = requestWorker[n] /\ found'[n] = found[n]
          /\ found' \in [Managers -> Nat] /\ found'[m] = 0
      BY <2>2, <2>3 DEF TasksInv, Typed
    <3>5. CallIsEntitled(m)'
      BY <2>3, <3>4 DEF CallIsEntitled
    <3>6. EverReady(j)' /\ EverComplete(j)'
      BY <3>2 DEF Remembered
    <3>7. \A o \in 1 .. Len(orders') :
             \/ o \in 1 .. Len(orders) /\ orders'[o].cr = orders[o].cr
             \/ \E i \in Issuers :
                   i = IssuerOf[orders'[o].cr] /\ EverReady(i)' /\ EverComplete(i)'
      BY <3>2, <3>3, <3>6
    <3>8. QED
      BY <3>4, <3>5, <3>7, StepKeepsTasks
  <2>6. QED
    BY <1>6, <2>4, <2>5
    DEF Exchange, RequestsOnly, R!SubmitAccepted, R!SubmitUnanswered, R!SubmitRejected,
        R!PollAnswered, R!PollSigned, R!PollProgress, R!PollRejected, R!PollNoNews,
        R!PollFails, R!Polls, R!FetchSucceeds, R!FetchFails, R!At
<1>7. ASSUME NEW m \in Managers, RequestEnd(m)
      PROVE  TasksInv'
  <2>1. /\ requestWorker[m].pc = "update" /\ UNCHANGED <<orders, found>>
        /\ requestWorker' = [requestWorker EXCEPT ![m] = R!Idle]
    BY <1>7 DEF RequestEnd, RequestsOnly, R!End, R!WriteStatus, R!WriteConflict,
                R!WriteUnreachable, R!WriteUnacknowledged, R!Finish
  <2>2. found' = [found EXCEPT ![m] = 0]
    BY <2>1, NothingFound
  <2>3. requestWorker'[m].pc # "submit" /\ requestWorker'[m] = R!Idle
    BY <2>1 DEF Typed, R!Idle
  <2>4. QED
    BY <2>1, <2>2, <2>3, DoneWithIssuer
<1>8. QED
  BY <1>1, <1>2, <1>3, <1>4, <1>5, <1>6, <1>7 DEF RequestStep

LEMMA NextKeepsTasks ==
    ASSUME TasksInv, RP!CallInv, IP!IssuerInv, [Next]_vars
    PROVE  TasksInv'
<1>1. Typed /\ Remembered
  BY ControllersTyped, StoredVersionsStay
<1>2. CASE RequestStep
  BY <1>1, <1>2, RequestStepKeepsTasks
<1>3. CASE IssuerStep \/ UNCHANGED vars
  <2>1. UNCHANGED <<requestWorker, orders, found>>
    BY <1>3 DEF IssuerStep, IssuerEnvironment, IssuerInformer, IssuerBegin, HealthCheck, IssuerEnd,
                IssuersOnly, requestVars, vars
  <2>2. QED
    BY <1>1, <2>1, OthersKeepTasks
<1>4. ASSUME NEW m \in Managers, Restart(m)
      PROVE  TasksInv'
  <2>1. /\ requestWorker' = [requestWorker EXCEPT ![m] = R!Idle] /\ UNCHANGED orders
        /\ found' = [found EXCEPT ![m] = 0]
    BY <1>4 DEF Restart, R!Crash
  <2>2. requestWorker'[m].pc # "submit" /\ requestWorker'[m] = R!Idle
    BY <1>1, <2>1 DEF Typed, R!Idle
  <2>3. QED
    BY <1>1, <2>1, <2>2, DoneWithIssuer
<1>5. QED
  BY <1>2, <1>3, <1>4 DEF Next

\* Whatever the caches still hold and whoever restarts: a task is only placed for
\* an issuer that a health check reported ready, with credentials that were once
\* complete.
THEOREM TasksAreEntitled == Spec => []TasksNeedAReadyIssuer
<1>1. TasksInv /\ RP!CallInv /\ IP!IssuerInv /\ [Next]_vars => TasksInv'
  BY NextKeepsTasks
<1>2. TasksInv => TasksNeedAReadyIssuer
  BY DEF TasksInv
<1>3. QED
  BY <1>1, <1>2, InitTasksInv, ControllersInvariance, PTL DEF Spec

\* What FetchCertificate is stored for: the request's own task, issued, ordered after
\* the approval, for an issuer that was ready.  Each controller alone shows one part.
THEOREM CertificatesNeedEntitlement == Spec => []CertificatesAreEntitled
<1>1. ASSUME TasksNeedAReadyIssuer, RP!CallInv, RP!FollowsItsOwnOrder, RP!IssuedIsJustified,
             RP!ReportsFitTheRequest
      PROVE  CertificatesAreEntitled
  <2>1. SUFFICES ASSUME NEW c \in Requests, NEW n \in 1 .. Len(requests[c]),
                        requests[c][n].certificate # 0
                 PROVE  /\ requests[c][n].certificate <= Len(orders)
                        /\ orders[requests[c][n].certificate] = [cr |-> c, state |-> "ISSUED"]
                        /\ CheckApprovedCondition => requests[c][n].approval = "approved"
                        /\ EverReady(IssuerOf[c]) /\ EverComplete(IssuerOf[c])
    BY DEF CertificatesAreEntitled, EverReady, EverComplete
  <2> DEFINE v == requests[c][n]
             o == v.certificate
  <2>2. v \in RP!Version /\ orders \in Seq(RP!Order)
    <3>1. requests[c] \in Seq(RP!Version) /\ orders \in Seq(RP!Order)
      BY <1>1 DEF RP!CallInv, RP!TypeOK
    <3>2. QED
      BY <3>1
  <2>3. o <= Len(orders) /\ orders[o].cr = c
    BY <1>1, <2>1 DEF RP!FollowsItsOwnOrder
  <2>4. orders[o].state = "ISSUED" /\ v.ready = "Issued"
    BY <1>1, <2>1 DEF RP!IssuedIsJustified
  <2>5. o \in 1 .. Len(orders)
    BY <2>1, <2>2, <2>3 DEF RP!Version
  <2>6. orders[o] \in RP!Order
    BY <2>2, <2>5
  <2>7. orders[o] = [cr |-> c, state |-> "ISSUED"]
    BY <2>3, <2>4, <2>6 DEF RP!Order
  <2>8. CheckApprovedCondition => v.approval = "approved"
    BY <1>1, <2>4 DEF RP!ReportsFitTheRequest
  <2>9. EverReady(IssuerOf[c]) /\ EverComplete(IssuerOf[c])
    BY <1>1, <2>3, <2>5 DEF TasksNeedAReadyIssuer, EverReady, EverComplete
  <2>10. QED
    BY <2>3, <2>7, <2>8, <2>9
<1>2. RP!Spec => []RP!FollowsItsOwnOrder
  BY SameAssumptions, RP!TasksBelongToTheirRequest
<1>3. RP!Spec => []RP!IssuedIsJustified
  BY SameAssumptions, RP!CertificatesAreJustified
<1>4. RP!Spec => []RP!ReportsFitTheRequest
  BY SameAssumptions, RP!ReportsFit
<1>5. QED
  BY <1>1, <1>2, <1>3, <1>4, TasksAreEntitled, ControllersSpec, ControllersInvariance, PTL

=============================================================================
