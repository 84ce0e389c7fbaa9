# A TLA+ verification development for cert-manager-essendi-xc-issuer

The program is an external issuer for cert-manager: it has CertificateRequests
certified by an essendi XC instance.  This directory holds TLA+ models of its
controllers, the TLC configurations that check them on small instances, and
proofs of the most important properties for instances of any size.

## 1. The system

| Part | State | Operations |
|---|---|---|
| CertificateRequest controller (`internal/controllers/certificaterequest_controller.go`) | none of its own between two calls: it reads and writes the request's status | `Reconcile` |
| Issuer controllers, one for Issuers and one for ClusterIssuers (`internal/controllers/issuer_controller.go`) | likewise, the status of the issuer | `Reconcile` |
| essendi XC client (`internal/issuer/signer/signer.go`) | issuer spec and credentials for one call | token, submit, task status, fetch, health check |
| Conditions (`internal/issuer/util/util.go`, constants in `api/v1alpha1`) | the Ready condition of a request or issuer | predicates on messages, `SetReadyCondition` |
| CA extraction (`internal/controllers/pem_chain.go`) | none | search for a root in a bundle |
| Certificate authority, policies, x509 helpers (`internal/issuer/signer/{authority,policies,x509util}.go`) | none | only `parseCSR` is used by the program |
| Start-up (`main.go`) | flags | starts three controllers in one manager; leader election is off by default |
| Outside | API server, controller-runtime (informer caches, work queues), cert-manager (creates, approves, denies requests), essendi XC (tasks) | |

How they interact.  Everything goes through the API server.  A controller is
called with the name of an object when a watch event, a timer or an error
back-off says so; it reads the object from a cache that lags; it writes the whole
status back when the call ends, whatever the outcome (the deferred function), and
the API server refuses the write when the object has changed since the version
that was read.  The issuer controllers tell the request controller through the
issuer's Ready condition.  The request controller places a task at essendi XC and
**its only record of the task is the message of the request's Ready condition**,
which contains the task's URL after a fixed prefix: "Certificate request
submitted", "in progress", "approved", "Certificate is signed".  Any report that
replaces that message forgets the task.

What is hard about it:

* the task is placed before its URL is stored, so a conflict, a restart or a lost
  answer between the two leaves a task nobody follows;
* the cache may not have the status the previous call stored;
* two managers may run at once (leader election is optional, and the chart turns
  it on only for more than one replica, so a rolling update overlaps two
  managers);
* the calls that return `Result{}` go on only because their own status update
  causes an event, and an update that changes nothing causes none;
* secrets are not watched; the issuer and its secret are read from two caches, one
  after the other;
* essendi XC may be behind a proxy and name addresses that cannot be reached;
  its answers may be no JSON, or lack what is needed, without being an error;
* the URL of the task is looked for in the messages of *all* conditions, also those
  that others add while a call is in progress;
* the order of the early returns decides what is ever reported.

What makes each part correct:

* requests: a request that needs work is never forgotten; it follows one task, its
  own, until that task decides it; certificates and failures are justified by what
  essendi XC did; final states, approvals and deletions are not undone; every
  approved request is decided in the end; a denied one is marked;
* issuers: health checks never stop, the Ready condition converges to the state of
  the secret, the transition time is right;
* both together: a task is only placed for an issuer that was found ready, with
  complete credentials; a request for an issuer that is created or repaired late is
  decided;
* the exchange: calls go where the issuer said, the task stored first is found again
  until it decides the request, an issued request has the chain of its task and the
  root in it;
* the authority: no certificate outlives it.

## 2. Modules

| Module | Models |
|---|---|
| `CertificateRequestLifecycle` | what the request controller promises: the life of each request and of the tasks, without managers, caches or failures |
| `CertificateRequestController` | the request controller with its client, any number of managers, caches, queues, faults and other clients; implements the lifecycle |
| `IssuerController` | one issuer controller: readiness, secret, health check, caches, faults |
| `IssuersAndRequests` | both controllers in the managers that run them: the issuer of a request is resolved from the caches the issuer controller fills |
| `EssendiXCExchange` | the HTTP exchange for one request: addresses and their rewriting, the decoding of answers, the URL in the message and the scan that finds it; implements the lifecycle |
| `CertificateAuthority` | `Sign` and the signing policy, as operators |
| `MC...` | the constants of the small instances |
| `CertificateRequestController_proofs` | typing, consistency of calls in progress, no lost wakeups |
| `CertificateRequestOrders_proofs` | tasks, certificates, failures and progress; approvals, denials, deletions and final states are kept; what is reported fits the request; which calls place tasks; a task that was lost stays lost |
| `CertificateRequestLifecycle_proofs` | outcomes of the lifecycle are earned, and kept |
| `CertificateRequestRefinement_proofs` | the request controller implements the lifecycle, so its outcomes are earned and kept as well |
| `IssuerController_proofs` | typing, transition times, health checks, and what the conditions say of the secret |
| `IssuersAndRequests_proofs` | the composition inherits what is proved of both controllers; tasks and certificates are entitled |
| `EssendiXCExchange_proofs` | typing, addresses, the task that is followed and that no other is recorded beside it, the certificate that is stored, and the lifecycle with its outcomes |
| `CertificateAuthority_proofs` | validity and usages of certificates |

### State and actions of `CertificateRequestController`

`log[c]` is the sequence of stored versions of request `c`: its last element is the
object, an index is a resourceVersion.  A version has the approval, the state its
Ready condition tells (`ready`, with the message prefixes as states of their own),
the task whose URL is in the message (`order`, an index into `orders`; 0 when the
message has none), the task the stored certificate came from, whether `status.ca`
and `failureTime` are set, and whether the object is deleted.  `seen[m][c]` is the
version in the cache of manager `m`, `queue[m][c]` the state of the work-queue
entry (none, waiting for a timer, ready), `worker[m]` the call in progress: where
it is, its working copy, the version it was read at, the result and event so far.

`Reconcile` is cut where others can act: reading the cache (`Begin`: one action per
way the call goes up to the issuer), building the signer, each call to essendi XC
(`Call`), and the deferred status update (`End`).  `SignerUnavailable` is any of:
no issuer, issuer not ready, no secret, missing key, no token.  The answers of
essendi XC are actions of their own: a `303` with an address (`PollSigned`) only
comes for an issued task; `PollNoNews` is every answer without a usable status.
`ReturnsError` is an error return: the deferred function reports it only when its
text contains "signing refused".  No error the program builds says so, but the
texts include answers of essendi XC, so `RefusalText` decides whether one may.
`PanicOnKind` is the failing conversion to `client.Object`, recovered by
controller-runtime.  Status updates are stored, refused (`WriteConflict`), lost
before or after they take effect; an update equal to the stored object stores no
version, so it causes no event.

The lifecycle sees of a version what `Told` says: the approval, the stage, the task
followed and the task that issued.

### `IssuerController`

Built the same way; `secret[i]` is the history of the secret the issuer names, with a
cache of its own.  `since` names the instant of the LastTransitionTime; what is
stored is its second (`metav1.Now`, `util.go:51`), so two transitions may carry the
same time, but no code compares them.  A version keeps what
its condition says (`message`): first seen, success, no secret, check failed.  Since
`secret[i]` and `log[i]` are histories, a property can ask whether a report was *ever*
true (`Justified`), which is all that two lagging caches allow.

### `IssuersAndRequests`

Instances `R` and `I` of the two modules, each with its own variables.  What the two
do on their own is their action with the other's variables unchanged.  They meet
where `Reconcile` resolves the issuer of a request: `FindIssuer` and `IssuerNotReady`
read the issuer in the cache and its Ready condition, `BuildSigner` and `NoSigner`
the secret, some steps later; `found[m]` is the version of the issuer that a call
has read as ready, so that the two reads are steps of their own.  `Restart` is a
restart of the process: both controllers lose their caches and calls together.
The health check is the one the program installs, which never fails.

### `EssendiXCExchange`

One request and one issuer, with the list of conditions itself: each has a type, a
reason, a text and a URL.  `status` is stored, `behind` the statuses before it that
the cache has yet to leave, so that `Cached` may be old until each has been left
(`Deliver`).  `call.copy` is the copy that `Reconcile` reads from the cache (`Reads`),
works on and writes, `call.url` where the call in progress goes, `call.spec` the
issuer it has read, any of those the issuer has been as its cache lags too, and
`call.conflict` whether the stored request is newer than what was read: it was when
it was read, or has changed since.  The first report (`Initialise`) is read and
written in two steps as well.  The approver's condition may come before or after the
Ready condition, and during a call.  `FirstWith` is the scan of
`GetSubmittedCondition` and `GetSignedCondition` over the messages of all
conditions, `Report` is `report` (replacing the Ready condition in its place or
appending it), `Destination` the choice between submitting, polling and fetching.
`PollReplies` are the answers to a poll: its status code, whether the body is an
object of strings, another JSON value or no JSON, whether there is a `Location`;
`RequestTaskStatus` decodes them as the code does: an unreadable body gives no
status and no error.  `Rewrite` replaces scheme and host when
`ignoreHostInApiResponse` is set.  A call to `Backend`, the address that essendi XC
knows itself by, is never answered.  `ExtractCA` is the search for the first root in
the chain.

### `CertificateAuthority`

`Sign` is a function of the clock, the authority, the request and the policy: its
refusals in the order of the code, the template, the policy applied to it, and the
end of the validity cut to the authority's.

### `CertificateRequestLifecycle`

`request[c]` is what one is told of a request: its approval, the stage of its life, the
task it follows, the task its certificate came from.  `orders` are the tasks.  Besides
being what the detailed modules are shown to implement, it has properties of its
own: outcomes are earned (`OutcomesAreEarned`) and stay (`OutcomesStay`).  Both are
about `request` and `orders` only, so the refinements carry them over; the runs
check them of the request controller.

Abstracted everywhere: certificate and CSR contents, event texts, log lines, the
namespace of issuers and secrets, and the wall clock.

## 3. Runs

| Run | Instance | Shows |
|---|---|---|
| `managers` | 1 request, 2 managers, 2 tasks | typing, no lost wakeups, the recorded task is not exchanged for the other one, only approved requests are ordered, progress never goes back, approvals, deletions and final states are not undone, a task beside the recorded one comes only from a call whose update is refused, and the lifecycle is implemented |
| `faults` | fairness, 1 request, 1 manager, 2 faults, 3 tasks | under restarts and lost answers certificates and failures are justified, the lifecycle is implemented, and every approved request is decided |
| `refusals` | fairness, 1 request, 2 tasks, approved check off, texts may say "signing refused" | a report of a refusal loses the task and the request is submitted again: the lost task is not taken up by a call that still has it; outcomes are earned and stay; the lifecycle is implemented; a denied request is marked, also with a task in progress |
| `kinds` | fairness, an unregistered kind and a list kind, approved check off, 1 write by another client or resync | an unregistered kind ends Failed, a list kind never gets past the first report; denials are marked for both |
| `issuers` | fairness, 1 issuer, 2 changes of the secret, 1 fault, 1 other write | health checks never stop, the transition time is right, what is reported was once true of the secret, `Unknown` comes once and first, Ready converges |
| `issuing` | 1 request, 1 issuer, 1 manager, 1 change of the secret, 1 restart | a task is only placed for an issuer that was found ready with complete credentials, though the secret changes before, between or after the two reads; and so for the certificate that is stored |
| `repaired` | fairness, the secret is created or repaired once | a request for an issuer that is repaired late is decided |
| `exchange` | fairness, 2 addresses, 2 tasks, 1 edit of the issuer, a cache that lags, chains with no root and with two | the properties of the exchange; a second task is placed only by a call whose update is refused; `status.ca` is the first root; behind a proxy the request is decided; the lifecycle is implemented |
| `denied_checked`, `list_kind`, `incomplete_secret`, `failure_event` | | the disagreements of section 6 |

What a theorem of section 4 shows for all instances is checked on one of them, mostly
`managers`, and again only where another instance is the harder case.

Bounds. `MaxOrders` bounds the tasks essendi XC accepts: two let a request leave a
task behind, or lose it to the report of a refusal, and follow another, three leave
room for two lost ones in `faults`. `MaxFaults` bounds restarts and calls that fail
after they took effect, `MaxTouches` the writes of metadata by others and resyncs. Two
managers with one request are enough for what two workers can do to each other:
requests share nothing but a manager's worker. That a task belongs to its request is
therefore left to a theorem (`TasksBelongToTheirRequest`); a run with two requests is
too large to finish. `MaxVersions` is never reached; the number of versions is bounded
by the other limits. In `exchange` two tasks let one be placed whose `Location` is
lost, one edit lets the address or the setting change while a task is in progress;
calls may fail, and useless answers may come, any number of times. In `issuing` one
change of the secret is enough for credentials that were complete when the issuer was
found ready and are not when they are read, or the other way round, and one restart
for calls that end with what they hold. CHECK_DEADLOCK is FALSE because a system whose
requests are all decided and cached may stop.

Four runs check a specification that leaves steps out to keep the instance small.
`QuietSpec` (`refusals`) denies the request or leaves it alone: with the approved
check off an approval makes no difference, and approvals and deletions during a call
are in `managers`.  `KeptSpec` (`issuing`) keeps the issuer, and its only fault is a
restart, which both controllers share as they run in one process.
`FirstAddressSpec` (`exchange`) names the first address of the issuer, as the
addresses are alike.  `WantedSpec` (`repaired`) is explained below.

Fairness.  The runtime delivers events, fires timers and lets a call that has begun
go on (weak).  The queue is first in, first out: a request that keeps becoming ready
is taken (strong; weak fairness is not enough because another request may occupy
the worker each time).  Building the signer, and a useful answer of essendi XC, are
not prevented for ever (strong): the code retries every 15 seconds or with
back-off for exactly that reason, and without it a request of course need not be
decided.  essendi XC ends each task (weak).  Nothing is assumed of approvers,
deletions, crashes or faults.  For issuers a failed health check counts as a fault,
so it is assumed that checks do not fail for ever.

In `repaired` the fairness of building the signer is replaced: what is assumed is
only that a call which has found complete credentials is granted a token some
time.  That the issuer becomes ready, and is found so, follows from the issuer
controller.  The run's `WantedSpec` leaves out the steps that deny or delete the
request or delete its issuer.  Nothing is lost by that: the property asks nothing of a
request that is deleted, of one that was never approved, and of an issuer that does not
stay; it only keeps the instance small.

In `exchange` the cache catches up (`Deliver`, weak), and each kind of call may fail
any number of times but not always, which is stated of useful polls (`PollUseful`), of
the token, of the certificate, and of status updates that change something (strong).

## 4. Proofs

For any sets of requests, issuers and managers, any addresses and chains, and any
bounds, from the assumptions on the constants (`ConstantsAssumption`,
`IssuerConstantsAssumption`, `IssuerOfAssumption`, `ControllersAssumption`,
`ExchangeAssumption`).  They give the
types of the constants, keep the states that reject a task apart from the others,
and keep the names for "no request" and "no issuer" out of the sets:

* `TypeCorrect`, `CallsConsistent`, `NoRequestIsForgotten`.  The inductive invariant
  `CallInv` adds to the types that a queued request is in the cache, and what a call
  in progress relies on: the version it was read at is one its cache has reached and
  was not to be ignored, up to the last call to essendi XC the working copy is
  still that version, and a call that returns without asking for a retry has changed
  it.  The last part is what `NoLostWakeup` needs: the status update then either
  conflicts (and is retried) or stores a version (and causes an event).
* `OrdersSound` and its consequences `TasksBelongToTheirRequest`,
  `CertificatesAreJustified`, `FailuresAreJustified`, `TasksAreNotForgotten`,
  `ProgressNeverGoesBack`.  The first (for `FollowsItsOwnOrder`) is in no run: it says
  something only of two requests or more; the run `issuing` checks a part of it with
  `CertificatesAreEntitled`.  The properties are not inductive: they speak of stored
  versions, while the next one is being prepared in a worker.  `OrdersInv` says of
  each completed working copy what it says of stored versions, relative to the
  version it was read at; optimistic concurrency makes that the latest version when
  the copy is stored.  The tasks advance under both (`Advances`), which is why what
  was polled earlier stays true enough.
* `LostTasksAreNotFollowed` (for `LostTasksStayLost`): a task that a refusal has removed
  from the record is not recorded again.  `LostInv` says of a call that is about to
  record another task than the version it read that no version has recorded that task
  yet and that no other call is about to: a new task has a number that no version and
  no copy has yet (`OrdersInv`).  Any other copy has the task of the version it was
  read at, and is stored on that version only, so it takes up no task that later
  versions have lost.
* `DecisionsSound` and its consequences `DecisionsStay` (for `DecisionsAreFinal`) and
  `OnlyApprovedRequestsAreOrdered`.  `DecisionsInv` adds that a completed working copy
  has the approval of the version it was read at, and that an approval or denial ever
  stored is the one the request has now.  The first keeps an approval when the copy
  is stored; the second is why a call that read an old version in its cache, and
  found it approved, may place a task.
* `ReportsFit` (for `ReportsFitTheRequest`): which states a version may report, by the
  kind its issuerRef names, and that Denied comes with the failure time.  `ReportsInv`
  asks the same of completed working copies.  With the approved check on, every
  version that reports anything is approved, so Denied is never reported: the
  disagreement that `denied_checked` finds on one instance holds on all of them.
* `TasksAreNeeded` (for `TasksAreCalledFor`), an action property: a task placed for a
  request that follows one already, is denied, deleted or decided is placed by a call
  that is no longer current, and goes on to a status update, which will be refused.  A
  current call has, by `CallInv`, a copy that is the latest version, and that version
  led it to submit.
* `LifecycleInvariance`, `LifecycleTypes`, `OutcomesEarned`, `OutcomesKept`: the lifecycle
  alone, of which it is asked that the states that reject a task are none of the
  others (`LifecycleAssumption`); each model that implements it assumes that of its own
  constants.  The invariant adds that the task a request follows is its own.
* `ControllerFollowsLifecycle`: the refinement of the lifecycle. It needs the three
  invariants above and one more, `UpdatesOK`: a completed copy deletes nothing, says
  Denied only after a denial, and records a new task only of a request that was not
  denied. Each stored update is then one step of the lifecycle or none; every other
  step changes neither what the requests tell nor the tasks, except those of essendi
  XC and of the environment, which are steps of the lifecycle by themselves.
  `ControllerOutcomesEarned` and `ControllerOutcomesKept` (for `OutcomesAreEarned` and
  `OutcomesStay`) then follow from the theorems about the lifecycle, and so do
  `ExchangeOutcomesEarned` and `ExchangeOutcomesKept` from the refinement by the
  exchange.
* `IssuerInvariance`, `TypeCorrectness`, `TransitionTimes`, `HealthChecks`.  The
  inductive invariant says of a call in progress that its copy is accurate with
  respect to the version it was read at (same status and same time, or another
  status and the time of the version it will be stored as), and that a deletion is the
  last version; the health checks then go on because each call either asks to be
  repeated or stores a version.
* `ReadinessJustified`, `ConditionsInOrder` (for `ReadinessIsJustified` and
  `ConditionsComeInOrder`).  The `ReportsInv` of that module says of a call what it has
  found so far: its copy is justified, at the check the secret existed at some time,
  and a completed copy may follow the version it was read at.  No version of a secret is
  forgotten (`SecretsGrow`), so what was justified stays so; and a copy is only stored
  on the version it was read at (`VersionAdded`), so the order of the conditions
  survives several managers and stale caches.
* `TasksAreEntitled`. `TasksInv` says of each call what entitles it to place a task:
  the version of the issuer it found was ready, and, once the signer is built, that
  the secret had once been complete. Both are facts about histories, so no later
  change undoes them; that is also why nothing stronger can be said.
  `RequestsStaySafe`, `RecordsStaySafe`, `DecisionsStayTogether` and `IssuersStaySafe`
  say which theorems about each controller hold in the composition; they are used
  through instances of their proof modules. That each step of the composition is one
  of each controller or none holds by the way it is defined; the lemmas
  `RequestsAreImplemented` and `IssuersAreImplemented` state it for that use only.
  `CertificatesNeedEntitlement` joins them: the certificate of a request is from its
  own issued task, ordered for an issuer that was ready. Neither controller's model
  could say so: one has no issuers, the other no requests.
* `ExchangeInvariance`, `ExchangeTypes`, `NoCallElsewhere`, `IssuedComesWithItsRoot`,
  `OneTaskDecides`, `OneTaskIsRecorded`, `ExchangeFollowsLifecycle`.  Lemmas first reduce
  the scans over all conditions to the Ready condition: no other condition has a text
  that they look for (`ScanFinds`, `ReadyTells`), and a report replaces that one condition
  (`ReportReplaces`).  The inductive invariant `ExchangeInv` relates what is changed at
  different times: the stored status, those the cache has yet to leave
  (`VersionsGood`), the copy that is worked on, the URL in use and the task at essendi
  XC.  A call waits for an answer about what its copy records, and the copy may be
  older than what is stored.  Only of a call without a conflict is more known: while
  it waits its copy is the stored status, and what it will write may follow that
  (`Follows`).  So a task placed while another is recorded, or after the decision, is
  placed by a call that has a conflict (`SecondTaskIsRefused`).  That `status.ca` is
  the first root in the chain, with none before it, rests on the search taking the
  least position (`MinIsLeast`, `AuthorityIsARoot`).
* `CertificatesEndWithTheAuthority`, `SignedCertificatesMayHaveExpired`,
  `UsagesAreThePolicys`, for all integers as times.

Only model-checked, because liveness under fairness is out of the prover's reach:
`ApprovedIsDecided`, `DeniedIsMarked`, `UnregisteredKindIsRejected`, `ReadyConverges`,
`RepairedIssuerDecides`, `WorksBehindProxy`.

## 5. What is not claimed

A request may cost several tasks at essendi XC.  A conflict, a crash or a lost answer
after `SubmitAccepted`, two managers, or just a cache that has not caught up when
the call is repeated each lead to another task; the earlier one stays there, and may
be issued.  The program has no means to avoid it (no idempotency key, no lookup), so
no property denies it; what is shown is that the request follows exactly one of them
at a time, and that a call which places one beside it cannot record it
(`TasksAreCalledFor`, and `SecondTaskIsRefused` of the exchange).

A task may be placed for an issuer that is no longer ready, or with credentials that
have been replaced: the caches lag, and the exchange does not look at the issuer
again.  `TasksNeedAReadyIssuer` says what remains true.

Not modelled:

* the templates of custom fields and the variables of a CSR they may use, and the
  signature of a request (section 6 notes what was read there): text processing;
* answers with a relative `Location`, and messages of other controllers that begin
  with one of the four prefixes: conditions on a request are written by cert-manager
  and by this program, and cert-manager writes no such message;
* in `EssendiXCExchange` the report of refused calls, denials, several managers, and a
  restart that fills the cache again, which are in `CertificateRequestController`; a
  restart there ends the call and leaves the cache where it was;
* the granularity of the LastTransitionTime, which is stored in seconds;
* a call that is never answered: the HTTP client has no timeout, so such a call blocks
  the only worker; the models let each call end;
* the PEM helpers of `x509util.go` (decoding), and in `Sign` the failures of the random
  source and of `x509.CreateCertificate`;
* flags and namespace detection in `main.go`, generated code, the version, and the
  chart, manifests and scripts: I/O, declarations or configuration.

## 6. Where the code and its documentation disagree

* `denied_checked` (`DeniedIsMarked`): with the approved check on, which is the
  default, a denied request is left alone: the check for approval (line 119) returns
  before the code that marks it (183).  TLC shows it on one instance; by `ReportsFit` no
  instance with the check on ever reports Denied.
* `list_kind` (`UnhandledKindIsRejected`): naming `IssuerList` as the kind panics in
  the conversion at line 209; the arm meant for it (223-225) is unreachable.
* `failure_event` (`FailureEventIsWarning`): a rejected task makes the request Failed
  with a Normal event, and an error whose text does not say "signing refused" makes
  none; the tests' comments want a Warning for both.
* `incomplete_secret` (`ReadyIsAbleToIssue`): an issuer is Ready as soon as its secret
  exists, though the signer needs four keys in it.

Read in the code while modelling, and not part of a run:

* base path: the submission signs `/api/v2/csr-process/request` (`signer.go:158`) but is
  sent to the issuer's `url` with that path appended (206, 219), while a poll signs the
  whole path of its URL; for an `url` with a path of its own the two differ;
* template keys: the documentation of custom fields names `Csr.Province`, the code
  offers `State` and `Email`;
* `authority.go` refuses "to sign a certificate that expired in the past", but looks at
  the authority's end only; the theorem `SignedCertificatesMayHaveExpired` says exactly
  when a certificate that is signed has expired already: when the policy's life time is
  no longer than the backdating.

## 7. Plan

Done: the request controller and its lifecycle, the issuer controller, their
composition, the exchange with essendi XC, the certificate authority, and the proofs
of section 4, which state every invariant and every action property that the runs check.

Left, in this order: the template variables of a CSR as operators; a run with two
managers for issuers, where stale secrets let the Ready condition alternate; a model
of a worker with a deadline, should the HTTP client be given one.
