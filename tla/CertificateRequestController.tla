-------------------- MODULE CertificateRequestController --------------------
(***************************************************************************)
(* The CertificateRequest controller (internal/controllers/                 *)
(* certificaterequest_controller.go) and the calls it makes to essendi XC    *)
(* (internal/issuer/signer/signer.go).                                       *)
(*                                                                           *)
(* The API server keeps every stored version of a request: log[c][v] is the  *)
(* object at resourceVersion v.  Each running manager reads requests from a  *)
(* cache that lags (seen), is told of them through a work queue with one     *)
(* entry per request, and handles one request at a time (worker).  A call    *)
(* of Reconcile is split where another process can act: at the read of the   *)
(* cache, at each call to essendi XC, and at the deferred status update.     *)
(*                                                                           *)
(* The only place where the program remembers the task it placed at          *)
(* essendi XC is the message of the request's Ready condition.               *)
(***************************************************************************)
EXTENDS Naturals, Sequences

CONSTANTS
    Requests,                \* the CertificateRequest objects
    Managers,                \* the manager processes that run at the same time
    IssuerRef,               \* what the issuerRef of each request names
    CheckApprovedCondition,  \* the flag of the same name
    RejectedStates,          \* how essendi XC may end a task without a certificate
    RefusalText,             \* may an error text of essendi XC say "signing refused"?
    NoRequest,               \* the request of an idle worker
    MaxOrders,               \* bound: tasks essendi XC accepts
    MaxFaults,               \* bound: crashes and calls that fail after they took effect
    MaxTouches               \* bound: metadata writes by other clients, and resyncs

HandledKinds == {"Issuer", "ClusterIssuer"}
RefKinds == HandledKinds \cup {"IssuerList", "Unregistered", "ForeignGroup"}

ASSUME ConstantsAssumption ==
    /\ NoRequest \notin Requests
    /\ IssuerRef \in [Requests -> RefKinds]
    /\ CheckApprovedCondition \in BOOLEAN
    /\ RejectedStates \subseteq {"DECLINED", "CANCELED", "FAILED_IN_REVIEW"}
    /\ RefusalText \in BOOLEAN
    /\ MaxOrders \in Nat
    /\ MaxFaults \in Nat
    /\ MaxTouches \in Nat

VARIABLES
    log,      \* log[c]: the stored versions of request c, oldest first
    seen,     \* seen[m][c]: the version in the cache of manager m, 0 when none is
    queue,    \* queue[m][c]: the work-queue entry of c in manager m
    worker,   \* worker[m]: the Reconcile call manager m is in
    orders,   \* the tasks essendi XC has accepted, oldest first
    faults,   \* faults so far
    touches   \* metadata writes and resyncs so far

vars == <<log, seen, queue, worker, orders, faults, touches>>

-----------------------------------------------------------------------------
(* The stored object.                                                        *)

\* What the Ready condition says: its reason, and for Pending its message.
ReadyStates == {"absent", "Initialising", "Submitted", "Processing", "Approved",
                "Signed", "Retrying", "Failed", "Denied", "Issued"}

\* order: the task whose URL is in the Ready message (0: no URL in it).
\* certificate: the task the stored certificate was fetched from (0: none).
Version == [approval : {"none", "approved", "denied"}, ready : ReadyStates,
            order : Nat, certificate : Nat, ca : BOOLEAN,
            failureTime : BOOLEAN, deleted : BOOLEAN]

NewRequest == [approval |-> "none", ready |-> "absent", order |-> 0,
               certificate |-> 0, ca |-> FALSE, failureTime |-> FALSE,
               deleted |-> FALSE]

\* report: the Ready condition is replaced, its old message is gone.
SetReady(v, ready, order) == [v EXCEPT !.ready = ready, !.order = order]

IsSubmitted(v) == v.ready \in {"Submitted", "Processing", "Approved"}
IsSigned(v) == v.ready = "Signed"
IsProcessing(v) == v.ready = "Processing"
IsApproved(v) == v.ready = "Approved"

\* Mutation: only denied requests wait for an approval.
IgnoredIfDenied(c, v) ==
    \/ v.deleted
    \/ IssuerRef[c] = "ForeignGroup"
    \/ v.ready \in {"Issued", "Failed", "Denied"}
    \/ CheckApprovedCondition /\ v.approval = "denied"

\* Mutation: the flag is not looked at.
IgnoredUnlessApproved(c, v) ==
    \/ v.deleted
    \/ IssuerRef[c] = "ForeignGroup"
    \/ v.ready \in {"Issued", "Failed", "Denied"}
    \/ v.approval # "approved"

\* The early returns: nothing is written, nothing is queued again.
Ignored(c, v) ==
    \/ v.deleted
    \/ IssuerRef[c] = "ForeignGroup"
    \/ v.ready \in {"Issued", "Failed", "Denied"}
    \/ CheckApprovedCondition /\ v.approval # "approved"

Latest(c) == log[c][Len(log[c])]
Cached(m, c) == log[c][seen[m][c]]

-----------------------------------------------------------------------------
(* Tasks at essendi XC.                                                      *)

TaskStates == {"PROCESSING", "APPROVED", "ISSUED"} \cup RejectedStates

Order == [cr : Requests, state : TaskStates]

-----------------------------------------------------------------------------
(* A Reconcile call.                                                         *)

\* obj is the working copy, rv the version it was read at; result and event
\* are what the call will return and has recorded.
Work == [pc : {"idle", "signer", "submit", "poll", "fetch", "update"},
         cr : Requests \cup {NoRequest}, rv : Nat, obj : Version,
         result : {"done", "requeue", "error"},
         event : {"none", "Normal", "Warning"}]

Idle == [pc |-> "idle", cr |-> NoRequest, rv |-> 0, obj |-> NewRequest,
         result |-> "done", event |-> "none"]

Init ==
    /\ log = [c \in Requests |-> <<NewRequest>>]
    /\ seen = [m \in Managers |-> [c \in Requests |-> 0]]
    /\ queue = [m \in Managers |-> [c \in Requests |-> "none"]]
    /\ worker = [m \in Managers |-> Idle]
    /\ orders = <<>>
    /\ faults = 0
    /\ touches = 0

-----------------------------------------------------------------------------
(* The other clients of the API server.                                      *)

Store(c, v) ==
    /\ ~Latest(c).deleted
    /\ log' = [log EXCEPT ![c] = Append(@, v)]

\* cert-manager's approver sets one of two conditions, once.
Decide(c, approval) ==
    /\ Latest(c).approval = "none"
    /\ Store(c, [Latest(c) EXCEPT !.approval = approval])
    /\ UNCHANGED <<seen, queue, worker, orders, faults, touches>>

Approve(c) == Decide(c, "approved")
Deny(c) == Decide(c, "denied")

\* Another client writes metadata: a new version, the same content.
Touch(c) ==
    /\ touches < MaxTouches
    /\ Store(c, Latest(c))
    /\ touches' = touches + 1
    /\ UNCHANGED <<seen, queue, worker, orders, faults>>

Delete(c) ==
    /\ Store(c, [Latest(c) EXCEPT !.deleted = TRUE])
    /\ UNCHANGED <<seen, queue, worker, orders, faults, touches>>

\* essendi XC moves a task on; a task that ended stays as it is.
OrderProgress(o) ==
    /\ \/ /\ orders[o].state = "PROCESSING"
          /\ \E s \in TaskStates \ {"PROCESSING"} :
                orders' = [orders EXCEPT ![o].state = s]
       \/ /\ orders[o].state = "APPROVED"
          /\ \E s \in TaskStates \ {"PROCESSING", "APPROVED"} :
                orders' = [orders EXCEPT ![o].state = s]
    /\ UNCHANGED <<log, seen, queue, worker, faults, touches>>

-----------------------------------------------------------------------------
(* Cache and work queue of a manager (controller-runtime).                   *)

\* Mutation: an event is applied although the cache has it already.
DeliverAgain(m, c) ==
    /\ seen' = [seen EXCEPT ![m][c] = @ + 1]
    /\ queue' = [queue EXCEPT ![m][c] = "ready"]
    /\ UNCHANGED <<log, worker, orders, faults, touches>>

\* The watch delivers the next version and wakes the controller.
Deliver(m, c) ==
    /\ seen[m][c] < Len(log[c])
    /\ seen' = [seen EXCEPT ![m][c] = @ + 1]
    /\ queue' = [queue EXCEPT ![m][c] = "ready"]
    /\ UNCHANGED <<log, worker, orders, faults, touches>>

\* A periodic resync wakes the controller although nothing changed.
Resync(m, c) ==
    /\ touches < MaxTouches
    /\ touches' = touches + 1
    /\ seen[m][c] > 0
    /\ queue[m][c] = "none"
    /\ queue' = [queue EXCEPT ![m][c] = "ready"]
    /\ UNCHANGED <<log, seen, worker, orders, faults>>

\* A RequeueAfter interval or an error back-off ends.
TimerFires(m, c) ==
    /\ queue[m][c] = "delayed"
    /\ queue' = [queue EXCEPT ![m][c] = "ready"]
    /\ UNCHANGED <<log, seen, worker, orders, faults, touches>>

-----------------------------------------------------------------------------
(* Reconcile, up to its first call to essendi XC.                            *)

\* The worker takes c from the queue and reads it from the cache.
Takes(m, c) ==
    /\ worker[m].pc = "idle"
    /\ queue[m][c] = "ready"
    /\ queue' = [queue EXCEPT ![m][c] = "none"]
    /\ UNCHANGED <<log, seen, orders, faults, touches>>

IgnoreRequest(m, c) ==
    /\ Takes(m, c)
    /\ Ignored(c, Cached(m, c))
    /\ UNCHANGED worker

\* Past the early returns: the deferred status update will run.
Handles(m, c) ==
    /\ Takes(m, c)
    /\ ~Ignored(c, Cached(m, c))

Works(m, c, pc, obj, result, event) ==
    worker' = [worker EXCEPT ![m] =
                 [pc |-> pc, cr |-> c, rv |-> seen[m][c], obj |-> obj,
                  result |-> result, event |-> event]]

\* Mutation: FailureTime stays unset.
MarkDeniedWithoutTime(m, c) ==
    /\ Handles(m, c)
    /\ Cached(m, c).approval = "denied"
    /\ Works(m, c, "update", SetReady(Cached(m, c), "Denied", 0), "done", "Normal")

MarkDenied(m, c) ==
    /\ Handles(m, c)
    /\ Cached(m, c).approval = "denied"
    /\ Works(m, c, "update",
             [SetReady(Cached(m, c), "Denied", 0) EXCEPT !.failureTime = TRUE],
             "done", "Normal")

Initialise(m, c) ==
    /\ Handles(m, c)
    /\ Cached(m, c).approval # "denied"
    /\ Cached(m, c).ready = "absent"
    /\ Works(m, c, "update", SetReady(Cached(m, c), "Initialising", 0), "done", "Normal")

\* Mutation: a denial after the first update is not noticed.
ProceedsIfDenied(m, c) ==
    /\ Handles(m, c)
    /\ Cached(m, c).ready # "absent"

Proceeds(m, c) ==
    /\ Handles(m, c)
    /\ Cached(m, c).approval # "denied"
    /\ Cached(m, c).ready # "absent"

\* Mutation: the kind is ignored, as the comment has it, and nothing reported.
IgnoreKind(m, c) ==
    /\ Proceeds(m, c)
    /\ IssuerRef[c] = "Unregistered"
    /\ Works(m, c, "update", Cached(m, c), "done", "Warning")

\* Scheme.New knows no such kind.
RejectKind(m, c) ==
    /\ Proceeds(m, c)
    /\ IssuerRef[c] = "Unregistered"
    /\ Works(m, c, "update", SetReady(Cached(m, c), "Failed", 0), "done", "Warning")

\* Scheme.New knows the kind, but it is no client.Object: the assertion panics,
\* the deferred update still runs and the recovered panic is an error.
PanicOnKind(m, c) ==
    /\ Proceeds(m, c)
    /\ IssuerRef[c] = "IssuerList"
    /\ Works(m, c, "update", Cached(m, c), "error", "none")

ResolveIssuer(m, c) ==
    /\ Proceeds(m, c)
    /\ IssuerRef[c] \in HandledKinds
    /\ Works(m, c, "signer", Cached(m, c), "done", "none")

-----------------------------------------------------------------------------
(* Reconcile: the issuer, its credentials and the calls to essendi XC.       *)

At(m, pc) ==
    /\ worker[m].pc = pc
    /\ UNCHANGED <<log, seen, queue, faults, touches>>

Returns(m, obj, result, event) ==
    worker' = [worker EXCEPT ![m].pc = "update", ![m].obj = obj,
                             ![m].result = result, ![m].event = event]

\* An error return.  The deferred function reports it only when the text says
\* "signing refused"; that report replaces the message with the task's URL.
ReturnsError(m) ==
    \/ Returns(m, worker[m].obj, "error", "none")
    \/ /\ RefusalText
       /\ Returns(m, SetReady(worker[m].obj, "Retrying", 0), "error", "Warning")

\* No issuer, an issuer that is not ready, no secret, a key missing from it, or
\* no access token.
SignerUnavailable(m) ==
    /\ At(m, "signer")
    /\ ReturnsError(m)
    /\ UNCHANGED orders

\* Mutation: a recorded task is not looked for.
SubmitsAgain(m) ==
    /\ At(m, "signer")
    /\ worker' = [worker EXCEPT ![m].pc =
                    IF IsSigned(worker[m].obj) THEN "fetch" ELSE "submit"]
    /\ UNCHANGED orders

SignerBuilt(m) ==
    /\ At(m, "signer")
    /\ worker' = [worker EXCEPT ![m].pc =
                    IF IsSigned(worker[m].obj) THEN "fetch"
                    ELSE IF IsSubmitted(worker[m].obj) THEN "poll" ELSE "submit"]
    /\ UNCHANGED orders

PlaceOrder(m) ==
    /\ Len(orders) < MaxOrders
    /\ orders' = Append(orders, [cr |-> worker[m].cr, state |-> "PROCESSING"])

SubmitAccepted(m) ==
    /\ At(m, "submit")
    /\ PlaceOrder(m)
    /\ Returns(m, SetReady(worker[m].obj, "Submitted", Len(orders) + 1),
               "requeue", "Normal")

\* essendi XC takes the task and the answer is lost, or names no task.
SubmitUnanswered(m) ==
    /\ worker[m].pc = "submit"
    /\ faults < MaxFaults
    /\ faults' = faults + 1
    /\ PlaceOrder(m)
    /\ Returns(m, worker[m].obj, "error", "none")
    /\ UNCHANGED <<log, seen, queue, touches>>

SubmitRejected(m) ==
    /\ At(m, "submit")
    /\ ReturnsError(m)
    /\ UNCHANGED orders

Polls(m) ==
    /\ At(m, "poll")
    /\ UNCHANGED orders

Task(m) == orders[worker[m].obj.order]

\* Mutation: an approved task is taken for an issued one.
PollSignedIfApproved(m) ==
    /\ Polls(m)
    /\ Task(m).state \in {"APPROVED", "ISSUED"}
    /\ Returns(m, SetReady(worker[m].obj, "Signed", worker[m].obj.order), "done", "Normal")

\* 303 with the address of the certificate: only for a task that was issued.
PollSigned(m) ==
    /\ Polls(m)
    /\ Task(m).state = "ISSUED"
    /\ Returns(m, SetReady(worker[m].obj, "Signed", worker[m].obj.order), "done", "Normal")

PollProgress(m) ==
    /\ Polls(m)
    /\ \/ /\ Task(m).state = "PROCESSING"
          /\ ~IsProcessing(worker[m].obj)
          /\ Returns(m, SetReady(worker[m].obj, "Processing", worker[m].obj.order),
                     "requeue", "Normal")
       \/ /\ Task(m).state = "APPROVED"
          /\ ~IsApproved(worker[m].obj)
          /\ Returns(m, SetReady(worker[m].obj, "Approved", worker[m].obj.order),
                     "requeue", "Normal")

\* Mutation: every task that is not pending is taken for a rejected one.
PollRejectedIfEnded(m) ==
    /\ Polls(m)
    /\ Task(m).state \notin {"PROCESSING", "APPROVED"}
    /\ Returns(m, SetReady(worker[m].obj, "Failed", 0), "done", "Normal")

PollRejected(m) ==
    /\ Polls(m)
    /\ Task(m).state \in RejectedStates
    /\ Returns(m, SetReady(worker[m].obj, "Failed", 0), "done", "Normal")

\* Nothing new: the recorded state again, or an answer without a status (a
\* transport error, an error page, a 303 without an address).
PollNoNews(m) ==
    /\ Polls(m)
    /\ Returns(m, worker[m].obj, "requeue", "none")

\* The recorded URL cannot be parsed.
PollFails(m) ==
    /\ Polls(m)
    /\ Returns(m, worker[m].obj, "error", "none")

FetchSucceeds(m) ==
    /\ At(m, "fetch")
    /\ \E rootInBundle \in BOOLEAN :
          Returns(m, [SetReady(worker[m].obj, "Issued", 0) EXCEPT
                        !.certificate = worker[m].obj.order,
                        !.ca = @ \/ rootInBundle],
                  "done", "Normal")
    /\ UNCHANGED orders

FetchFails(m) ==
    /\ At(m, "fetch")
    /\ ReturnsError(m)
    /\ UNCHANGED orders

-----------------------------------------------------------------------------
(* Reconcile: the deferred status update, and the end of the call.           *)

\* Mutation: the entry is dropped.
FinishForgets(m, again) ==
    /\ worker' = [worker EXCEPT ![m] = Idle]
    /\ UNCHANGED queue

\* The entry is queued again, unless an event already did.
Finish(m, again) ==
    LET c == worker[m].cr IN
    /\ worker' = [worker EXCEPT ![m] = Idle]
    /\ queue' = IF again /\ queue[m][c] = "none"
                THEN [queue EXCEPT ![m][c] = "delayed"] ELSE queue

\* Mutation: the last writer wins.
IsCurrentOrNot(m) == TRUE

\* Optimistic concurrency: only an update of the latest version is stored.
IsCurrent(m) == worker[m].rv = Len(log[worker[m].cr])

\* An update that changes nothing stores no version and wakes nobody.
StoreStatus(m) ==
    LET c == worker[m].cr IN
    log' = IF worker[m].obj = Latest(c) THEN log
           ELSE [log EXCEPT ![c] = Append(@, worker[m].obj)]

WriteStatus(m) ==
    /\ worker[m].pc = "update"
    /\ IsCurrent(m)
    /\ StoreStatus(m)
    /\ Finish(m, worker[m].result # "done")
    /\ UNCHANGED <<seen, orders, faults, touches>>

WriteConflict(m) ==
    /\ worker[m].pc = "update"
    /\ ~IsCurrent(m)
    /\ Finish(m, TRUE)
    /\ UNCHANGED <<log, seen, orders, faults, touches>>

WriteUnreachable(m) ==
    /\ worker[m].pc = "update"
    /\ faults < MaxFaults
    /\ faults' = faults + 1
    /\ Finish(m, TRUE)
    /\ UNCHANGED <<log, seen, orders, touches>>

\* The update is stored, its answer is lost.
WriteUnacknowledged(m) ==
    /\ worker[m].pc = "update"
    /\ IsCurrent(m)
    /\ faults < MaxFaults
    /\ faults' = faults + 1
    /\ StoreStatus(m)
    /\ Finish(m, TRUE)
    /\ UNCHANGED <<seen, orders, touches>>

\* The manager restarts: the call is lost and the cache is filled anew, from a
\* list that may be old.
Crash(m) ==
    /\ faults < MaxFaults
    /\ faults' = faults + 1
    /\ worker' = [worker EXCEPT ![m] = Idle]
    /\ seen' = [seen EXCEPT ![m] = [c \in Requests |-> 0]]
    /\ queue' = [queue EXCEPT ![m] = [c \in Requests |-> "none"]]
    /\ UNCHANGED <<log, orders, touches>>

-----------------------------------------------------------------------------
Environment(c) == Approve(c) \/ Deny(c) \/ Touch(c) \/ Delete(c)

Informer(m, c) == Deliver(m, c) \/ Resync(m, c) \/ TimerFires(m, c)

Begin(m, c) ==
    \/ IgnoreRequest(m, c) \/ MarkDenied(m, c) \/ Initialise(m, c)
    \/ RejectKind(m, c) \/ PanicOnKind(m, c) \/ ResolveIssuer(m, c)

PollAnswered(m) == PollSigned(m) \/ PollProgress(m) \/ PollRejected(m)

Call(m) ==
    \/ SignerUnavailable(m) \/ SignerBuilt(m)
    \/ SubmitAccepted(m) \/ SubmitUnanswered(m) \/ SubmitRejected(m)
    \/ PollAnswered(m) \/ PollNoNews(m) \/ PollFails(m)
    \/ FetchSucceeds(m) \/ FetchFails(m)

End(m) ==
    \/ WriteStatus(m) \/ WriteConflict(m)
    \/ WriteUnreachable(m) \/ WriteUnacknowledged(m)

Next ==
    \/ \E c \in Requests : Environment(c)
    \/ \E o \in 1 .. Len(orders) : OrderProgress(o)
    \/ \E m \in Managers, c \in Requests : Informer(m, c) \/ Begin(m, c)
    \/ \E m \in Managers : Call(m) \/ End(m) \/ Crash(m)

Spec == Init /\ [][Next]_vars

(***************************************************************************)
(* Fairness.  The runtime delivers events, lets timers fire and runs the     *)
(* worker; the queue is first in, first out, so an entry that keeps becoming *)
(* ready is taken.  Resolving the issuer, and the calls to essendi XC, may   *)
(* fail any number of times but not every time: the code retries them for    *)
(* that.  essendi XC ends each task.                                         *)
(***************************************************************************)
Answered(m) == SubmitAccepted(m) \/ PollAnswered(m) \/ FetchSucceeds(m)

ManagerFairness(m) ==
    /\ WF_vars(Call(m) \/ End(m))
    /\ \A c \in Requests :
          /\ WF_vars(Deliver(m, c))
          /\ WF_vars(TimerFires(m, c))
          /\ SF_vars(Begin(m, c))
    /\ \A c \in {r \in Requests : IssuerRef[r] \in HandledKinds} :
          /\ SF_vars(worker[m].cr = c /\ SignerBuilt(m))
          /\ SF_vars(worker[m].cr = c /\ Answered(m))

Fairness ==
    /\ \A m \in Managers : ManagerFairness(m)
    /\ \A o \in 1 .. MaxOrders : WF_vars(o <= Len(orders) /\ OrderProgress(o))

FairSpec == Spec /\ Fairness

-----------------------------------------------------------------------------
(* Properties.                                                               *)

\* Every stored version, working copy, queue entry and task is well formed, and
\* a queued request is in the cache of its manager.
TypeOK ==
    /\ log \in [Requests -> Seq(Version)]
    /\ \A c \in Requests : Len(log[c]) > 0
    /\ seen \in [Managers -> [Requests -> Nat]]
    /\ \A m \in Managers, c \in Requests : seen[m][c] <= Len(log[c])
    /\ queue \in [Managers -> [Requests -> {"none", "delayed", "ready"}]]
    /\ worker \in [Managers -> Work]
    /\ orders \in Seq(Order)
    /\ faults \in Nat
    /\ touches \in Nat

\* A request that still needs work is queued, being handled, or has an event on
\* its way: the early returns and the paths that return Result{} (after
\* initialising, after signing) rely on the event of their own status update.
NoLostWakeup ==
    \A m \in Managers, c \in Requests :
        ~Ignored(c, Latest(c)) =>
            \/ queue[m][c] # "none"
            \/ worker[m].cr = c
            \/ seen[m][c] < Len(log[c])

\* The task a version records, and the task its certificate came from, were
\* placed for that very request; a URL is recorded exactly while it is needed.
FollowsItsOwnOrder ==
    \A c \in Requests : \A i \in 1 .. Len(log[c]) :
        LET v == log[c][i] IN
        /\ v.order # 0 => v.order <= Len(orders) /\ orders[v.order].cr = c
        /\ v.certificate # 0 => v.certificate <= Len(orders) /\ orders[v.certificate].cr = c
        /\ v.order # 0 <=> IsSubmitted(v) \/ IsSigned(v)

\* A request is Issued, and holds a certificate, only when the task the previous
\* version recorded as signed was issued by essendi XC.
IssuedIsJustified ==
    \A c \in Requests : \A i \in 1 .. Len(log[c]) :
        LET v == log[c][i] IN
        /\ v.certificate # 0 <=> v.ready = "Issued"
        /\ v.certificate # 0 => orders[v.certificate].state = "ISSUED"
        /\ v.ready = "Issued" /\ log[c][i - 1].ready # "Issued" =>
              IsSigned(log[c][i - 1]) /\ log[c][i - 1].order = v.certificate

\* A request becomes Failed, which is final, only for a kind nobody registered
\* or because essendi XC rejected the task the version before it recorded.
FailedIsJustified ==
    \A c \in Requests : \A i \in 2 .. Len(log[c]) :
        log[c][i].ready = "Failed" /\ log[c][i - 1].ready # "Failed" =>
            \/ IssuerRef[c] = "Unregistered" /\ log[c][i - 1].order = 0
            \/ /\ log[c][i - 1].order # 0
               /\ orders[log[c][i - 1].order].state \in RejectedStates

\* A recorded task is never exchanged for another one, whatever two managers,
\* stale caches and lost updates do: it is dropped when the request is decided,
\* or by the report of a refusal.
OrderIsNotForgotten ==
    \A c \in Requests : \A i \in 2 .. Len(log[c]) :
        log[c][i - 1].order # 0 =>
            \/ log[c][i].order = log[c][i - 1].order
            \/ /\ log[c][i].order = 0
               /\ log[c][i].ready \in {"Issued", "Failed", "Denied"} \cup
                                      (IF RefusalText THEN {"Retrying"} ELSE {})

\* A task that a request has lost, to the report of a refusal, is not followed again,
\* though a call may still hold the version that recorded it and have news of it.
LostTasksStayLost ==
    \A c \in Requests : \A i, k \in 1 .. Len(log[c]) :
        i < k /\ log[c][i].order # 0 /\ log[c][k].order = log[c][i].order =>
            log[c][k - 1].order = log[c][i].order

\* With CheckApprovedCondition, essendi XC is only asked to certify requests
\* that were approved.
OnlyApprovedIsOrdered ==
    CheckApprovedCondition =>
        \A o \in 1 .. Len(orders) : Latest(orders[o].cr).approval = "approved"

\* How far a version says its task has come.
Stage(v) ==
    CASE v.ready = "Submitted" -> 1
      [] v.ready = "Processing" -> 2
      [] v.ready = "Approved" -> 3
      [] v.ready = "Signed" -> 4
      [] OTHER -> 0

\* While a request follows a task its reported progress never goes back, though
\* another manager may write a status it polled earlier.
ProgressIsMonotonic ==
    \A c \in Requests : \A i \in 2 .. Len(log[c]) :
        log[c][i].order # 0 /\ log[c][i].order = log[c][i - 1].order =>
            Stage(log[c][i - 1]) <= Stage(log[c][i])

\* No status update, whatever version it was computed from, undoes an approval,
\* a denial or a deletion, or a final condition.
DecisionsAreFinal ==
    [][\A c \in Requests :
          /\ Latest(c).approval # "none" => Latest(c)'.approval = Latest(c).approval
          /\ Latest(c).deleted => Latest(c)' = Latest(c)
          /\ Latest(c).ready \in {"Issued", "Failed", "Denied"} =>
                Latest(c)'.ready = Latest(c).ready]_vars

\* What may be reported of a request whose issuerRef names this kind.
ReportsFor(kind) ==
    CASE kind \in HandledKinds -> ReadyStates
      [] kind = "Unregistered" -> {"absent", "Initialising", "Failed", "Denied"}
      [] kind = "IssuerList" -> {"absent", "Initialising", "Denied"}
      [] OTHER -> {"absent"}

\* Requests of other groups are left alone and those of a list kind never get
\* past the first report; Denied is reported of denied requests only, with the
\* failure time; and with CheckApprovedCondition nothing is reported before the
\* approval, so that Denied never is.
ReportsFitTheRequest ==
    \A c \in Requests : \A i \in 1 .. Len(log[c]) :
        LET v == log[c][i] IN
        /\ v.ready \in ReportsFor(IssuerRef[c])
        /\ v.ready = "Denied" <=> v.failureTime
        /\ v.ready = "Denied" => v.approval = "denied"
        /\ CheckApprovedCondition /\ v.ready # "absent" => v.approval = "approved"

\* A task is placed for a request that follows one already, is decided, or was
\* denied or deleted, only by a call that works on an older version, so that the
\* status update in which this very call would record the task will be refused.
TasksAreCalledFor ==
    [][\A c \in Requests :
          /\ Len(orders') > Len(orders)
          /\ orders'[Len(orders')].cr = c
          /\ Latest(c).order # 0 \/ Ignored(c, Latest(c)) \/ Latest(c).approval = "denied"
          => \E m \in Managers :
                /\ worker[m].pc = "submit" /\ worker'[m].pc = "update"
                /\ worker[m].cr = c /\ ~IsCurrent(m)]_vars

\* What a version tells of its request's life.
Told(v) ==
    [approval |-> v.approval,
     stage |-> IF v.deleted THEN "gone"
               ELSE IF IsSubmitted(v) THEN "ordered"
               ELSE IF IsSigned(v) THEN "signed"
               ELSE IF v.ready = "Issued" THEN "issued"
               ELSE IF v.ready = "Failed" THEN "failed"
               ELSE IF v.ready = "Denied" THEN "denied"
               ELSE "undecided",
     order |-> v.order,
     certificate |-> v.certificate]

request == [c \in Requests |-> Told(Latest(c))]

\* The requests and tasks, seen without the machinery, follow the lifecycle.
Lifecycle == INSTANCE CertificateRequestLifecycle

ImplementsLifecycle == Lifecycle!Spec

\* Whatever managers, caches and refusals do on the way: a certificate comes from an
\* issued task of that very request, a failure of a request that could be ordered
\* from a rejected one, and Denied from a denial.
OutcomesAreEarned == Lifecycle!OutcomesAreEarned

\* Nor does any of it take a stored certificate or a decision back, or exchange the
\* task that is followed.
OutcomesStay == Lifecycle!OutcomesStay

\* Every approved request for an issuer of a handled kind is decided.
ApprovedIsDecided ==
    \A c \in Requests :
        (Latest(c).approval = "approved" /\ IssuerRef[c] \in HandledKinds)
            ~> (Latest(c).ready \in {"Issued", "Failed"} \/ Latest(c).deleted)

\* "If CertificateRequest has been denied, mark the CertificateRequest as
\* Ready=Denied and set FailureTime" (certificaterequest_controller.go:181).
DeniedIsMarked ==
    \A c \in Requests :
        (Latest(c).approval = "denied" /\ Latest(c).ready \notin {"Issued", "Failed"}
            /\ IssuerRef[c] # "ForeignGroup")
            ~> (Latest(c).deleted \/ Latest(c).ready \in {"Issued", "Failed"} \/
                (Latest(c).ready = "Denied" /\ Latest(c).failureTime))

\* A request that names a kind nobody registered ends Failed.
UnregisteredKindIsRejected ==
    \A c \in Requests :
        (Latest(c).approval = "approved" /\ IssuerRef[c] = "Unregistered")
            ~> (Latest(c).ready = "Failed" \/ Latest(c).deleted)

\* So does one that names "a registered Kind which is not yet handled"
\* (certificaterequest_controller.go:224).
UnhandledKindIsRejected ==
    \A c \in Requests :
        (Latest(c).approval = "approved" /\ IssuerRef[c] = "IssuerList")
            ~> (Latest(c).ready = "Failed" \/ Latest(c).deleted)

\* "if reconcileErr != nil || condition.Reason == cmapi.CertificateRequestReasonFailed
\* { expectedEventType = corev1.EventTypeWarning }"
\* (certificaterequest_controller_test.go:736).
FailureEventIsWarning ==
    \A m \in Managers :
        worker[m].pc = "update" /\ (worker[m].result = "error" \/ worker[m].obj.ready = "Failed") =>
            worker[m].event = "Warning"

=============================================================================
