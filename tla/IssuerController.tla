-------------------------- MODULE IssuerController --------------------------
(***************************************************************************)
(* The controller that keeps the Ready condition of issuers                  *)
(* (internal/controllers/issuer_controller.go).  The program runs it twice,  *)
(* for Issuers and for ClusterIssuers; Issuers is the set one of the two     *)
(* handles.  The kind only decides in which namespace the secret is, so each *)
(* issuer here has the one secret it names.                                  *)
(*                                                                           *)
(* Issuers are watched, their secrets are not: a change of a secret is only  *)
(* noticed at the next health check.                                         *)
(***************************************************************************)
EXTENDS Naturals, Sequences

CONSTANTS
    Issuers,           \* the issuers of the kind this controller handles
    Managers,          \* the manager processes that run at the same time
    NoIssuer,          \* the issuer of an idle worker
    MaxSecretChanges,  \* bound: secrets created, changed or deleted
    MaxFaults,         \* bound: crashes, failed calls and failed health checks
    MaxTouches,        \* bound: writes of the issuer by other clients
    MaxVersions        \* bound: the versions of an issuer

ASSUME IssuerConstantsAssumption ==
    /\ NoIssuer \notin Issuers
    /\ MaxSecretChanges \in Nat
    /\ MaxFaults \in Nat
    /\ MaxTouches \in Nat
    /\ MaxVersions \in Nat \ {0}

VARIABLES
    log,         \* log[i]: the stored versions of issuer i, oldest first
    seen,        \* seen[m][i]: the version in the cache of manager m, 0 when none is
    secret,      \* secret[i]: the versions of the secret that i names, oldest first
    secretSeen,  \* secretSeen[m][i]: the version of it in the cache of manager m
    queue,       \* queue[m][i]: the work-queue entry of i in manager m
    worker,      \* worker[m]: the Reconcile call manager m is in
    changes, faults, touches  \* what the bounds count

caches == <<seen, secretSeen>>
budgets == <<changes, faults, touches>>
vars == <<log, secret, queue, worker, caches, budgets>>

-----------------------------------------------------------------------------
(* The stored objects.                                                       *)

\* since names the instant that LastTransitionTime was set to.  What is stored of an
\* instant are its seconds, so two of them may read the same; no code compares them.
Version == [status : {"absent", "Unknown", "True", "False"},
            message : {"none", "FirstSeen", "Success", "NoSecret", "CheckFailed"},
            since : Nat, deleted : BOOLEAN]

NewIssuer == [status |-> "absent", message |-> "none", since |-> 0, deleted |-> FALSE]

\* LastTransitionTime is set when the status changes.
SetReadyCondition(v, status, message) ==
    [v EXCEPT !.status = status, !.message = message,
              !.since = IF status = v.status THEN @ ELSE @ + 1]

\* A secret with every key the signer asks for is complete.
SecretStates == {"absent", "incomplete", "complete"}

Latest(i) == log[i][Len(log[i])]
Cached(m, i) == log[i][seen[m][i]]
Secret(i) == secret[i][Len(secret[i])]
CachedSecret(m, i) == secret[i][secretSeen[m][i]]

\* secretRead: the version of the secret the call has read, 0 when it has not.
Work == [pc : {"idle", "secret", "check", "update"}, issuer : Issuers \cup {NoIssuer},
         rv : Nat, obj : Version, secretRead : Nat, result : {"done", "requeue", "error"}]

Idle == [pc |-> "idle", issuer |-> NoIssuer, rv |-> 0, obj |-> NewIssuer,
         secretRead |-> 0, result |-> "done"]

Init ==
    /\ log = [i \in Issuers |-> <<NewIssuer>>]
    /\ seen = [m \in Managers |-> [i \in Issuers |-> 0]]
    /\ secret \in [Issuers -> {<<s>> : s \in SecretStates}]
    /\ secretSeen = [m \in Managers |-> [i \in Issuers |-> 1]]
    /\ queue = [m \in Managers |-> [i \in Issuers |-> "none"]]
    /\ worker = [m \in Managers |-> Idle]
    /\ changes = 0
    /\ faults = 0
    /\ touches = 0

-----------------------------------------------------------------------------
(* The other clients of the API server.                                      *)

Store(i, v) ==
    /\ ~Latest(i).deleted
    /\ Len(log[i]) < MaxVersions
    /\ log' = [log EXCEPT ![i] = Append(@, v)]

Touch(i) ==
    /\ touches < MaxTouches
    /\ touches' = touches + 1
    /\ Store(i, Latest(i))
    /\ UNCHANGED <<secret, queue, worker, caches, changes, faults>>

Delete(i) ==
    /\ Store(i, [Latest(i) EXCEPT !.deleted = TRUE])
    /\ UNCHANGED <<secret, queue, worker, caches, budgets>>

ChangeSecret(i) ==
    /\ changes < MaxSecretChanges
    /\ changes' = changes + 1
    /\ \E s \in SecretStates \ {Secret(i)} :
          secret' = [secret EXCEPT ![i] = Append(@, s)]
    /\ UNCHANGED <<log, queue, worker, caches, faults, touches>>

-----------------------------------------------------------------------------
(* Caches and work queue of a manager (controller-runtime).                  *)

Deliver(m, i) ==
    /\ seen[m][i] < Len(log[i])
    /\ seen' = [seen EXCEPT ![m][i] = @ + 1]
    /\ queue' = [queue EXCEPT ![m][i] = "ready"]
    /\ UNCHANGED <<log, secret, secretSeen, worker, budgets>>

\* Mutation: an event is applied although the cache has it already.
DeliverSecretAgain(m, i) ==
    /\ secretSeen' = [secretSeen EXCEPT ![m][i] = @ + 1]
    /\ UNCHANGED <<log, secret, seen, queue, worker, budgets>>

\* Nobody is woken: the controller watches issuers only.
DeliverSecret(m, i) ==
    /\ secretSeen[m][i] < Len(secret[i])
    /\ secretSeen' = [secretSeen EXCEPT ![m][i] = @ + 1]
    /\ UNCHANGED <<log, secret, seen, queue, worker, budgets>>

TimerFires(m, i) ==
    /\ queue[m][i] = "delayed"
    /\ queue' = [queue EXCEPT ![m][i] = "ready"]
    /\ UNCHANGED <<log, secret, worker, caches, budgets>>

-----------------------------------------------------------------------------
(* Reconcile.                                                                *)

Takes(m, i) ==
    /\ worker[m].pc = "idle"
    /\ queue[m][i] = "ready"
    /\ queue' = [queue EXCEPT ![m][i] = "none"]
    /\ UNCHANGED <<log, secret, caches, budgets>>

\* Not found: ignored.
IgnoreIssuer(m, i) ==
    /\ Takes(m, i)
    /\ Cached(m, i).deleted
    /\ UNCHANGED worker

Works(m, i, pc, obj) ==
    worker' = [worker EXCEPT ![m] =
                 [pc |-> pc, issuer |-> i, rv |-> seen[m][i], obj |-> obj,
                  secretRead |-> 0, result |-> "done"]]

FirstSeen(m, i) ==
    /\ Takes(m, i)
    /\ ~Cached(m, i).deleted
    /\ Cached(m, i).status = "absent"
    /\ Works(m, i, "update", SetReadyCondition(Cached(m, i), "Unknown", "FirstSeen"))

Inspect(m, i) ==
    /\ Takes(m, i)
    /\ ~Cached(m, i).deleted
    /\ Cached(m, i).status # "absent"
    /\ Works(m, i, "secret", Cached(m, i))

At(m, pc) ==
    /\ worker[m].pc = pc
    /\ UNCHANGED <<log, secret, queue, caches, changes, touches>>

Returns(m, status, message, result) ==
    worker' = [worker EXCEPT ![m].pc = "update", ![m].result = result,
                 ![m].obj = SetReadyCondition(@, status, message)]

\* Mutation: a missing secret is not an error.
SecretMissingIgnored(m) ==
    /\ At(m, "secret")
    /\ CachedSecret(m, worker[m].issuer) = "absent"
    /\ worker' = [worker EXCEPT ![m].pc = "check"]
    /\ UNCHANGED faults

SecretMissing(m) ==
    /\ At(m, "secret")
    /\ CachedSecret(m, worker[m].issuer) = "absent"
    /\ Returns(m, "False", "NoSecret", "error")
    /\ UNCHANGED faults

SecretFound(m) ==
    /\ At(m, "secret")
    /\ CachedSecret(m, worker[m].issuer) # "absent"
    /\ worker' = [worker EXCEPT ![m].pc = "check",
                                ![m].secretRead = secretSeen[m][worker[m].issuer]]
    /\ UNCHANGED faults

\* The checker cannot be built or its check fails.  The one the program
\* installs never does; the interface and the tests have others.
CheckFails(m) ==
    /\ At(m, "check")
    /\ faults < MaxFaults
    /\ faults' = faults + 1
    /\ Returns(m, "False", "CheckFailed", "error")

\* Mutation: the next health check is not scheduled.
CheckSucceedsForGood(m) ==
    /\ At(m, "check")
    /\ Returns(m, "True", "Success", "done")
    /\ UNCHANGED faults

CheckSucceeds(m) ==
    /\ At(m, "check")
    /\ Returns(m, "True", "Success", "requeue")
    /\ UNCHANGED faults

-----------------------------------------------------------------------------
(* The deferred status update and the end of the call.                       *)

Finish(m, again) ==
    LET i == worker[m].issuer IN
    /\ worker' = [worker EXCEPT ![m] = Idle]
    /\ queue' = IF again /\ queue[m][i] = "none"
                THEN [queue EXCEPT ![m][i] = "delayed"] ELSE queue

\* Mutation: the last writer wins.
IsCurrentOrNot(m) == TRUE

IsCurrent(m) == worker[m].rv = Len(log[worker[m].issuer])

\* An update that changes nothing stores no version and wakes nobody.
StoreStatus(m) ==
    LET i == worker[m].issuer IN
    IF worker[m].obj = Latest(i) THEN UNCHANGED log
    ELSE /\ Len(log[i]) < MaxVersions
         /\ log' = [log EXCEPT ![i] = Append(@, worker[m].obj)]

WriteStatus(m) ==
    /\ worker[m].pc = "update"
    /\ IsCurrent(m)
    /\ StoreStatus(m)
    /\ Finish(m, worker[m].result # "done")
    /\ UNCHANGED <<secret, caches, budgets>>

WriteConflict(m) ==
    /\ worker[m].pc = "update"
    /\ ~IsCurrent(m)
    /\ Finish(m, TRUE)
    /\ UNCHANGED <<log, secret, caches, budgets>>

Fault ==
    /\ faults < MaxFaults
    /\ faults' = faults + 1
    /\ UNCHANGED <<secret, changes, touches>>

WriteUnreachable(m) ==
    /\ worker[m].pc = "update"
    /\ Fault
    /\ Finish(m, TRUE)
    /\ UNCHANGED <<log, caches>>

\* The update is stored, its answer is lost.
WriteUnacknowledged(m) ==
    /\ worker[m].pc = "update"
    /\ IsCurrent(m)
    /\ Fault
    /\ StoreStatus(m)
    /\ Finish(m, TRUE)
    /\ UNCHANGED caches

\* The manager restarts and fills its caches anew, from lists that may be old.
Crash(m) ==
    /\ Fault
    /\ worker' = [worker EXCEPT ![m] = Idle]
    /\ seen' = [seen EXCEPT ![m] = [i \in Issuers |-> 0]]
    /\ secretSeen' = [secretSeen EXCEPT ![m] = [i \in Issuers |-> 1]]
    /\ queue' = [queue EXCEPT ![m] = [i \in Issuers |-> "none"]]
    /\ UNCHANGED log

-----------------------------------------------------------------------------
Environment(i) == Touch(i) \/ Delete(i) \/ ChangeSecret(i)

Informer(m, i) == Deliver(m, i) \/ DeliverSecret(m, i) \/ TimerFires(m, i)

Begin(m, i) == IgnoreIssuer(m, i) \/ FirstSeen(m, i) \/ Inspect(m, i)

Call(m) == SecretMissing(m) \/ SecretFound(m) \/ CheckFails(m) \/ CheckSucceeds(m)

End(m) ==
    \/ WriteStatus(m) \/ WriteConflict(m)
    \/ WriteUnreachable(m) \/ WriteUnacknowledged(m)

Next ==
    \/ \E i \in Issuers : Environment(i)
    \/ \E m \in Managers, i \in Issuers : Informer(m, i) \/ Begin(m, i)
    \/ \E m \in Managers : Call(m) \/ End(m) \/ Crash(m)

Spec == Init /\ [][Next]_vars

(***************************************************************************)
(* Fairness.  The runtime delivers events, keeps its caches up to date, lets *)
(* timers fire and runs the worker, whose queue is first in, first out.      *)
(***************************************************************************)
FairSpec ==
    /\ Spec
    /\ \A m \in Managers :
          /\ WF_vars(Call(m) \/ End(m))
          /\ \A i \in Issuers :
                /\ WF_vars(Deliver(m, i))
                /\ WF_vars(DeliverSecret(m, i))
                /\ WF_vars(TimerFires(m, i))
                /\ SF_vars(Begin(m, i))

-----------------------------------------------------------------------------
(* Properties.                                                               *)

\* Versions, caches, queue entries and calls are well formed.
TypeOK ==
    /\ log \in [Issuers -> Seq(Version)]
    /\ seen \in [Managers -> [Issuers -> Nat]]
    /\ secret \in [Issuers -> Seq(SecretStates)]
    /\ secretSeen \in [Managers -> [Issuers -> Nat \ {0}]]
    /\ \A m \in Managers, i \in Issuers :
          seen[m][i] <= Len(log[i]) /\ secretSeen[m][i] <= Len(secret[i])
    /\ queue \in [Managers -> [Issuers -> {"none", "delayed", "ready"}]]
    /\ worker \in [Managers -> Work]
    /\ changes \in Nat /\ faults \in Nat /\ touches \in Nat

\* Secrets are not watched and an unchanged status wakes nobody, so an issuer
\* whose health checks ever stop keeps its Ready condition for ever.  They do
\* not: it is queued, being handled, or has an event on its way.
HealthChecksGoOn ==
    \A m \in Managers, i \in Issuers :
        ~Latest(i).deleted =>
            \/ queue[m][i] # "none"
            \/ worker[m].issuer = i
            \/ seen[m][i] < Len(log[i])

\* LastTransitionTime is set anew with the status and at no other time, over all
\* stored versions, whichever of them the updates were computed from.  It is the
\* instant that is compared, not the seconds of it that are stored.
TransitionTimeIsAccurate ==
    \A i \in Issuers : \A k \in 2 .. Len(log[i]) :
        log[i][k].since = log[i][k - 1].since <=> log[i][k].status = log[i][k - 1].status

Was(versions, states) == \E n \in 1 .. Len(versions) : versions[n] \in states

\* What version v of an issuer says was found of its secret, was once so.
Justified(versions, v) ==
    /\ v.status = "True" <=> v.message = "Success"
    /\ v.status = "False" <=> v.message \in {"NoSecret", "CheckFailed"}
    /\ v.message \in {"Success", "CheckFailed"} => Was(versions, {"incomplete", "complete"})
    /\ v.message = "NoSecret" => Was(versions, {"absent"})

\* An issuer is reported Ready, or a check of it failed, only when its secret once
\* existed, and its secret is reported missing only when it once was, though the
\* issuer and its secret come from two caches and either may be behind.
ReadinessIsJustified ==
    \A i \in Issuers : \A k \in 1 .. Len(log[i]) : Justified(secret[i], log[i][k])

Successors == [absent |-> {"absent", "Unknown"}, Unknown |-> {"Unknown", "True", "False"},
               True |-> {"True", "False"}, False |-> {"True", "False"}]

\* An issuer is reported Unknown once, before anything else is reported of it; no
\* manager that still sees it without a condition does so again.
ConditionsComeInOrder ==
    \A i \in Issuers : \A k \in 2 .. Len(log[i]) :
        log[i][k].status \in Successors[log[i][k - 1].status]

\* Once its secret is left alone, an issuer that exists comes to be Ready exactly
\* when the secret exists, and stays so.
ReadyConverges ==
    \A i \in Issuers :
        <>[](Latest(i).deleted \/
             Latest(i).status = (IF Secret(i) = "absent" THEN "False" ELSE "True"))

\* "IssuerConditionReady represents the fact that a given Issuer condition is in
\* ready state and able to issue certificates" (issuer_types.go:108): an issuer
\* is reported Ready on the strength of a secret with the keys the signer needs.
ReadyIsAbleToIssue ==
    \A m \in Managers :
        worker[m].pc = "update" /\ worker[m].obj.status = "True" /\ worker[m].result = "requeue" =>
            secret[worker[m].issuer][worker[m].secretRead] = "complete"

=============================================================================
