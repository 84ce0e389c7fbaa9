--------------------- MODULE CertificateRequestLifecycle ---------------------
(***************************************************************************)
(* What the CertificateRequest controller promises, without managers,        *)
(* caches, queues or failures: the life of each request, and which task at   *)
(* essendi XC decides it.                                                    *)
(***************************************************************************)
EXTENDS Naturals, Sequences

CONSTANTS Requests, IssuerRef, CheckApprovedCondition, RejectedStates, RefusalText

VARIABLES
    request,  \* request[c]: approval, stage, the task followed, the task that issued
    orders    \* the tasks essendi XC has accepted

TaskStates == {"PROCESSING", "APPROVED", "ISSUED"} \cup RejectedStates

Open == {"undecided", "ordered", "signed"}

\* The controller may order a certificate for this request.
Eligible(c) ==
    /\ IssuerRef[c] \in {"Issuer", "ClusterIssuer"}
    /\ CheckApprovedCondition => request[c].approval = "approved"

Init ==
    /\ request = [c \in Requests |-> [approval |-> "none", stage |-> "undecided",
                                      order |-> 0, certificate |-> 0]]
    /\ orders = <<>>

Decide(c, approval) ==
    /\ request[c].approval = "none"
    /\ request[c].stage # "gone"
    /\ request' = [request EXCEPT ![c].approval = approval]
    /\ UNCHANGED orders

\* essendi XC takes a task.  It may take several for one request.
Take(c) ==
    /\ Eligible(c)
    /\ orders' = Append(orders, [cr |-> c, state |-> "PROCESSING"])
    /\ UNCHANGED request

Progress(o) ==
    /\ orders[o].state \in {"PROCESSING", "APPROVED"}
    /\ \E s \in TaskStates \ {"PROCESSING", orders[o].state} :
          orders' = [orders EXCEPT ![o].state = s]
    /\ UNCHANGED request

Moves(c, stage, order, certificate) ==
    /\ request' = [request EXCEPT ![c].stage = stage, ![c].order = order,
                                  ![c].certificate = certificate]
    /\ UNCHANGED orders

\* The request follows one of its own tasks.
Follow(c, o) ==
    /\ request[c].stage = "undecided"
    /\ Eligible(c)
    /\ request[c].approval # "denied"
    /\ orders[o].cr = c
    /\ Moves(c, "ordered", o, 0)

Sign(c) ==
    /\ request[c].stage = "ordered"
    /\ orders[request[c].order].state = "ISSUED"
    /\ Moves(c, "signed", request[c].order, 0)

Issue(c) ==
    /\ request[c].stage = "signed"
    /\ Moves(c, "issued", 0, request[c].order)

Reject(c) ==
    /\ request[c].stage = "ordered"
    /\ orders[request[c].order].state \in RejectedStates
    /\ Moves(c, "failed", 0, 0)

RejectKind(c) ==
    /\ request[c].stage = "undecided"
    /\ IssuerRef[c] = "Unregistered"
    /\ Moves(c, "failed", 0, 0)

MarkDenied(c) ==
    /\ request[c].stage \in Open
    /\ request[c].approval = "denied"
    /\ ~CheckApprovedCondition
    /\ Moves(c, "denied", 0, 0)

\* A refusal makes the controller forget the task it followed.
Forget(c) ==
    /\ RefusalText
    /\ request[c].stage \in {"ordered", "signed"}
    /\ Moves(c, "undecided", 0, 0)

Remove(c) ==
    /\ request[c].stage # "gone"
    /\ Moves(c, "gone", request[c].order, request[c].certificate)

Next ==
    \/ \E c \in Requests :
          \/ \E approval \in {"approved", "denied"} : Decide(c, approval)
          \/ Take(c) \/ Sign(c) \/ Issue(c) \/ Reject(c) \/ RejectKind(c)
          \/ MarkDenied(c) \/ Forget(c) \/ Remove(c)
          \/ \E o \in 1 .. Len(orders) : Follow(c, o)
    \/ \E o \in 1 .. Len(orders) : Progress(o)

Spec == Init /\ [][Next]_<<request, orders>>

-----------------------------------------------------------------------------
(* Properties.                                                               *)

Stages == Open \cup {"issued", "failed", "denied", "gone"}

TypeOK ==
    /\ request \in [Requests -> [approval : {"none", "approved", "denied"}, stage : Stages,
                                 order : Nat, certificate : Nat]]
    /\ orders \in Seq([cr : Requests, state : TaskStates])

OwnTask(c, o) == o \in 1 .. Len(orders) /\ orders[o].cr = c

\* A certificate comes from an issued task of that very request, which the
\* controller was allowed to order; a failed request that could be ordered had a
\* task that was rejected; Denied was denied.
OutcomesAreEarned ==
    \A c \in Requests :
        LET r == request[c] IN
        /\ r.certificate # 0 => /\ OwnTask(c, r.certificate)
                                /\ orders[r.certificate].state = "ISSUED"
                                /\ Eligible(c)
        /\ r.stage \in {"issued", "failed", "denied"} => r.order = 0
        /\ r.stage = "issued" => r.certificate # 0
        /\ r.stage = "failed" =>
              \/ IssuerRef[c] = "Unregistered"
              \/ \E o \in 1 .. Len(orders) : OwnTask(c, o) /\ orders[o].state \in RejectedStates
        /\ r.stage = "denied" => r.approval = "denied" /\ ~CheckApprovedCondition

\* A stored certificate stays, a decided request is only ever removed, a removed
\* one does not change, and a task that is followed is kept or dropped but not
\* exchanged for another one in the same step.
OutcomesStay ==
    [][\A c \in Requests :
          LET r == request[c] IN
          /\ r.certificate # 0 => request'[c].certificate = r.certificate
          /\ r.stage \in {"issued", "failed", "denied"} => request'[c].stage \in {r.stage, "gone"}
          /\ r.stage = "gone" => request'[c] = r
          /\ r.order # 0 => request'[c].order \in {0, r.order}]_<<request, orders>>

=============================================================================
