------------------ MODULE CertificateRequestLifecycle_proofs ------------------
(***************************************************************************)
(* Theorems about the lifecycle of requests.  What is proved here holds of   *)
(* every model that implements the lifecycle.                                *)
(***************************************************************************)
EXTENDS CertificateRequestLifecycle, TLAPS

\* What is asked of the constants: a task that is done or on its way is not rejected.
\* The models that implement the lifecycle assume it of theirs.
LifecycleAssumption == RejectedStates \cap {"PROCESSING", "APPROVED", "ISSUED"} = {}

Request == [approval : {"none", "approved", "denied"}, stage : Stages,
            order : Nat, certificate : Nat]
Task == [cr : Requests, state : TaskStates]

\* The inductive invariant: a request follows a task of its own while it is
\* ordered or signed, and from then on it was allowed to be ordered.
FollowsOwnTask(c) ==
    LET r == request[c] IN
    /\ r.stage \in {"ordered", "signed"} =>
          r.order # 0 /\ r.certificate = 0 /\ Eligible(c)
    /\ r.order # 0 => OwnTask(c, r.order) /\ r.stage \in {"ordered", "signed", "gone"}
    /\ r.stage = "signed" => orders[r.order].state = "ISSUED"
    /\ r.certificate # 0 => r.stage \in {"issued", "gone"}

LifecycleInv ==
    /\ TypeOK
    /\ OutcomesAreEarned
    /\ \A c \in Requests : FollowsOwnTask(c)

\* What OutcomesStay asks of a step, for one request.
KeepsOutcome(c) ==
    LET r == request[c] IN
    /\ r.certificate # 0 => request'[c].certificate = r.certificate
    /\ r.stage \in {"issued", "failed", "denied"} => request'[c].stage \in {r.stage, "gone"}
    /\ r.stage = "gone" => request'[c] = r
    /\ r.order # 0 => request'[c].order \in {0, r.order}

-----------------------------------------------------------------------------
(* Steps that change one request.                                            *)

\* What OutcomesAreEarned asks of one request.
Earned(c) ==
    LET r == request[c] IN
    /\ r.certificate # 0 => /\ OwnTask(c, r.certificate)
                            /\ orders[r.certificate].state = "ISSUED"
                            /\ Eligible(c)
    /\ r.stage \in {"issued", "failed", "denied"} => r.order = 0
    /\ r.stage = "issued" => r.certificate # 0
    /\ r.stage = "failed" =>
          \/ IssuerRef[c] = "Unregistered"
          \/ \E o \in 1 .. Len(orders) : OwnTask(c, o) /\ orders[o].state \in RejectedStates
    /\ r.stage = "denied" => r.approval = "denied" /\ ~CheckApprovedCondition

LEMMA MovesChanges ==
    ASSUME TypeOK, NEW c \in Requests, NEW stage \in Stages, NEW order \in Nat,
           NEW certificate \in Nat, Moves(c, stage, order, certificate)
    PROVE  /\ request' \in [Requests -> Request]
           /\ request'[c] = [approval |-> request[c].approval, stage |-> stage,
                             order |-> order, certificate |-> certificate]
           /\ \A d \in Requests \ {c} : request'[d] = request[d]
           /\ orders' = orders
<1> DEFINE r == request[c]
           new == [approval |-> r.approval, stage |-> stage, order |-> order,
                   certificate |-> certificate]
<1>1. r \in Request /\ request \in [Requests -> Request]
  BY DEF TypeOK, Request
<1>2. [[[r EXCEPT !.stage = stage] EXCEPT !.order = order]
          EXCEPT !.certificate = certificate] = new
  <2> DEFINE f == [r EXCEPT !.stage = stage]
             g == [f EXCEPT !.order = order]
  <2>1. f = [approval |-> r.approval, stage |-> stage, order |-> r.order,
             certificate |-> r.certificate]
    BY <1>1 DEF Request
  <2> HIDE DEF f
  <2>2. g = [approval |-> r.approval, stage |-> stage, order |-> order,
             certificate |-> r.certificate]
    BY <2>1
  <2> HIDE DEF g
  <2>3. [g EXCEPT !.certificate = certificate] = new
    BY <2>2
  <2>4. QED
    BY <2>3 DEF f, g
<1>3. new \in Request
  BY <1>1 DEF Request
<1>4. request' = [request EXCEPT ![c] = new]
  BY <1>1, <1>2 DEF Moves
<1> HIDE DEF new
<1>5. request' \in [Requests -> Request] /\ request'[c] = new
      /\ \A d \in Requests \ {c} : request'[d] = request[d]
  BY <1>1, <1>3, <1>4
<1>6. QED
  BY <1>5 DEF new, Moves

\* A request that did not change keeps what is true of it when the tasks advance:
\* none is lost, and one that has ended stays as it is.
Advance ==
    /\ orders' \in Seq(Task)
    /\ Len(orders) <= Len(orders')
    /\ \A o \in 1 .. Len(orders) :
          /\ orders'[o].cr = orders[o].cr
          /\ orders[o].state \in {"ISSUED"} \cup RejectedStates =>
                orders'[o].state = orders[o].state

LEMMA SameTasksAdvance ==
    ASSUME TypeOK, orders' = orders
    PROVE  Advance
<1>1. orders \in Seq(Task) /\ Len(orders) \in Nat
  BY DEF TypeOK, Task
<1>2. QED
  BY <1>1 DEF Advance

LEMMA UnchangedRequest ==
    ASSUME TypeOK, NEW c \in Requests, Earned(c), FollowsOwnTask(c),
           request'[c] = request[c], Advance
    PROVE  Earned(c)' /\ FollowsOwnTask(c)' /\ KeepsOutcome(c)
<1>1. Len(orders) \in Nat /\ Len(orders') \in Nat /\ Len(orders) <= Len(orders')
  BY DEF TypeOK, Advance
<1>2. \A o \in 1 .. Len(orders) : o \in 1 .. Len(orders')
  BY <1>1
<1>3. ASSUME NEW o, OwnTask(c, o)
      PROVE  OwnTask(c, o)' /\ o \in 1 .. Len(orders)
  BY <1>2, <1>3 DEF OwnTask, Advance
<1>4. Eligible(c)' <=> Eligible(c)
  BY DEF Eligible
<1>5. Earned(c)'
  <2>1. request[c].certificate # 0 =>
          OwnTask(c, request[c].certificate)' /\ orders'[request[c].certificate].state = "ISSUED"
    BY <1>3 DEF Earned, Advance
  <2>2. ASSUME NEW o \in 1 .. Len(orders), OwnTask(c, o), orders[o].state \in RejectedStates
        PROVE  OwnTask(c, o)' /\ orders'[o].state \in RejectedStates /\ o \in 1 .. Len(orders')
    BY <1>2, <1>3, <2>2 DEF Advance
  <2>3. QED
    BY <1>4, <2>1, <2>2 DEF Earned
<1>6. FollowsOwnTask(c)'
  BY <1>3, <1>4 DEF FollowsOwnTask, Advance
<1>7. KeepsOutcome(c)
  BY DEF KeepsOutcome
<1>8. QED
  BY <1>5, <1>6, <1>7

\* The step changes request c only, and leaves the tasks.
LEMMA OneRequest ==
    ASSUME LifecycleInv, NEW c \in Requests, orders' = orders,
           request' \in [Requests -> Request],
           \A d \in Requests \ {c} : request'[d] = request[d],
           Earned(c)', FollowsOwnTask(c)', KeepsOutcome(c)
    PROVE  LifecycleInv' /\ \A d \in Requests : KeepsOutcome(d)
<1>1. TypeOK' /\ Advance
  BY SameTasksAdvance DEF LifecycleInv, TypeOK, Request
<1>2. ASSUME NEW d \in Requests \ {c}
      PROVE  Earned(d)' /\ FollowsOwnTask(d)' /\ KeepsOutcome(d)
  <2>1. Earned(d) /\ FollowsOwnTask(d) /\ TypeOK
    BY DEF LifecycleInv, OutcomesAreEarned, Earned
  <2>2. QED
    BY <1>1, <2>1, UnchangedRequest
<1>3. QED
  BY <1>1, <1>2 DEF LifecycleInv, OutcomesAreEarned, Earned

LEMMA DecideStep ==
    ASSUME LifecycleInv, NEW c \in Requests, NEW approval \in {"approved", "denied"},
           Decide(c, approval)
    PROVE  LifecycleInv' /\ \A d \in Requests : KeepsOutcome(d)
<1> DEFINE r == request[c]
<1>1. r \in Request /\ request \in [Requests -> Request]
  BY DEF LifecycleInv, TypeOK, Request
<1>2. /\ request' \in [Requests -> Request] /\ orders' = orders
      /\ \A d \in Requests \ {c} : request'[d] = request[d]
      /\ request'[c] = [r EXCEPT !.approval = approval]
  BY <1>1 DEF Decide, Request
<1>3. /\ request'[c].approval = approval /\ request'[c].stage = r.stage
      /\ request'[c].order = r.order /\ request'[c].certificate = r.certificate
  BY <1>1, <1>2 DEF Request
<1>4. Earned(c) /\ FollowsOwnTask(c) /\ r.approval = "none" /\ r.stage # "gone"
  BY DEF LifecycleInv, OutcomesAreEarned, Earned, Decide
<1>5. Eligible(c) => Eligible(c)'
  BY <1>4 DEF Eligible
<1>6. \A o : OwnTask(c, o)' <=> OwnTask(c, o)
  BY <1>2 DEF OwnTask
<1>7. Earned(c)'
  BY <1>2, <1>3, <1>4, <1>5, <1>6 DEF Earned
<1>8. FollowsOwnTask(c)'
  BY <1>2, <1>3, <1>4, <1>5, <1>6 DEF FollowsOwnTask
<1>9. KeepsOutcome(c)
  BY <1>3, <1>4 DEF KeepsOutcome
<1>10. QED
  BY <1>2, <1>7, <1>8, <1>9, OneRequest

\* The moves of a request, all but the first on behalf of the controller.
LEMMA MoveStep ==
    ASSUME LifecycleInv, NEW c \in Requests,
           \/ Sign(c) \/ Issue(c) \/ Reject(c) \/ RejectKind(c)
           \/ MarkDenied(c) \/ Forget(c) \/ Remove(c)
           \/ \E o \in 1 .. Len(orders) : Follow(c, o)
    PROVE  LifecycleInv' /\ \A d \in Requests : KeepsOutcome(d)
<1> DEFINE r == request[c]
<1>1. /\ TypeOK /\ r \in Request /\ Earned(c) /\ FollowsOwnTask(c)
      /\ r.order \in Nat /\ r.certificate \in Nat /\ Len(orders) \in Nat
  BY DEF LifecycleInv, OutcomesAreEarned, Earned, TypeOK, Request
<1>2. ASSUME NEW stage \in Stages, NEW order \in Nat, NEW certificate \in Nat,
             Moves(c, stage, order, certificate),
             KeepsOutcome(c),
             Earned(c)', FollowsOwnTask(c)'
      PROVE  LifecycleInv' /\ \A d \in Requests : KeepsOutcome(d)
  BY <1>1, <1>2, MovesChanges, OneRequest
<1>3. ASSUME NEW stage \in Stages, NEW order \in Nat, NEW certificate \in Nat,
             Moves(c, stage, order, certificate)
      PROVE  /\ request'[c].approval = r.approval /\ request'[c].stage = stage
             /\ request'[c].order = order /\ request'[c].certificate = certificate
             /\ orders' = orders
             /\ Eligible(c)' <=> Eligible(c)
             /\ \A o : OwnTask(c, o)' <=> OwnTask(c, o)
  <2>1. /\ request'[c] = [approval |-> r.approval, stage |-> stage,
                          order |-> order, certificate |-> certificate]
        /\ orders' = orders
    BY <1>1, <1>3, MovesChanges
  <2>2. QED
    BY <2>1 DEF Eligible, OwnTask
<1> USE DEF Stages, Open
<1>4. CASE Sign(c)
  <2>1. Moves(c, "signed", r.order, 0) /\ r.stage = "ordered" /\ orders[r.order].state = "ISSUED"
    BY <1>4 DEF Sign
  <2>2. Earned(c)' /\ FollowsOwnTask(c)' /\ KeepsOutcome(c)
    BY <1>1, <1>3, <2>1 DEF Earned, FollowsOwnTask, KeepsOutcome
  <2>3. QED
    BY <1>1, <1>2, <2>1, <2>2
<1>5. CASE Issue(c)
  <2>1. Moves(c, "issued", 0, r.order) /\ r.stage = "signed"
    BY <1>5 DEF Issue
  <2>2. Earned(c)' /\ FollowsOwnTask(c)' /\ KeepsOutcome(c)
    BY <1>1, <1>3, <2>1 DEF Earned, FollowsOwnTask, KeepsOutcome
  <2>3. QED
    BY <1>1, <1>2, <2>1, <2>2
<1>6. CASE Reject(c)
  <2>1. /\ Moves(c, "failed", 0, 0) /\ r.stage = "ordered"
        /\ orders[r.order].state \in RejectedStates
        /\ OwnTask(c, r.order) /\ r.order \in 1 .. Len(orders)
    BY <1>1, <1>6 DEF Reject, FollowsOwnTask, OwnTask
  <2>2. Earned(c)' /\ FollowsOwnTask(c)' /\ KeepsOutcome(c)
    BY <1>1, <1>3, <2>1 DEF Earned, FollowsOwnTask, KeepsOutcome
  <2>3. QED
    BY <1>2, <2>1, <2>2
<1>7. CASE RejectKind(c)
  <2>1. Moves(c, "failed", 0, 0) /\ r.stage = "undecided" /\ IssuerRef[c] = "Unregistered"
    BY <1>7 DEF RejectKind
  <2>2. Earned(c)' /\ FollowsOwnTask(c)' /\ KeepsOutcome(c)
    BY <1>1, <1>3, <2>1 DEF Earned, FollowsOwnTask, KeepsOutcome
  <2>3. QED
    BY <1>2, <2>1, <2>2
<1>8. CASE MarkDenied(c)
  <2>1. /\ Moves(c, "denied", 0, 0) /\ r.stage \in Open
        /\ r.approval = "denied" /\ ~CheckApprovedCondition
    BY <1>8 DEF MarkDenied
  <2>2. Earned(c)' /\ FollowsOwnTask(c)' /\ KeepsOutcome(c)
    BY <1>1, <1>3, <2>1 DEF Earned, FollowsOwnTask, KeepsOutcome
  <2>3. QED
    BY <1>2, <2>1, <2>2
<1>9. CASE Forget(c)
  <2>1. Moves(c, "undecided", 0, 0) /\ r.stage \in {"ordered", "signed"}
    BY <1>9 DEF Forget
  <2>2. Earned(c)' /\ FollowsOwnTask(c)' /\ KeepsOutcome(c)
    BY <1>1, <1>3, <2>1 DEF Earned, FollowsOwnTask, KeepsOutcome
  <2>3. QED
    BY <1>2, <2>1, <2>2
<1>10. CASE Remove(c)
  <2>1. Moves(c, "gone", r.order, r.certificate) /\ r.stage # "gone"
    BY <1>10 DEF Remove
  <2>2. Earned(c)' /\ FollowsOwnTask(c)' /\ KeepsOutcome(c)
    BY <1>1, <1>3, <2>1 DEF Earned, FollowsOwnTask, KeepsOutcome
  <2>3. QED
    BY <1>1, <1>2, <2>1, <2>2
<1>11. ASSUME NEW o \in 1 .. Len(orders), Follow(c, o)
       PROVE  LifecycleInv' /\ \A d \in Requests : KeepsOutcome(d)
  <2>1. /\ Moves(c, "ordered", o, 0) /\ r.stage = "undecided" /\ Eligible(c)
        /\ OwnTask(c, o) /\ o \in Nat \ {0}
    BY <1>1, <1>11 DEF Follow, OwnTask
  <2>2. Earned(c)' /\ FollowsOwnTask(c)' /\ KeepsOutcome(c)
    BY <1>1, <1>3, <2>1 DEF Earned, FollowsOwnTask, KeepsOutcome
  <2>3. QED
    BY <1>2, <2>1, <2>2
<1>12. QED
  BY <1>4, <1>5, <1>6, <1>7, <1>8, <1>9, <1>10, <1>11

-----------------------------------------------------------------------------
(* Steps of the tasks.                                                       *)

LEMMA TasksStep ==
    ASSUME LifecycleInv, request' = request, Advance
    PROVE  LifecycleInv' /\ \A d \in Requests : KeepsOutcome(d)
<1>1. TypeOK'
  BY DEF LifecycleInv, TypeOK, Advance, Task
<1>2. ASSUME NEW d \in Requests
      PROVE  Earned(d)' /\ FollowsOwnTask(d)' /\ KeepsOutcome(d)
  <2>1. Earned(d) /\ FollowsOwnTask(d) /\ TypeOK
    BY DEF LifecycleInv, OutcomesAreEarned, Earned
  <2>2. QED
    BY <2>1, UnchangedRequest
<1>3. QED
  BY <1>1, <1>2 DEF LifecycleInv, OutcomesAreEarned, Earned

LEMMA TakeAdvances ==
    ASSUME TypeOK, NEW c \in Requests, Take(c)
    PROVE  request' = request /\ Advance
<1> DEFINE new == [cr |-> c, state |-> "PROCESSING"]
<1>1. orders \in Seq(Task) /\ new \in Task /\ orders' = Append(orders, new)
      /\ request' = request
  BY DEF TypeOK, Task, TaskStates, Take
<1> HIDE DEF new
<1>2. QED
  BY <1>1 DEF Advance

\* A task that has ended stays as it is.
LEMMA ProgressAdvances ==
    ASSUME LifecycleAssumption, TypeOK, NEW o \in 1 .. Len(orders), Progress(o)
    PROVE  request' = request /\ Advance
<1>1. orders \in Seq(Task) /\ orders[o] \in Task /\ request' = request
  <2>1. orders \in Seq(Task)
    BY DEF TypeOK, Task
  <2>2. QED
    BY <2>1 DEF Progress
<1>2. PICK s \in TaskStates : orders' = [orders EXCEPT ![o].state = s]
  BY DEF Progress
<1>3. [orders[o] EXCEPT !.state = s] \in Task /\ [orders[o] EXCEPT !.state = s].cr = orders[o].cr
  BY <1>1 DEF Task
<1>4. /\ orders' \in Seq(Task) /\ Len(orders') = Len(orders)
      /\ orders'[o] = [orders[o] EXCEPT !.state = s]
      /\ \A i \in 1 .. Len(orders) \ {o} : orders'[i] = orders[i]
  BY <1>1, <1>2, <1>3
<1>5. orders[o].state \notin {"ISSUED"} \cup RejectedStates
  BY DEF LifecycleAssumption, Progress
<1>6. QED
  <2>1. ASSUME NEW i \in 1 .. Len(orders)
        PROVE  /\ orders'[i].cr = orders[i].cr
               /\ orders[i].state \in {"ISSUED"} \cup RejectedStates =>
                     orders'[i].state = orders[i].state
    BY <1>3, <1>4, <1>5
  <2>2. Len(orders) \in Nat
    BY <1>1
  <2>3. QED
    BY <1>1, <1>4, <2>1, <2>2 DEF Advance

LEMMA LifecycleStep ==
    ASSUME LifecycleAssumption, LifecycleInv, [Next]_<<request, orders>>
    PROVE  LifecycleInv' /\ \A d \in Requests : KeepsOutcome(d)
<1>1. CASE UNCHANGED <<request, orders>>
  BY <1>1, SameTasksAdvance, TasksStep DEF LifecycleInv
<1>2. ASSUME NEW c \in Requests, Take(c)
      PROVE  LifecycleInv' /\ \A d \in Requests : KeepsOutcome(d)
  BY <1>2, TakeAdvances, TasksStep DEF LifecycleInv
<1>3. ASSUME NEW o \in 1 .. Len(orders), Progress(o)
      PROVE  LifecycleInv' /\ \A d \in Requests : KeepsOutcome(d)
  BY <1>3, ProgressAdvances, TasksStep DEF LifecycleInv
<1>4. QED
  BY <1>1, <1>2, <1>3, DecideStep, MoveStep DEF Next

-----------------------------------------------------------------------------
(* The invariant, and what follows from it.                                  *)

THEOREM LifecycleInvariance ==
    ASSUME LifecycleAssumption
    PROVE  Spec => []LifecycleInv
<1>1. Init => LifecycleInv
  BY DEF Init, LifecycleInv, TypeOK, OutcomesAreEarned, FollowsOwnTask, Stages, Open
<1>2. LifecycleInv /\ [Next]_<<request, orders>> => LifecycleInv'
  BY LifecycleStep
<1>3. QED
  BY <1>1, <1>2, PTL DEF Spec

\* Requests and tasks are well formed throughout the life of every request.
THEOREM LifecycleTypes ==
    ASSUME LifecycleAssumption
    PROVE  Spec => []TypeOK
<1>1. LifecycleInv => TypeOK
  BY DEF LifecycleInv
<1>2. QED
  BY <1>1, LifecycleInvariance, PTL

\* Certificates, failures and denials are earned: by an issued task of that request
\* which the controller was allowed to order, by a rejected one, by a denial.
THEOREM OutcomesEarned ==
    ASSUME LifecycleAssumption
    PROVE  Spec => []OutcomesAreEarned
<1>1. LifecycleInv => OutcomesAreEarned
  BY DEF LifecycleInv
<1>2. QED
  BY <1>1, LifecycleInvariance, PTL

\* No step takes a certificate or a decision back, or exchanges the task that a
\* request follows.
THEOREM OutcomesKept ==
    ASSUME LifecycleAssumption
    PROVE  Spec => OutcomesStay
<1>1. LifecycleInv /\ [Next]_<<request, orders>> =>
        [\A c \in Requests : KeepsOutcome(c)]_<<request, orders>>
  BY LifecycleStep
<1>2. QED
  BY <1>1, LifecycleInvariance, PTL DEF Spec, OutcomesStay, KeepsOutcome

=============================================================================
