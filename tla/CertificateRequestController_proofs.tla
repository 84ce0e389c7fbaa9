----------------- MODULE CertificateRequestController_proofs -----------------
(***************************************************************************)
(* Theorems about the CertificateRequest controller, for every set of        *)
(* requests and managers and every value of the bounds.                      *)
(***************************************************************************)
EXTENDS CertificateRequestController, TLAPS

\* What a Reconcile call in progress relies on: it has a request, its working
\* copy was read at a version that its cache has reached, and up to the last call
\* to essendi XC that copy is still what was read.
CallOK(m) ==
    LET w == worker[m] IN
    /\ w.pc = "idle" <=> w.cr = NoRequest
    /\ w.pc # "idle" =>
          /\ w.rv \in 1 .. seen[m][w.cr]
          /\ ~Ignored(w.cr, log[w.cr][w.rv])
    /\ w.pc \in {"signer", "submit", "poll", "fetch"} =>
          /\ w.obj = log[w.cr][w.rv]
          /\ w.obj.ready # "absent"
          /\ w.obj.approval # "denied"
          /\ IssuerRef[w.cr] \in HandledKinds
    /\ w.pc = "submit" => ~IsSubmitted(w.obj) /\ ~IsSigned(w.obj)
    /\ w.pc = "poll" => IsSubmitted(w.obj)
    /\ w.pc = "fetch" => IsSigned(w.obj)
    /\ w.pc = "update" /\ w.result = "done" => w.obj # log[w.cr][w.rv]

\* The inductive invariant behind the type invariant and NoLostWakeup.
CallInv ==
    /\ TypeOK
    /\ \A m \in Managers, c \in Requests : queue[m][c] # "none" => seen[m][c] > 0
    /\ \A m \in Managers : CallOK(m)

-----------------------------------------------------------------------------
(* Storing a version adds it and keeps the older ones.                       *)

\* The log only grows.
Grows ==
    /\ log' \in [Requests -> Seq(Version)]
    /\ \A c \in Requests :
          /\ Len(log[c]) <= Len(log'[c])
          /\ \A i \in 1 .. Len(log[c]) : log'[c][i] = log[c][i]

\* An appended version is the last one, and only its request has changed.
LEMMA AppendVersion ==
    ASSUME TypeOK, NEW c \in Requests, NEW v \in Version,
           log' = [log EXCEPT ![c] = Append(@, v)]
    PROVE  /\ Grows
           /\ Len(log'[c]) = Len(log[c]) + 1
           /\ log'[c][Len(log[c]) + 1] = v
           /\ \A d \in Requests \ {c} : log'[d] = log[d]
<1>1. log \in [Requests -> Seq(Version)] /\ log[c] \in Seq(Version)
  BY DEF TypeOK
<1>2. log'[c] = Append(log[c], v) /\ \A d \in Requests \ {c} : log'[d] = log[d]
  BY <1>1
<1>3. /\ Append(log[c], v) \in Seq(Version)
      /\ Len(Append(log[c], v)) = Len(log[c]) + 1
      /\ Append(log[c], v)[Len(log[c]) + 1] = v
      /\ \A i \in 1 .. Len(log[c]) : Append(log[c], v)[i] = log[c][i]
  BY <1>1
<1>4. log' \in [Requests -> Seq(Version)]
  BY <1>1, <1>3
<1>5. \A d \in Requests : Len(log[d]) \in Nat
  BY <1>1
<1>6. QED
  BY <1>2, <1>3, <1>4, <1>5 DEF Grows

\* A log that is left alone grows, by nothing.
LEMMA KeepVersions ==
    ASSUME TypeOK, log' = log
    PROVE  Grows
<1>1. \A c \in Requests : Len(log[c]) \in Nat
  BY DEF TypeOK
<1>2. QED
  BY <1>1 DEF Grows, TypeOK

\* The status update stores the working copy, or nothing when nothing changed.
LEMMA StoreStatusStores ==
    ASSUME TypeOK, NEW m \in Managers, worker[m].cr \in Requests, StoreStatus(m)
    PROVE  /\ Grows
           /\ \A d \in Requests \ {worker[m].cr} : log'[d] = log[d]
           /\ \/ log' = log /\ worker[m].obj = Latest(worker[m].cr)
              \/ /\ Len(log'[worker[m].cr]) = Len(log[worker[m].cr]) + 1
                 /\ log'[worker[m].cr][Len(log[worker[m].cr]) + 1] = worker[m].obj
<1>1. worker[m].obj \in Version
  BY DEF TypeOK, Work
<1>2. CASE worker[m].obj = Latest(worker[m].cr)
  <2>1. log' = log
    BY <1>2 DEF StoreStatus
  <2>2. QED
    BY <1>2, <2>1, KeepVersions
<1>3. CASE worker[m].obj # Latest(worker[m].cr)
  <2>1. log' = [log EXCEPT ![worker[m].cr] = Append(@, worker[m].obj)]
    BY <1>3 DEF StoreStatus
  <2>2. QED
    BY <1>1, <2>1, AppendVersion
<1>4. QED
  BY <1>2, <1>3

-----------------------------------------------------------------------------
(* The inductive invariant holds initially and is preserved.                 *)

LEMMA IdleTyped == Idle \in Work /\ NewRequest \in Version
  BY DEF Idle, Work, NewRequest, Version, ReadyStates

\* Reading the cache of a queued request is well defined.
LEMMA CachedTyped ==
    ASSUME TypeOK, NEW m \in Managers, NEW c \in Requests, seen[m][c] > 0
    PROVE  seen[m][c] \in 1 .. Len(log[c]) /\ Cached(m, c) \in Version
<1>1. seen[m][c] \in 1 .. Len(log[c]) /\ log[c] \in Seq(Version)
  BY DEF TypeOK
<1>2. QED
  BY <1>1 DEF Cached

\* The request of a call in progress is one of the requests.
LEMMA CallHasRequest ==
    ASSUME CallInv, NEW m \in Managers, worker[m].pc # "idle"
    PROVE  /\ worker[m].cr \in Requests
           /\ worker[m].rv \in 1 .. Len(log[worker[m].cr])
<1>1. worker[m].cr \in Requests /\ CallOK(m)
  BY DEF CallInv, TypeOK, Work, CallOK
<1>2. worker[m].rv \in 1 .. seen[m][worker[m].cr]
  BY <1>1 DEF CallOK
<1>3. /\ seen[m][worker[m].cr] \in Nat /\ Len(log[worker[m].cr]) \in Nat
      /\ seen[m][worker[m].cr] <= Len(log[worker[m].cr])
  BY <1>1 DEF CallInv, TypeOK
<1>4. QED
  BY <1>1, <1>2, <1>3

\* A call goes on undisturbed by steps that only add versions, to the log or to
\* the cache.
LEMMA CallUndisturbed ==
    ASSUME CallInv, NEW n \in Managers, Grows, worker'[n] = worker[n],
           \A c \in Requests : seen'[n][c] \in Nat /\ seen[n][c] <= seen'[n][c]
    PROVE  CallOK(n)'
<1>1. CASE worker[n].pc = "idle"
  BY <1>1 DEF CallInv, CallOK
<1>2. CASE worker[n].pc # "idle"
  <2>1. /\ worker[n].cr \in Requests
        /\ worker[n].rv \in 1 .. Len(log[worker[n].cr])
    BY <1>2, CallHasRequest
  <2>2. log'[worker[n].cr][worker[n].rv] = log[worker[n].cr][worker[n].rv]
    BY <2>1 DEF Grows
  <2>3. CallOK(n) /\ worker[n].rv \in 1 .. seen[n][worker[n].cr]
    BY <1>2 DEF CallInv, CallOK
  <2>4. worker[n].rv \in 1 .. seen'[n][worker[n].cr]
    BY <2>1, <2>3 DEF CallInv, TypeOK
  <2>5. QED
    BY <1>2, <2>2, <2>3, <2>4 DEF CallOK
<1>3. QED
  BY <1>1, <1>2

\* Steps of the other clients and of essendi XC.
LEMMA EnvironmentKeepsCallInv ==
    ASSUME CallInv, Grows, UNCHANGED <<seen, queue, worker>>,
           orders' \in Seq(Order), faults' \in Nat, touches' \in Nat
    PROVE  CallInv'
<1>1. \A n \in Managers : CallOK(n)'
  BY CallUndisturbed DEF CallInv, TypeOK
<1>2. \A c \in Requests : Len(log[c]) \in Nat /\ Len(log'[c]) \in Nat
  BY DEF CallInv, TypeOK, Grows
<1>3. TypeOK'
  BY <1>2 DEF CallInv, TypeOK, Grows
<1>4. QED
  BY <1>1, <1>3 DEF CallInv

LEMMA StoreGrows ==
    ASSUME TypeOK, NEW c \in Requests, NEW v \in Version, Store(c, v)
    PROVE  Grows
  BY AppendVersion DEF Store

LEMMA LatestTyped ==
    ASSUME TypeOK, NEW c \in Requests
    PROVE  Len(log[c]) \in Nat \ {0} /\ Latest(c) \in Version
<1>1. log[c] \in Seq(Version) /\ Len(log[c]) > 0
  BY DEF TypeOK
<1>2. QED
  BY <1>1 DEF Latest

LEMMA EnvironmentStep ==
    ASSUME CallInv, NEW c \in Requests, Environment(c)
    PROVE  CallInv'
<1>1. Latest(c) \in Version
  BY LatestTyped DEF CallInv
<1>2. CASE Touch(c)
  <2>1. Grows
    BY <1>1, <1>2, StoreGrows DEF CallInv, Touch
  <2>2. QED
    BY <1>2, <2>1, EnvironmentKeepsCallInv DEF Touch, CallInv, TypeOK
<1>3. ASSUME NEW a \in {"approved", "denied"}, Decide(c, a)
      PROVE  CallInv'
  <2>1. [Latest(c) EXCEPT !.approval = a] \in Version
    BY <1>1 DEF Version
  <2>2. Grows
    BY <1>3, <2>1, StoreGrows DEF CallInv, Decide
  <2>3. QED
    BY <1>3, <2>2, EnvironmentKeepsCallInv DEF Decide, CallInv, TypeOK
<1>4. CASE Delete(c)
  <2>1. [Latest(c) EXCEPT !.deleted = TRUE] \in Version
    BY <1>1 DEF Version
  <2>2. Grows
    BY <1>4, <2>1, StoreGrows DEF CallInv, Delete
  <2>3. QED
    BY <1>4, <2>2, EnvironmentKeepsCallInv DEF Delete, CallInv, TypeOK
<1>5. QED
  BY <1>2, <1>3, <1>4 DEF Environment, Approve, Deny

\* A step of a task keeps the tasks before and after it.
LEMMA OrderProgressChanges ==
    ASSUME TypeOK, NEW o \in 1 .. Len(orders), OrderProgress(o)
    PROVE  /\ orders' \in Seq(Order)
           /\ Len(orders') = Len(orders)
           /\ \A i \in 1 .. Len(orders) :
                 /\ orders'[i].cr = orders[i].cr
                 /\ orders[i].state \in {"ISSUED"} \cup RejectedStates =>
                       orders'[i].state = orders[i].state
                 /\ orders[i].state # "PROCESSING" => orders'[i].state # "PROCESSING"
<1>1. PICK s \in TaskStates \ {"PROCESSING"} : orders' = [orders EXCEPT ![o].state = s]
  BY DEF OrderProgress
<1>2. orders \in Seq(Order) /\ orders[o] \in Order
  BY DEF TypeOK
<1>3. [orders[o] EXCEPT !.state = s] \in Order
  BY <1>1, <1>2 DEF Order
<1>4. orders' = [orders EXCEPT ![o] = [orders[o] EXCEPT !.state = s]]
  BY <1>1, <1>2
<1>5. orders' \in Seq(Order) /\ Len(orders') = Len(orders)
  BY <1>2, <1>3, <1>4
<1>6. \A i \in 1 .. Len(orders) : orders'[i].cr = orders[i].cr
  BY <1>2, <1>4 DEF Order
<1>7. orders[o].state \in {"PROCESSING", "APPROVED"}
  BY DEF OrderProgress
<1>8. {"PROCESSING", "APPROVED"} \cap ({"ISSUED"} \cup RejectedStates) = {}
  BY ConstantsAssumption
<1>9. QED
  BY <1>2, <1>4, <1>5, <1>6, <1>7, <1>8 DEF Order

LEMMA OrderProgressStep ==
    ASSUME CallInv, NEW o \in 1 .. Len(orders), OrderProgress(o)
    PROVE  CallInv'
<1>1. orders' \in Seq(Order)
  BY OrderProgressChanges DEF CallInv
<1>2. Grows
  BY KeepVersions DEF OrderProgress, CallInv
<1>3. QED
  BY <1>1, <1>2, EnvironmentKeepsCallInv DEF OrderProgress, CallInv, TypeOK

\* The cache and the queue move; no call does.
LEMMA InformerStep ==
    ASSUME CallInv, NEW m \in Managers, NEW c \in Requests, Informer(m, c)
    PROVE  CallInv'
<1>1. Grows /\ UNCHANGED <<log, worker, orders, faults>> /\ touches' \in Nat
  BY KeepVersions DEF CallInv, TypeOK, Informer, Deliver, Resync, TimerFires
<1>2. queue' = [queue EXCEPT ![m][c] = "ready"]
  BY DEF Informer, Deliver, Resync, TimerFires
<1>3. seen[m][c] \in Nat /\ \A d \in Requests : Len(log[d]) \in Nat
  BY DEF CallInv, TypeOK
<1>4. /\ seen' \in [Managers -> [Requests -> Nat]]
      /\ \A n \in Managers, d \in Requests :
            seen[n][d] <= seen'[n][d] /\ seen'[n][d] <= Len(log[d])
      /\ seen'[m][c] > 0
  <2>1. CASE Deliver(m, c)
    <3>1. seen' = [seen EXCEPT ![m][c] = @ + 1] /\ seen[m][c] < Len(log[c])
      BY <2>1 DEF Deliver
    <3>2. seen' \in [Managers -> [Requests -> Nat]]
      BY <3>1 DEF CallInv, TypeOK
    <3>3. \A n \in Managers, d \in Requests :
            seen'[n][d] = IF n = m /\ d = c THEN seen[m][c] + 1 ELSE seen[n][d]
      BY <3>1 DEF CallInv, TypeOK
    <3>4. QED
      BY <1>3, <3>1, <3>2, <3>3 DEF CallInv, TypeOK
  <2>2. CASE Resync(m, c)
    BY <2>2 DEF CallInv, TypeOK, Resync
  <2>3. CASE TimerFires(m, c)
    BY <2>3 DEF CallInv, TypeOK, TimerFires
  <2>4. QED
    BY <2>1, <2>2, <2>3 DEF Informer
<1>5. /\ queue' \in [Managers -> [Requests -> {"none", "delayed", "ready"}]]
      /\ \A n \in Managers, d \in Requests : queue'[n][d] # "none" => seen'[n][d] > 0
  <2>1. queue' \in [Managers -> [Requests -> {"none", "delayed", "ready"}]]
    BY <1>2 DEF CallInv, TypeOK
  <2>2. \A n \in Managers, d \in Requests :
          queue'[n][d] = IF n = m /\ d = c THEN "ready" ELSE queue[n][d]
    BY <1>2 DEF CallInv, TypeOK
  <2>3. \A n \in Managers, d \in Requests : seen[n][d] \in Nat /\ seen'[n][d] \in Nat
    BY <1>4 DEF CallInv, TypeOK
  <2>4. ASSUME NEW n \in Managers, NEW d \in Requests, queue'[n][d] # "none"
        PROVE  seen'[n][d] > 0
    <3>1. CASE n = m /\ d = c
      BY <1>4, <3>1
    <3>2. CASE ~(n = m /\ d = c)
      <4>1. queue[n][d] # "none"
        BY <2>2, <2>4, <3>2
      <4>2. seen[n][d] > 0 /\ seen[n][d] <= seen'[n][d]
        BY <1>4, <4>1 DEF CallInv
      <4>3. QED
        BY <2>3, <4>2
    <3>3. QED
      BY <3>1, <3>2
  <2>5. QED
    BY <2>1, <2>4
<1>6. ASSUME NEW n \in Managers
      PROVE  CallOK(n)'
  <2>1. worker'[n] = worker[n]
    BY <1>1
  <2>2. \A d \in Requests : seen'[n][d] \in Nat /\ seen[n][d] <= seen'[n][d]
    BY <1>4
  <2>3. QED
    BY <1>1, <2>1, <2>2, CallUndisturbed
<1>7. TypeOK'
  BY <1>1, <1>4, <1>5 DEF CallInv, TypeOK
<1>8. QED
  BY <1>5, <1>6, <1>7 DEF CallInv

\* A step of manager m that changes its call and takes or adds queue entries,
\* when its call is in order afterwards.
LEMMA ManagerKeepsCallInv ==
    ASSUME CallInv, NEW m \in Managers, Grows, UNCHANGED seen,
           worker' \in [Managers -> Work],
           \A n \in Managers \ {m} : worker'[n] = worker[n],
           queue' \in [Managers -> [Requests -> {"none", "delayed", "ready"}]],
           \A n \in Managers, d \in Requests : queue'[n][d] # "none" => seen[n][d] > 0,
           orders' \in Seq(Order), faults' \in Nat, touches' \in Nat,
           CallOK(m)'
    PROVE  CallInv'
<1>1. ASSUME NEW n \in Managers \ {m}
      PROVE  CallOK(n)'
  <2>1. \A d \in Requests : seen'[n][d] \in Nat /\ seen[n][d] <= seen'[n][d]
    BY DEF CallInv, TypeOK
  <2>2. QED
    BY <2>1, CallUndisturbed
<1>2. \A c \in Requests : Len(log[c]) \in Nat /\ Len(log'[c]) \in Nat
  BY DEF CallInv, TypeOK, Grows
<1>3. TypeOK'
  BY <1>2 DEF CallInv, TypeOK, Grows
<1>4. QED
  BY <1>1, <1>3 DEF CallInv

\* What the first part of Reconcile may do with the version it read.
LEMMA BeginStarts ==
    ASSUME CallInv, NEW m \in Managers, NEW c \in Requests, Begin(m, c)
    PROVE  /\ Takes(m, c)
           /\ \/ Ignored(c, Cached(m, c)) /\ UNCHANGED worker
              \/ /\ ~Ignored(c, Cached(m, c))
                 /\ \E pc \in {"signer", "update"}, obj \in Version,
                       result \in {"done", "error"}, event \in {"none", "Normal", "Warning"} :
                       /\ Works(m, c, pc, obj, result, event)
                       /\ pc = "signer" => /\ obj = Cached(m, c)
                                           /\ obj.ready # "absent"
                                           /\ obj.approval # "denied"
                                           /\ IssuerRef[c] \in HandledKinds
                       /\ pc = "update" /\ result = "done" => obj # Cached(m, c)
<1> DEFINE v == Cached(m, c)
<1>1. Takes(m, c)
  BY DEF Begin, IgnoreRequest, MarkDenied, Initialise, RejectKind, PanicOnKind,
         ResolveIssuer, Proceeds, Handles
<1>2. v \in Version
  BY <1>1, CachedTyped DEF CallInv, Takes
<1>3. CASE IgnoreRequest(m, c)
  BY <1>1, <1>3 DEF IgnoreRequest
<1>4. CASE MarkDenied(m, c)
  <2>1. ~Ignored(c, v) /\ v.ready # "Denied"
    BY <1>4 DEF MarkDenied, Handles, Ignored
  <2> DEFINE w == [SetReady(v, "Denied", 0) EXCEPT !.failureTime = TRUE]
  <2>2. w \in Version /\ w.ready = "Denied"
    BY <1>2 DEF SetReady, Version, ReadyStates
  <2>3. Works(m, c, "update", w, "done", "Normal")
    BY <1>4 DEF MarkDenied
  <2>4. w # v
    BY <2>1, <2>2
  <2> HIDE DEF w, v
  <2>5. QED
    BY <1>1, <2>1, <2>2, <2>3, <2>4 DEF v
<1>5. CASE Initialise(m, c)
  <2>1. ~Ignored(c, v) /\ v.ready = "absent"
    BY <1>5 DEF Initialise, Handles
  <2> DEFINE w == SetReady(v, "Initialising", 0)
  <2>2. w \in Version /\ w.ready = "Initialising"
    BY <1>2 DEF SetReady, Version, ReadyStates
  <2>3. Works(m, c, "update", w, "done", "Normal")
    BY <1>5 DEF Initialise
  <2> HIDE DEF w, v
  <2>4. QED
    BY <1>1, <2>1, <2>2, <2>3 DEF v
<1>6. CASE RejectKind(m, c)
  <2>1. ~Ignored(c, v) /\ v.ready # "Failed"
    BY <1>6 DEF RejectKind, Proceeds, Handles, Ignored
  <2> DEFINE w == SetReady(v, "Failed", 0)
  <2>2. w \in Version /\ w.ready = "Failed"
    BY <1>2 DEF SetReady, Version, ReadyStates
  <2>3. Works(m, c, "update", w, "done", "Warning")
    BY <1>6 DEF RejectKind
  <2> HIDE DEF w, v
  <2>4. QED
    BY <1>1, <2>1, <2>2, <2>3 DEF v
<1>7. CASE PanicOnKind(m, c)
  BY <1>1, <1>2, <1>7 DEF PanicOnKind, Proceeds, Handles
<1>8. CASE ResolveIssuer(m, c)
  BY <1>1, <1>2, <1>8 DEF ResolveIssuer, Proceeds, Handles
<1>9. QED
  BY <1>3, <1>4, <1>5, <1>6, <1>7, <1>8 DEF Begin

\* Only the worker of the manager that calls Reconcile is taken.
LEMMA WorksChanges ==
    ASSUME CallInv, NEW m \in Managers, NEW c, NEW pc, NEW obj, NEW result, NEW event,
           Works(m, c, pc, obj, result, event)
    PROVE  /\ worker'[m] = [pc |-> pc, cr |-> c, rv |-> seen[m][c], obj |-> obj,
                            result |-> result, event |-> event]
           /\ \A n \in Managers \ {m} : worker'[n] = worker[n]
<1> DEFINE w == [pc |-> pc, cr |-> c, rv |-> seen[m][c], obj |-> obj,
                 result |-> result, event |-> event]
<1>1. worker' = [worker EXCEPT ![m] = w] /\ DOMAIN worker = Managers
  BY DEF Works, CallInv, TypeOK
<1> HIDE DEF w
<1>2. worker'[m] = w /\ \A n \in Managers \ {m} : worker'[n] = worker[n]
  BY <1>1
<1>3. QED
  BY <1>2 DEF w

LEMMA BeginLeavesOthers ==
    ASSUME CallInv, NEW m \in Managers, NEW c \in Requests, Begin(m, c)
    PROVE  \A n \in Managers \ {m} : worker'[n] = worker[n]
<1>1. CASE UNCHANGED worker
  BY <1>1
<1>2. ASSUME NEW pc, NEW obj, NEW result, NEW event, Works(m, c, pc, obj, result, event)
      PROVE  \A n \in Managers \ {m} : worker'[n] = worker[n]
  BY <1>2, WorksChanges
<1>3. \/ UNCHANGED worker
      \/ \E pc, obj, result, event : Works(m, c, pc, obj, result, event)
  BY BeginStarts
<1>4. QED
  BY <1>1, <1>2, <1>3

LEMMA BeginStep ==
    ASSUME CallInv, NEW m \in Managers, NEW c \in Requests, Begin(m, c)
    PROVE  CallInv'
<1>1. Takes(m, c)
  BY BeginStarts
<1>2. Grows
  BY <1>1, KeepVersions DEF CallInv, Takes
<1>3. /\ queue' \in [Managers -> [Requests -> {"none", "delayed", "ready"}]]
      /\ \A n \in Managers, d \in Requests : queue'[n][d] # "none" => seen[n][d] > 0
  BY <1>1 DEF CallInv, TypeOK, Takes
<1>4. seen[m][c] \in 1 .. Len(log[c])
  BY <1>1, CachedTyped DEF CallInv, Takes
<1>5. CASE UNCHANGED worker
  <2>1. CallOK(m)'
    BY <1>1, <1>2, <1>5, CallUndisturbed DEF CallInv, TypeOK, Takes
  <2>2. QED
    BY <1>1, <1>2, <1>3, <1>5, <2>1, ManagerKeepsCallInv DEF CallInv, TypeOK, Takes
<1>6. ASSUME ~Ignored(c, Cached(m, c)),
             NEW pc \in {"signer", "update"}, NEW obj \in Version,
             NEW result \in {"done", "error"}, NEW event \in {"none", "Normal", "Warning"},
             Works(m, c, pc, obj, result, event),
             pc = "signer" => /\ obj = Cached(m, c)
                              /\ obj.ready # "absent"
                              /\ obj.approval # "denied"
                              /\ IssuerRef[c] \in HandledKinds,
             pc = "update" /\ result = "done" => obj # Cached(m, c)
      PROVE  CallInv'
  <2> DEFINE w == [pc |-> pc, cr |-> c, rv |-> seen[m][c], obj |-> obj,
                   result |-> result, event |-> event]
  <2>1. w \in Work
    BY <1>4 DEF CallInv, TypeOK, Work
  <2>2. worker' = [worker EXCEPT ![m] = w]
    BY <1>6 DEF Works
  <2> HIDE DEF w
  <2>3. /\ worker' \in [Managers -> Work]
        /\ worker'[m] = w
        /\ \A n \in Managers \ {m} : worker'[n] = worker[n]
    BY <2>1, <2>2 DEF CallInv, TypeOK
  <2>4. seen' = seen /\ log' = log
    BY <1>1 DEF Takes
  <2>5. c # NoRequest
    BY ConstantsAssumption
  <2>6. CallOK(m)'
    BY <1>4, <1>6, <2>3, <2>4, <2>5 DEF CallOK, Cached, w
  <2>7. QED
    BY <1>1, <1>2, <1>3, <2>3, <2>4, <2>6, ManagerKeepsCallInv DEF CallInv, TypeOK, Takes
<1>7. QED
  BY <1>5, <1>6, BeginStarts

\* Returning changes the outcome of the call, and nothing else of it.
LEMMA ReturnsChanges ==
    ASSUME TypeOK, NEW m \in Managers, NEW obj \in Version,
           NEW result \in {"done", "requeue", "error"},
           NEW event \in {"none", "Normal", "Warning"},
           Returns(m, obj, result, event)
    PROVE  /\ worker' \in [Managers -> Work]
           /\ worker'[m] = [pc |-> "update", cr |-> worker[m].cr, rv |-> worker[m].rv,
                            obj |-> obj, result |-> result, event |-> event]
           /\ \A n \in Managers \ {m} : worker'[n] = worker[n]
<1> DEFINE w == [pc |-> "update", cr |-> worker[m].cr, rv |-> worker[m].rv,
                 obj |-> obj, result |-> result, event |-> event]
<1>1. worker \in [Managers -> Work] /\ worker[m] \in Work
  BY DEF TypeOK
<1>2. w \in Work
  BY <1>1 DEF Work
<1>3. worker'[m] = w
  BY <1>1 DEF Returns, Work
<1>4. \A n \in Managers \ {m} : worker'[n] = worker[n]
  BY <1>1 DEF Returns
<1>5. worker' = [n \in Managers |-> worker'[n]]
  BY <1>1 DEF Returns
<1> HIDE DEF w
<1>6. worker' \in [Managers -> Work]
  BY <1>1, <1>2, <1>3, <1>4, <1>5
<1>7. QED
  BY <1>3, <1>4, <1>6 DEF w

\* The outcomes of the part of Reconcile that talks to essendi XC: from the
\* working copy read at the start to the one that will be stored.
Outcome(m, obj, result, event) ==
    /\ obj \in Version
    /\ result \in {"done", "requeue", "error"}
    /\ event \in {"none", "Normal", "Warning"}
    /\ Returns(m, obj, result, event)
    /\ result = "done" => obj # worker[m].obj

LEMMA OutcomeChanges ==
    ASSUME CallInv, NEW m \in Managers, NEW obj, NEW result, NEW event,
           Outcome(m, obj, result, event)
    PROVE  /\ worker' \in [Managers -> Work]
           /\ worker'[m] = [pc |-> "update", cr |-> worker[m].cr, rv |-> worker[m].rv,
                            obj |-> obj, result |-> result, event |-> event]
           /\ \A n \in Managers \ {m} : worker'[n] = worker[n]
<1>1. /\ TypeOK /\ obj \in Version /\ result \in {"done", "requeue", "error"}
      /\ event \in {"none", "Normal", "Warning"} /\ Returns(m, obj, result, event)
  BY DEF CallInv, Outcome
<1>2. QED
  BY <1>1, ReturnsChanges

LEMMA ErrorOutcome ==
    ASSUME CallInv, NEW m \in Managers, ReturnsError(m)
    PROVE  \E obj, result, event : Outcome(m, obj, result, event)
<1>1. worker[m].obj \in Version
  BY DEF CallInv, TypeOK, Work
<1>2. SetReady(worker[m].obj, "Retrying", 0) \in Version
  BY <1>1 DEF SetReady, Version, ReadyStates
<1>3. QED
  BY <1>1, <1>2 DEF ReturnsError, Outcome

\* Tasks are only added.
LEMMA PlaceOrderAdds ==
    ASSUME TypeOK, NEW m \in Managers, worker[m].cr \in Requests, PlaceOrder(m)
    PROVE  /\ orders' \in Seq(Order)
           /\ Len(orders') = Len(orders) + 1
           /\ \A i \in 1 .. Len(orders) : orders'[i] = orders[i]
           /\ orders'[Len(orders) + 1] = [cr |-> worker[m].cr, state |-> "PROCESSING"]
<1> DEFINE t == [cr |-> worker[m].cr, state |-> "PROCESSING"]
<1>1. t \in Order /\ orders \in Seq(Order) /\ orders' = Append(orders, t)
  BY DEF TypeOK, Order, TaskStates, PlaceOrder
<1> HIDE DEF t
<1>2. QED
  BY <1>1 DEF t

LEMMA CallOutcome ==
    ASSUME CallInv, NEW m \in Managers, Call(m)
    PROVE  /\ UNCHANGED <<log, seen, queue, touches>>
           /\ worker[m].pc \in {"signer", "submit", "poll", "fetch"}
           /\ orders' \in Seq(Order) /\ faults' \in Nat
           /\ SignerBuilt(m) \/ \E obj, result, event : Outcome(m, obj, result, event)
<1> DEFINE v == worker[m].obj
<1>1. /\ v \in Version /\ CallOK(m)
      /\ orders \in Seq(Order) /\ Len(orders) \in Nat /\ faults \in Nat
  BY DEF CallInv, TypeOK, Work
<1>2. \A r \in ReadyStates, o \in Nat :
        SetReady(v, r, o) \in Version /\ SetReady(v, r, o).ready = r
  BY <1>1 DEF SetReady, Version
<1>3. worker[m].pc # "idle" => worker[m].cr \in Requests
  BY CallHasRequest
<1>4. CASE SignerUnavailable(m)
  BY <1>1, <1>4, ErrorOutcome DEF SignerUnavailable, At
<1>5. CASE SignerBuilt(m)
  BY <1>1, <1>5 DEF SignerBuilt, At
<1>6. CASE SubmitAccepted(m)
  <2>1. Outcome(m, SetReady(v, "Submitted", Len(orders) + 1), "requeue", "Normal")
    BY <1>1, <1>2, <1>6 DEF SubmitAccepted, Outcome, ReadyStates
  <2>2. orders' \in Seq(Order)
    BY <1>3, <1>6, PlaceOrderAdds DEF SubmitAccepted, At, CallInv
  <2>3. QED
    BY <1>1, <1>6, <2>1, <2>2 DEF SubmitAccepted, At
<1>7. CASE SubmitUnanswered(m)
  <2>1. Outcome(m, v, "error", "none")
    BY <1>1, <1>7 DEF SubmitUnanswered, Outcome
  <2>2. orders' \in Seq(Order)
    BY <1>3, <1>7, PlaceOrderAdds DEF SubmitUnanswered, CallInv
  <2>3. QED
    BY <1>1, <1>7, <2>1, <2>2 DEF SubmitUnanswered
<1>8. CASE SubmitRejected(m)
  BY <1>1, <1>8, ErrorOutcome DEF SubmitRejected, At
<1>9. CASE PollSigned(m)
  <2>1. v.ready # "Signed" /\ v.order \in Nat
    BY <1>1, <1>9 DEF PollSigned, Polls, At, CallOK, IsSubmitted, Version
  <2>2. Outcome(m, SetReady(v, "Signed", v.order), "done", "Normal")
    BY <1>2, <1>9, <2>1 DEF PollSigned, Outcome, ReadyStates
  <2>3. QED
    BY <1>1, <1>9, <2>2 DEF PollSigned, Polls, At
<1>10. CASE PollProgress(m)
  <2>1. v.order \in Nat
    BY <1>1 DEF Version
  <2>2. \/ Outcome(m, SetReady(v, "Processing", v.order), "requeue", "Normal")
        \/ Outcome(m, SetReady(v, "Approved", v.order), "requeue", "Normal")
    BY <1>2, <1>10, <2>1 DEF PollProgress, Outcome, ReadyStates
  <2>3. QED
    BY <1>1, <1>10, <2>2 DEF PollProgress, Polls, At
<1>11. CASE PollRejected(m)
  <2>1. v.ready # "Failed"
    BY <1>1, <1>11 DEF PollRejected, Polls, At, CallOK, IsSubmitted
  <2>2. Outcome(m, SetReady(v, "Failed", 0), "done", "Normal")
    BY <1>2, <1>11, <2>1 DEF PollRejected, Outcome, ReadyStates
  <2>3. QED
    BY <1>1, <1>11, <2>2 DEF PollRejected, Polls, At
<1>12. CASE PollNoNews(m)
  <2>1. Outcome(m, v, "requeue", "none")
    BY <1>1, <1>12 DEF PollNoNews, Outcome
  <2>2. QED
    BY <1>1, <1>12, <2>1 DEF PollNoNews, Polls, At
<1>13. CASE PollFails(m)
  <2>1. Outcome(m, v, "error", "none")
    BY <1>1, <1>13 DEF PollFails, Outcome
  <2>2. QED
    BY <1>1, <1>13, <2>1 DEF PollFails, Polls, At
<1>14. CASE FetchSucceeds(m)
  <2>1. PICK root \in BOOLEAN :
          Returns(m, [SetReady(v, "Issued", 0) EXCEPT !.certificate = v.order,
                                                      !.ca = @ \/ root],
                  "done", "Normal")
    BY <1>14 DEF FetchSucceeds
  <2> DEFINE w == [SetReady(v, "Issued", 0) EXCEPT !.certificate = v.order,
                                                   !.ca = @ \/ root]
  <2>2. w \in Version /\ w.ready = "Issued"
    BY <1>1 DEF SetReady, Version, ReadyStates
  <2>3. v.ready = "Signed"
    BY <1>1, <1>14 DEF FetchSucceeds, At, CallOK, IsSigned
  <2>4. Outcome(m, w, "done", "Normal")
    BY <2>1, <2>2, <2>3 DEF Outcome
  <2>5. QED
    BY <1>1, <1>14, <2>4 DEF FetchSucceeds, At
<1>15. CASE FetchFails(m)
  BY <1>1, <1>15, ErrorOutcome DEF FetchFails, At
<1>16. QED
  BY <1>4, <1>5, <1>6, <1>7, <1>8, <1>9, <1>10, <1>11, <1>12, <1>13, <1>14, <1>15
  DEF Call, PollAnswered

LEMMA CallStep ==
    ASSUME CallInv, NEW m \in Managers, Call(m)
    PROVE  CallInv'
<1>1. /\ UNCHANGED <<log, seen, queue, touches>>
      /\ worker[m].pc \in {"signer", "submit", "poll", "fetch"}
      /\ orders' \in Seq(Order) /\ faults' \in Nat
  BY CallOutcome
<1>2. Grows /\ CallOK(m)
  BY <1>1, KeepVersions DEF CallInv
<1>3. CASE SignerBuilt(m)
  <2> DEFINE pc == IF IsSigned(worker[m].obj) THEN "fetch"
                   ELSE IF IsSubmitted(worker[m].obj) THEN "poll" ELSE "submit"
             w == [worker[m] EXCEPT !.pc = pc]
  <2>1. worker' = [worker EXCEPT ![m] = w] /\ worker[m].pc = "signer"
    BY <1>3 DEF SignerBuilt, At
  <2>2. /\ w \in Work /\ w.pc = pc /\ w.cr = worker[m].cr /\ w.rv = worker[m].rv
        /\ w.obj = worker[m].obj
    <3>1. worker[m] \in Work
      BY DEF CallInv, TypeOK
    <3>2. pc \in {"fetch", "poll", "submit"}
      OBVIOUS
    <3> HIDE DEF pc
    <3>3. QED
      BY <3>1, <3>2 DEF Work
  <2> HIDE DEF w
  <2>3. /\ worker' \in [Managers -> Work]
        /\ worker'[m] = w
        /\ \A n \in Managers \ {m} : worker'[n] = worker[n]
    BY <2>1, <2>2 DEF CallInv, TypeOK
  <2>4. CallOK(m)'
    BY <1>1, <1>2, <2>1, <2>2, <2>3 DEF CallOK
  <2>5. QED
    BY <1>1, <1>2, <2>3, <2>4, ManagerKeepsCallInv DEF CallInv, TypeOK
<1>4. ASSUME NEW obj, NEW result, NEW event, Outcome(m, obj, result, event)
      PROVE  CallInv'
  <2>1. /\ worker' \in [Managers -> Work]
        /\ worker'[m] = [pc |-> "update", cr |-> worker[m].cr, rv |-> worker[m].rv,
                         obj |-> obj, result |-> result, event |-> event]
        /\ \A n \in Managers \ {m} : worker'[n] = worker[n]
    BY <1>4, OutcomeChanges
  <2>2. CallOK(m)'
    BY <1>1, <1>2, <1>4, <2>1 DEF CallOK, Outcome
  <2>3. QED
    BY <1>1, <1>2, <2>1, <2>2, ManagerKeepsCallInv DEF CallInv, TypeOK
<1>5. QED
  BY <1>3, <1>4, CallOutcome

\* The end of a call frees the worker; the request is queued again when asked.
LEMMA FinishFrees ==
    ASSUME CallInv, NEW m \in Managers, NEW again \in BOOLEAN,
           worker[m].pc # "idle", Finish(m, again)
    PROVE  /\ worker' = [worker EXCEPT ![m] = Idle]
           /\ queue' \in [Managers -> [Requests -> {"none", "delayed", "ready"}]]
           /\ \A n \in Managers, d \in Requests :
                 queue'[n][d] # "none" => seen[n][d] > 0
           /\ \A n \in Managers, d \in Requests :
                 queue[n][d] # "none" => queue'[n][d] # "none"
           /\ again => queue'[m][worker[m].cr] # "none"
<1> DEFINE c == worker[m].cr
<1>1. c \in Requests
  BY CallHasRequest
<1>2. seen[m][c] > 0
  <2>1. worker[m].rv \in 1 .. seen[m][c] /\ seen[m][c] \in Nat
    BY <1>1 DEF CallInv, CallOK, TypeOK
  <2>2. QED
    BY <2>1
<1>3. queue \in [Managers -> [Requests -> {"none", "delayed", "ready"}]]
  BY DEF CallInv, TypeOK
<1>4. worker' = [worker EXCEPT ![m] = Idle]
  BY DEF Finish
<1>5. CASE again /\ queue[m][c] = "none"
  <2>1. queue' = [queue EXCEPT ![m][c] = "delayed"]
    BY <1>5 DEF Finish
  <2> HIDE DEF c
  <2>2. \A n \in Managers, d \in Requests :
          queue'[n][d] = IF n = m /\ d = c THEN "delayed" ELSE queue[n][d]
    BY <1>1, <1>3, <2>1
  <2>3. queue' \in [Managers -> [Requests -> {"none", "delayed", "ready"}]]
    BY <1>1, <1>3, <2>1
  <2>4. QED
    BY <1>1, <1>2, <1>4, <2>2, <2>3 DEF CallInv, c
<1>6. CASE ~(again /\ queue[m][c] = "none")
  <2>1. queue' = queue
    BY <1>6 DEF Finish
  <2>2. QED
    BY <1>3, <1>4, <1>6, <2>1 DEF CallInv
<1>7. QED
  BY <1>5, <1>6

\* What the four ways to end a call have in common.
LEMMA EndEffect ==
    ASSUME CallInv, NEW m \in Managers, End(m)
    PROVE  /\ worker[m].pc = "update" /\ worker[m].cr \in Requests
           /\ UNCHANGED <<seen, orders, touches>> /\ faults' \in Nat
           /\ Grows
           /\ \A d \in Requests \ {worker[m].cr} : log'[d] = log[d]
           /\ \/ log' = log
              \/ /\ IsCurrent(m)
                 /\ Len(log'[worker[m].cr]) = Len(log[worker[m].cr]) + 1
                 /\ log'[worker[m].cr][Len(log[worker[m].cr]) + 1] = worker[m].obj
           /\ \/ Finish(m, TRUE)
              \/ /\ Finish(m, worker[m].result # "done")
                 /\ worker[m].result = "done" => log' # log
<1>1. worker[m].pc = "update" /\ worker[m].cr \in Requests
  <2>1. worker[m].pc = "update"
    BY DEF End, WriteStatus, WriteConflict, WriteUnreachable, WriteUnacknowledged
  <2>2. QED
    BY <2>1, CallHasRequest
<1>2. faults \in Nat /\ TypeOK /\ CallOK(m)
  BY DEF CallInv, TypeOK
<1>3. CASE WriteStatus(m)
  <2>1. StoreStatus(m) /\ IsCurrent(m)
    BY <1>3 DEF WriteStatus
  <2>2. worker[m].result = "done" => worker[m].obj # Latest(worker[m].cr)
    BY <1>1, <1>2, <2>1 DEF CallOK, IsCurrent, Latest
  <2>3. worker[m].obj # Latest(worker[m].cr) => log' # log
    BY <1>1, <1>2, <2>1, AppendVersion DEF StoreStatus, TypeOK, Work
  <2>4. QED
    BY <1>1, <1>2, <1>3, <2>1, <2>2, <2>3, StoreStatusStores DEF WriteStatus
<1>4. CASE WriteConflict(m)
  <2>1. log' = log /\ Finish(m, TRUE)
    BY <1>4 DEF WriteConflict
  <2>2. Grows
    BY <1>2, <2>1, KeepVersions
  <2>3. UNCHANGED <<seen, orders, touches>> /\ faults' \in Nat
    BY <1>2, <1>4 DEF WriteConflict
  <2>4. QED
    BY <1>1, <2>1, <2>2, <2>3
<1>5. CASE WriteUnreachable(m)
  <2>1. log' = log /\ Finish(m, TRUE)
    BY <1>5 DEF WriteUnreachable
  <2>2. Grows
    BY <1>2, <2>1, KeepVersions
  <2>3. UNCHANGED <<seen, orders, touches>> /\ faults' \in Nat
    BY <1>2, <1>5 DEF WriteUnreachable
  <2>4. QED
    BY <1>1, <2>1, <2>2, <2>3
<1>6. CASE WriteUnacknowledged(m)
  <2>1. StoreStatus(m) /\ IsCurrent(m) /\ Finish(m, TRUE)
    BY <1>6 DEF WriteUnacknowledged
  <2>2. /\ Grows
        /\ \A d \in Requests \ {worker[m].cr} : log'[d] = log[d]
        /\ \/ log' = log
           \/ /\ Len(log'[worker[m].cr]) = Len(log[worker[m].cr]) + 1
              /\ log'[worker[m].cr][Len(log[worker[m].cr]) + 1] = worker[m].obj
    BY <1>1, <1>2, <2>1, StoreStatusStores
  <2>3. UNCHANGED <<seen, orders, touches>> /\ faults' \in Nat
    BY <1>2, <1>6 DEF WriteUnacknowledged
  <2>4. QED
    BY <1>1, <2>1, <2>2, <2>3
<1>7. QED
  BY <1>3, <1>4, <1>5, <1>6 DEF End

LEMMA IdleCallOK ==
    ASSUME NEW m \in Managers, worker'[m] = Idle
    PROVE  CallOK(m)'
  BY DEF CallOK, Idle

LEMMA EndStep ==
    ASSUME CallInv, NEW m \in Managers, End(m)
    PROVE  CallInv'
<1>1. /\ worker[m].pc = "update" /\ Grows
      /\ UNCHANGED <<seen, orders, touches>> /\ faults' \in Nat
  BY EndEffect
<1>2. PICK again \in BOOLEAN : Finish(m, again)
  BY EndEffect
<1>3. /\ worker' = [worker EXCEPT ![m] = Idle]
      /\ queue' \in [Managers -> [Requests -> {"none", "delayed", "ready"}]]
      /\ \A n \in Managers, d \in Requests : queue'[n][d] # "none" => seen[n][d] > 0
  BY <1>1, <1>2, FinishFrees
<1>4. /\ worker' \in [Managers -> Work]
      /\ worker'[m] = Idle
      /\ \A n \in Managers \ {m} : worker'[n] = worker[n]
  BY <1>3, IdleTyped DEF CallInv, TypeOK
<1>5. CallOK(m)'
  BY <1>4, IdleCallOK
<1>6. QED
  BY <1>1, <1>3, <1>4, <1>5, ManagerKeepsCallInv DEF CallInv, TypeOK

LEMMA CrashStep ==
    ASSUME CallInv, NEW m \in Managers, Crash(m)
    PROVE  CallInv'
<1>1. /\ worker' \in [Managers -> Work]
      /\ worker'[m] = Idle
      /\ \A n \in Managers \ {m} : worker'[n] = worker[n]
  BY IdleTyped DEF CallInv, TypeOK, Crash
<1>2. /\ seen' \in [Managers -> [Requests -> Nat]]
      /\ \A d \in Requests : seen'[m][d] = 0
      /\ \A n \in Managers \ {m} : seen'[n] = seen[n]
  BY DEF CallInv, TypeOK, Crash
<1>3. /\ queue' \in [Managers -> [Requests -> {"none", "delayed", "ready"}]]
      /\ \A d \in Requests : queue'[m][d] = "none"
      /\ \A n \in Managers \ {m} : queue'[n] = queue[n]
  BY DEF CallInv, TypeOK, Crash
<1>4. Grows /\ UNCHANGED <<log, orders, touches>> /\ faults' \in Nat
  BY KeepVersions DEF CallInv, TypeOK, Crash
<1>5. ASSUME NEW n \in Managers
      PROVE  CallOK(n)'
  <2>1. CASE n = m
    BY <1>1, <2>1, IdleCallOK
  <2>2. CASE n # m
    <3>1. \A d \in Requests : seen'[n][d] \in Nat /\ seen[n][d] <= seen'[n][d]
      BY <1>2, <2>2 DEF CallInv, TypeOK
    <3>2. QED
      BY <1>1, <1>4, <2>2, <3>1, CallUndisturbed
  <2>3. QED
    BY <2>1, <2>2
<1>6. \A n \in Managers, d \in Requests : seen'[n][d] <= Len(log'[d])
  <2>1. \A d \in Requests : Len(log[d]) \in Nat
    BY DEF CallInv, TypeOK
  <2>2. log' = log /\ \A n \in Managers, d \in Requests : seen[n][d] <= Len(log[d])
    BY <1>4 DEF CallInv, TypeOK
  <2>3. ASSUME NEW n \in Managers, NEW d \in Requests
        PROVE  seen'[n][d] = 0 \/ seen'[n][d] = seen[n][d]
    BY <1>2
  <2>4. QED
    BY <2>1, <2>2, <2>3
<1>7. TypeOK'
  BY <1>1, <1>2, <1>3, <1>4, <1>6 DEF CallInv, TypeOK
<1>8. \A n \in Managers, d \in Requests : queue'[n][d] # "none" => seen'[n][d] > 0
  BY <1>2, <1>3 DEF CallInv
<1>9. QED
  BY <1>5, <1>7, <1>8 DEF CallInv

LEMMA CallInvInit == Init => CallInv
<1> SUFFICES ASSUME Init PROVE CallInv
  OBVIOUS
<1>1. NewRequest \in Version /\ Idle \in Work
  BY IdleTyped
<1>2. <<NewRequest>> \in Seq(Version) /\ Len(<<NewRequest>>) = 1
  BY <1>1
<1>3. TypeOK
  BY <1>1, <1>2 DEF Init, TypeOK
<1>4. \A m \in Managers : CallOK(m)
  BY DEF Init, CallOK, Idle
<1>5. QED
  BY <1>3, <1>4 DEF Init, CallInv

LEMMA CallInvNext == CallInv /\ [Next]_vars => CallInv'
<1> SUFFICES ASSUME CallInv, [Next]_vars
             PROVE  CallInv'
  OBVIOUS
<1>1. ASSUME NEW c \in Requests, Environment(c)
      PROVE  CallInv'
  BY <1>1, EnvironmentStep
<1>2. ASSUME NEW o \in 1 .. Len(orders), OrderProgress(o)
      PROVE  CallInv'
  BY <1>2, OrderProgressStep
<1>3. ASSUME NEW m \in Managers, NEW c \in Requests, Informer(m, c)
      PROVE  CallInv'
  BY <1>3, InformerStep
<1>4. ASSUME NEW m \in Managers, NEW c \in Requests, Begin(m, c)
      PROVE  CallInv'
  BY <1>4, BeginStep
<1>5. ASSUME NEW m \in Managers, Call(m)
      PROVE  CallInv'
  BY <1>5, CallStep
<1>6. ASSUME NEW m \in Managers, End(m)
      PROVE  CallInv'
  BY <1>6, EndStep
<1>7. ASSUME NEW m \in Managers, Crash(m)
      PROVE  CallInv'
  BY <1>7, CrashStep
<1>8. CASE UNCHANGED vars
  BY <1>8 DEF vars, CallInv, TypeOK, CallOK
<1>9. QED
  BY <1>1, <1>2, <1>3, <1>4, <1>5, <1>6, <1>7, <1>8 DEF Next

\* Calls in progress stay consistent with the cache and the log: the inductive
\* invariant of the controller.
THEOREM CallsConsistent == Spec => []CallInv
<1>1. QED
  BY CallInvInit, CallInvNext, PTL DEF Spec

\* The type invariant: stored versions, caches, queues, calls and tasks are well
\* formed at every step of any number of managers.
THEOREM TypeCorrect == Spec => []TypeOK
<1>1. CallInv => TypeOK
  BY DEF CallInv
<1>2. QED
  BY <1>1, CallsConsistent, PTL

-----------------------------------------------------------------------------
(* No lost wakeups.                                                          *)

\* Manager n will look at request d again, or is looking at it.
Awake(n, d) ==
    \/ queue[n][d] # "none"
    \/ worker[n].cr = d
    \/ seen[n][d] < Len(log[d])

\* A step that leaves the latest version of a request alone, and takes no entry
\* and frees no worker, puts nobody to sleep.
LEMMA StaysAwake ==
    ASSUME NoLostWakeup, NEW n \in Managers, NEW d \in Requests,
           log'[d] = log[d],
           Awake(n, d) => Awake(n, d)',
           ~Ignored(d, Latest(d)')
    PROVE  Awake(n, d)'
  BY DEF NoLostWakeup, Awake, Latest

\* An event is on its way to a manager that has not seen the version just stored.
LEMMA EventOnItsWay ==
    ASSUME CallInv, NEW n \in Managers, NEW d \in Requests,
           Len(log'[d]) = Len(log[d]) + 1, seen'[n][d] = seen[n][d]
    PROVE  Awake(n, d)'
<1>1. /\ seen[n][d] \in Nat /\ Len(log[d]) \in Nat
      /\ seen[n][d] <= Len(log[d])
  BY DEF CallInv, TypeOK
<1>2. QED
  BY <1>1 DEF Awake

LEMMA EnvironmentGrows ==
    ASSUME CallInv, NEW c \in Requests, Environment(c)
    PROVE  /\ UNCHANGED <<seen, queue, worker, orders, faults>>
           /\ Len(log'[c]) = Len(log[c]) + 1
           /\ \A d \in Requests \ {c} : log'[d] = log[d]
<1>1. Latest(c) \in Version
  BY LatestTyped DEF CallInv
<1>2. /\ [Latest(c) EXCEPT !.deleted = TRUE] \in Version
      /\ \A a \in {"approved", "denied"} : [Latest(c) EXCEPT !.approval = a] \in Version
  BY <1>1 DEF Version
<1>3. \E v \in Version : Store(c, v)
  BY <1>1, <1>2 DEF Environment, Approve, Deny, Decide, Touch, Delete
<1>4. UNCHANGED <<seen, queue, worker, orders, faults>>
  BY DEF Environment, Approve, Deny, Decide, Touch, Delete
<1>5. QED
  BY <1>3, <1>4, AppendVersion DEF Store, CallInv

LEMMA CallKeepsRequest ==
    ASSUME CallInv, NEW m \in Managers, Call(m), NEW n \in Managers
    PROVE  worker'[n].cr = worker[n].cr
<1>1. CASE SignerBuilt(m)
  BY <1>1 DEF SignerBuilt, CallInv, TypeOK, Work
<1>2. ASSUME NEW obj, NEW result, NEW event, Outcome(m, obj, result, event)
      PROVE  worker'[n].cr = worker[n].cr
  <2>1. /\ worker'[m] = [pc |-> "update", cr |-> worker[m].cr, rv |-> worker[m].rv,
                         obj |-> obj, result |-> result, event |-> event]
        /\ \A k \in Managers \ {m} : worker'[k] = worker[k]
    BY <1>2, OutcomeChanges
  <2>2. CASE n = m
    BY <2>1, <2>2
  <2>3. CASE n # m
    BY <2>1, <2>3
  <2>4. QED
    BY <2>2, <2>3
<1>3. QED
  BY <1>1, <1>2, CallOutcome

LEMMA BeginKeepsAwake ==
    ASSUME CallInv, NoLostWakeup, NEW m \in Managers, NEW c \in Requests, Begin(m, c),
           NEW n \in Managers, NEW d \in Requests, ~Ignored(d, Latest(d)')
    PROVE  Awake(n, d)'
<1>1. Takes(m, c)
  BY BeginStarts
<1>2. log' = log /\ seen' = seen /\ worker[m].pc = "idle"
  BY <1>1 DEF Takes
<1>3. Latest(d)' = Latest(d) /\ log'[d] = log[d]
  BY <1>2 DEF Latest
<1>4. n # m \/ d # c => queue'[n][d] = queue[n][d]
  BY <1>1 DEF Takes, CallInv, TypeOK
<1>5. UNCHANGED worker \/ (worker'[m].cr = c /\ \A k \in Managers \ {m} : worker'[k] = worker[k])
  <2>1. CASE UNCHANGED worker
    BY <2>1
  <2>2. ASSUME NEW pc, NEW obj, NEW result, NEW event, Works(m, c, pc, obj, result, event)
        PROVE  worker'[m].cr = c
    <3>1. worker'[m] = [pc |-> pc, cr |-> c, rv |-> seen[m][c], obj |-> obj,
                      result |-> result, event |-> event]
      BY <2>2, WorksChanges
    <3>2. QED
      BY <3>1
  <2>3. \/ UNCHANGED worker
        \/ \E pc, obj, result, event : Works(m, c, pc, obj, result, event)
    BY BeginStarts
  <2>4. QED
    BY <2>1, <2>2, <2>3, BeginLeavesOthers
<1>6. worker[m].cr = NoRequest /\ NoRequest # d
  BY <1>2, ConstantsAssumption DEF CallInv, CallOK
<1>7. CASE n = m /\ d = c
  <2>1. CASE worker'[m].cr = c
    BY <1>7, <2>1 DEF Awake
  <2>2. CASE Ignored(c, Cached(m, c)) /\ UNCHANGED worker
    <3>1. seen[m][c] \in Nat /\ Len(log[c]) \in Nat /\ seen[m][c] <= Len(log[c])
      BY DEF CallInv, TypeOK
    <3>2. seen[m][c] # Len(log[c])
      BY <1>3, <1>7, <2>2 DEF Cached, Latest
    <3>3. QED
      BY <1>2, <1>7, <3>1, <3>2 DEF Awake
  <2>3. QED
    <3>1. \/ Ignored(c, Cached(m, c)) /\ UNCHANGED worker
          \/ \E pc, obj, result, event : Works(m, c, pc, obj, result, event)
      BY BeginStarts
    <3>2. ASSUME NEW pc, NEW obj, NEW result, NEW event, Works(m, c, pc, obj, result, event)
          PROVE  worker'[m].cr = c
      <4>1. worker'[m] = [pc |-> pc, cr |-> c, rv |-> seen[m][c], obj |-> obj,
                        result |-> result, event |-> event]
        BY <3>2, WorksChanges
      <4>2. QED
        BY <4>1
    <3>3. QED
      BY <2>1, <2>2, <3>1, <3>2
<1>8. CASE ~(n = m /\ d = c)
  <2>1. Awake(n, d) => Awake(n, d)'
    BY <1>2, <1>4, <1>5, <1>6, <1>8 DEF Awake
  <2>2. QED
    BY <1>3, <2>1, StaysAwake
<1>9. QED
  BY <1>7, <1>8

LEMMA EndKeepsAwake ==
    ASSUME CallInv, NoLostWakeup, NEW m \in Managers, End(m),
           NEW n \in Managers, NEW d \in Requests, ~Ignored(d, Latest(d)')
    PROVE  Awake(n, d)'
<1> DEFINE c == worker[m].cr
<1>1. c \in Requests /\ seen' = seen /\ worker[m].pc # "idle"
  BY EndEffect
<1>2. PICK again \in BOOLEAN : /\ Finish(m, again)
                               /\ again \/ log' # log
  BY EndEffect
<1>3. /\ worker' = [worker EXCEPT ![m] = Idle]
      /\ queue[n][d] # "none" => queue'[n][d] # "none"
      /\ again => queue'[m][c] # "none"
  BY <1>1, <1>2, FinishFrees
<1>4. \/ log' = log
      \/ Len(log'[c]) = Len(log[c]) + 1 /\ \A e \in Requests \ {c} : log'[e] = log[e]
  BY EndEffect
<1>5. n # m => worker'[n] = worker[n]
  BY <1>3 DEF CallInv, TypeOK
<1> HIDE DEF c
<1>6. CASE Len(log'[c]) = Len(log[c]) + 1 /\ d = c
  BY <1>1, <1>6, EventOnItsWay
<1>7. CASE log'[d] = log[d]
  <2>1. CASE n = m /\ d = c
    <3>1. CASE again
      BY <1>3, <2>1, <3>1 DEF Awake
    <3>2. CASE log' # log
      <4>1. Len(log'[c]) = Len(log[c]) + 1
        BY <1>4, <3>2
      <4>2. QED
        BY <1>1, <2>1, <4>1, EventOnItsWay
    <3>3. QED
      BY <1>2, <3>1, <3>2
  <2>2. CASE ~(n = m /\ d = c)
    <3>1. Awake(n, d) => Awake(n, d)'
      BY <1>1, <1>3, <1>5, <1>7, <2>2 DEF Awake, c
    <3>2. QED
      BY <1>7, <3>1, StaysAwake
  <2>3. QED
    BY <2>1, <2>2
<1>8. QED
  BY <1>4, <1>6, <1>7

LEMMA WakeupNext == CallInv /\ NoLostWakeup /\ [Next]_vars => NoLostWakeup'
<1> SUFFICES ASSUME CallInv, NoLostWakeup, [Next]_vars,
                    NEW n \in Managers, NEW d \in Requests, ~Ignored(d, Latest(d)')
             PROVE  Awake(n, d)'
  BY DEF NoLostWakeup, Awake
<1>1. ASSUME NEW c \in Requests, Environment(c)
      PROVE  Awake(n, d)'
  <2>1. CASE d = c
    BY <1>1, <2>1, EnvironmentGrows, EventOnItsWay
  <2>2. CASE d # c
    <3>1. log'[d] = log[d] /\ UNCHANGED <<seen, queue, worker>>
      BY <1>1, <2>2, EnvironmentGrows
    <3>2. Awake(n, d) => Awake(n, d)'
      BY <3>1 DEF Awake
    <3>3. QED
      BY <3>1, <3>2, StaysAwake
  <2>3. QED
    BY <2>1, <2>2
<1>2. ASSUME NEW o \in 1 .. Len(orders), OrderProgress(o)
      PROVE  Awake(n, d)'
  <2>1. UNCHANGED <<log, seen, queue, worker>>
    BY <1>2 DEF OrderProgress
  <2>2. QED
    BY <2>1, StaysAwake DEF Awake
<1>3. ASSUME NEW m \in Managers, NEW c \in Requests, Informer(m, c)
      PROVE  Awake(n, d)'
  <2>1. UNCHANGED <<log, worker>> /\ queue' = [queue EXCEPT ![m][c] = "ready"]
    BY <1>3 DEF Informer, Deliver, Resync, TimerFires
  <2>2. CASE n = m /\ d = c
    <3>1. queue'[n][d] = "ready"
      BY <2>1, <2>2 DEF CallInv, TypeOK
    <3>2. QED
      BY <3>1 DEF Awake
  <2>3. CASE ~(n = m /\ d = c)
    <3>1. queue'[n][d] = queue[n][d]
      BY <2>1, <2>3 DEF CallInv, TypeOK
    <3>2. seen'[n][d] = seen[n][d]
      BY <1>3, <2>3 DEF Informer, Deliver, Resync, TimerFires, CallInv, TypeOK
    <3>3. Awake(n, d) => Awake(n, d)'
      BY <2>1, <3>1, <3>2 DEF Awake
    <3>4. QED
      BY <2>1, <3>3, StaysAwake
  <2>4. QED
    BY <2>2, <2>3
<1>4. ASSUME NEW m \in Managers, NEW c \in Requests, Begin(m, c)
      PROVE  Awake(n, d)'
  BY <1>4, BeginKeepsAwake
<1>5. ASSUME NEW m \in Managers, Call(m)
      PROVE  Awake(n, d)'
  <2>1. UNCHANGED <<log, seen, queue>>
    BY <1>5, CallOutcome
  <2>2. worker'[n].cr = worker[n].cr
    BY <1>5, CallKeepsRequest
  <2>3. Awake(n, d) => Awake(n, d)'
    BY <2>1, <2>2 DEF Awake
  <2>4. QED
    BY <2>1, <2>3, StaysAwake
<1>6. ASSUME NEW m \in Managers, End(m)
      PROVE  Awake(n, d)'
  BY <1>6, EndKeepsAwake
<1>7. ASSUME NEW m \in Managers, Crash(m)
      PROVE  Awake(n, d)'
  <2>1. CASE n = m
    <3>1. seen'[n][d] = 0 /\ log' = log
      BY <1>7, <2>1 DEF Crash, CallInv, TypeOK
    <3>2. QED
      BY <3>1, LatestTyped DEF Awake, CallInv
  <2>2. CASE n # m
    <3>1. /\ UNCHANGED log /\ worker'[n] = worker[n]
          /\ seen'[n] = seen[n] /\ queue'[n] = queue[n]
      BY <1>7, <2>2 DEF Crash, CallInv, TypeOK
    <3>2. Awake(n, d) => Awake(n, d)'
      BY <3>1 DEF Awake
    <3>3. QED
      BY <3>1, <3>2, StaysAwake
  <2>3. QED
    BY <2>1, <2>2
<1>8. CASE UNCHANGED vars
  BY <1>8, StaysAwake DEF vars, Awake
<1>9. QED
  BY <1>1, <1>2, <1>3, <1>4, <1>5, <1>6, <1>7, <1>8 DEF Next

\* A request that needs work is never forgotten: the paths of Reconcile that
\* return Result{} after storing a status rely on the event of that very update,
\* and every path that stores nothing asks to be called again.
THEOREM NoRequestIsForgotten == Spec => []NoLostWakeup
<1>1. Init => NoLostWakeup
  <2> SUFFICES ASSUME Init PROVE NoLostWakeup
    OBVIOUS
  <2>1. \A m \in Managers, c \in Requests : seen[m][c] = 0 /\ Len(log[c]) = 1
    BY DEF Init
  <2>2. QED
    BY <2>1 DEF NoLostWakeup
<1>2. QED
  BY <1>1, WakeupNext, CallsConsistent, PTL DEF Spec

=============================================================================
