------------------- MODULE CertificateRequestOrders_proofs -------------------
(***************************************************************************)
(* Theorems about the tasks the CertificateRequest controller places at      *)
(* essendi XC and about the decisions it stores.  The tasks are a parameter  *)
(* of the predicates below, so that a predicate about a version survives a   *)
(* step when the tasks only advance.                                         *)
(***************************************************************************)
EXTENDS CertificateRequestController_proofs

\* What one version says is true of the tasks os.
SoundFor(os, c, v) ==
    /\ v.order # 0 => v.order <= Len(os) /\ os[v.order].cr = c
    /\ v.certificate # 0 => v.certificate <= Len(os) /\ os[v.certificate].cr = c
    /\ v.order # 0 <=> IsSubmitted(v) \/ IsSigned(v)
    /\ v.order # 0 => IssuerRef[c] \in HandledKinds
    /\ v.certificate # 0 <=> v.ready = "Issued"
    /\ v.certificate # 0 => os[v.certificate].state = "ISSUED"
    /\ IsSigned(v) => os[v.order].state = "ISSUED"
    /\ IsApproved(v) => os[v.order].state # "PROCESSING"

\* Version w may follow version v.
JustifiedFor(os, c, v, w) ==
    /\ v.order # 0 =>
          \/ w.order = v.order
          \/ /\ w.order = 0
             /\ w.ready \in {"Issued", "Failed", "Denied"} \cup
                            (IF RefusalText THEN {"Retrying"} ELSE {})
    /\ w.ready = "Failed" /\ v.ready # "Failed" =>
          \/ IssuerRef[c] = "Unregistered" /\ v.order = 0
          \/ v.order # 0 /\ os[v.order].state \in RejectedStates
    /\ w.ready = "Issued" /\ v.ready # "Issued" => IsSigned(v) /\ v.order = w.certificate
    /\ w.order # 0 /\ w.order = v.order => Stage(v) <= Stage(w)

\* The inductive invariant about tasks.
OrdersInv ==
    /\ \A c \in Requests : log[c][1] = NewRequest
    /\ \A c \in Requests : \A i \in 1 .. Len(log[c]) : SoundFor(orders, c, log[c][i])
    /\ \A c \in Requests : \A i \in 2 .. Len(log[c]) :
          JustifiedFor(orders, c, log[c][i - 1], log[c][i])
    /\ \A m \in Managers :
          worker[m].pc = "update" =>
              /\ SoundFor(orders, worker[m].cr, worker[m].obj)
              /\ JustifiedFor(orders, worker[m].cr,
                              log[worker[m].cr][worker[m].rv], worker[m].obj)

\* Tasks are added, and a task that has left a state behind does not go back.
Advances(os, ot) ==
    /\ Len(os) <= Len(ot)
    /\ \A i \in 1 .. Len(os) :
          /\ ot[i].cr = os[i].cr
          /\ os[i].state \in {"ISSUED"} \cup RejectedStates => ot[i].state = os[i].state
          /\ os[i].state # "PROCESSING" => ot[i].state # "PROCESSING"

-----------------------------------------------------------------------------
LEMMA SoundAdvances ==
    ASSUME NEW os \in Seq(Order), NEW ot \in Seq(Order), Advances(os, ot),
           NEW c \in Requests, NEW v \in Version, SoundFor(os, c, v)
    PROVE  SoundFor(ot, c, v)
<1>1. /\ v.order \in Nat /\ v.certificate \in Nat
      /\ Len(os) \in Nat /\ Len(ot) \in Nat
  BY DEF Version
<1>2. /\ v.order # 0 => v.order \in 1 .. Len(os)
      /\ v.certificate # 0 => v.certificate \in 1 .. Len(os)
  BY <1>1 DEF SoundFor
<1>3. IsApproved(v) \/ IsSigned(v) => v.order # 0
  BY DEF SoundFor, IsApproved, IsSubmitted
<1>4. QED
  BY <1>1, <1>2, <1>3 DEF SoundFor, Advances

LEMMA JustifiedAdvances ==
    ASSUME NEW os \in Seq(Order), NEW ot \in Seq(Order), Advances(os, ot),
           NEW c \in Requests, NEW v \in Version, NEW w \in Version,
           SoundFor(os, c, v), JustifiedFor(os, c, v, w)
    PROVE  JustifiedFor(ot, c, v, w)
<1>1. v.order \in Nat /\ Len(os) \in Nat
  BY DEF Version
<1>2. v.order # 0 => v.order \in 1 .. Len(os)
  BY <1>1 DEF SoundFor
<1>3. QED
  BY <1>1, <1>2 DEF JustifiedFor, Advances

\* A version that differs in its approval, in its deletion or not at all follows
\* from the one before it.
LEMMA SameFollows ==
    ASSUME NEW os, NEW c, NEW v \in Version, NEW w \in Version, SoundFor(os, c, v),
           w.ready = v.ready, w.order = v.order, w.certificate = v.certificate
    PROVE  SoundFor(os, c, w) /\ JustifiedFor(os, c, v, w)
<1>1. Stage(v) = Stage(w) /\ Stage(v) \in Nat
  BY DEF Stage
<1>2. SoundFor(os, c, w)
  BY DEF SoundFor, IsSubmitted, IsSigned, IsApproved
<1>3. Stage(v) <= Stage(w)
  BY <1>1
<1>4. JustifiedFor(os, c, v, w)
  BY <1>3 DEF JustifiedFor
<1>5. QED
  BY <1>2, <1>4

LEMMA StageNat == \A v : Stage(v) \in 0 .. 4
  BY DEF Stage

LEMMA OrdersInvInit == Init => OrdersInv
<1> SUFFICES ASSUME Init PROVE OrdersInv
  OBVIOUS
<1>1. log = [c \in Requests |-> <<NewRequest>>]
  BY DEF Init
<1>2. \A c \in Requests : Len(log[c]) = 1 /\ log[c][1] = NewRequest
  BY <1>1
<1>3. \A c : SoundFor(orders, c, NewRequest)
  BY DEF SoundFor, NewRequest, IsSubmitted, IsSigned, IsApproved
<1>4. \A m \in Managers : worker[m].pc # "update"
  BY DEF Init, Idle
<1>5. QED
  BY <1>2, <1>3, <1>4 DEF OrdersInv

\* The tasks advance at every step.
LEMMA OrdersAdvance ==
    ASSUME CallInv, [Next]_vars
    PROVE  Advances(orders, orders') /\ orders' \in Seq(Order)
<1>1. orders \in Seq(Order) /\ Len(orders) \in Nat /\ CallInv'
  BY CallInvNext DEF CallInv, TypeOK
<1>2. orders' \in Seq(Order)
  BY <1>1 DEF CallInv, TypeOK
<1>3. CASE orders' = orders
  BY <1>1, <1>3 DEF Advances
<1>4. ASSUME NEW m \in Managers, PlaceOrder(m), worker[m].cr \in Requests
      PROVE  Advances(orders, orders')
  <2>1. /\ Len(orders') = Len(orders) + 1
        /\ \A i \in 1 .. Len(orders) : orders'[i] = orders[i]
    BY <1>4, PlaceOrderAdds DEF CallInv
  <2>2. QED
    BY <1>1, <2>1 DEF Advances
<1>5. ASSUME NEW o \in 1 .. Len(orders), OrderProgress(o)
      PROVE  Advances(orders, orders')
  <2>1. /\ Len(orders') = Len(orders)
        /\ \A i \in 1 .. Len(orders) :
              /\ orders'[i].cr = orders[i].cr
              /\ orders[i].state \in {"ISSUED"} \cup RejectedStates =>
                    orders'[i].state = orders[i].state
              /\ orders[i].state # "PROCESSING" => orders'[i].state # "PROCESSING"
    BY <1>5, OrderProgressChanges DEF CallInv
  <2>2. QED
    BY <1>1, <2>1 DEF Advances
<1>6. ASSUME NEW m \in Managers, Call(m)
      PROVE  orders' = orders \/ (PlaceOrder(m) /\ worker[m].cr \in Requests)
  <2>1. worker[m].cr \in Requests
    BY <1>6, CallOutcome, CallHasRequest
  <2>2. QED
    BY <1>6, <2>1 DEF Call, SignerUnavailable, SignerBuilt, SubmitAccepted, SubmitUnanswered,
        SubmitRejected, PollAnswered, PollSigned, PollProgress, PollRejected, PollNoNews,
        PollFails, Polls, FetchSucceeds, FetchFails
<1>7. ASSUME NEW m \in Managers, NEW c \in Requests, Begin(m, c)
      PROVE  orders' = orders
  BY <1>7, BeginStarts DEF Takes
<1>8. ASSUME NEW m \in Managers, End(m)
      PROVE  orders' = orders
  BY <1>8, EndEffect
<1>9. ASSUME NEW c \in Requests, Environment(c)
      PROVE  orders' = orders
  BY <1>9, EnvironmentGrows
<1>10. ASSUME NEW m \in Managers, NEW c \in Requests, Informer(m, c)
       PROVE  orders' = orders
  BY <1>10 DEF Informer, Deliver, Resync, TimerFires
<1>11. QED
  BY <1>2, <1>3, <1>4, <1>5, <1>6, <1>7, <1>8, <1>9, <1>10 DEF Next, Crash, vars

\* What a step has to show: of a version it stores, and of a working copy it
\* completes.
StoresSound(c) ==
    \/ Len(log'[c]) = Len(log[c])
    \/ /\ Len(log'[c]) = Len(log[c]) + 1
       /\ SoundFor(orders', c, log'[c][Len(log[c]) + 1])
       /\ JustifiedFor(orders', c, Latest(c), log'[c][Len(log[c]) + 1])

CompletesSound(m) ==
    worker'[m].pc = "update" =>
        \/ worker'[m] = worker[m]
        \/ LET w == worker'[m] IN
           /\ SoundFor(orders', w.cr, w.obj)
           /\ JustifiedFor(orders', w.cr, log'[w.cr][w.rv], w.obj)

LEMMA OrdersFrame ==
    ASSUME CallInv, OrdersInv, Grows, Advances(orders, orders'), orders' \in Seq(Order),
           \A c \in Requests : StoresSound(c),
           \A m \in Managers : CompletesSound(m)
    PROVE  OrdersInv'
<1>1. /\ orders \in Seq(Order)
      /\ \A c \in Requests : /\ log[c] \in Seq(Version) /\ Len(log[c]) \in Nat \ {0}
                             /\ log'[c] \in Seq(Version) /\ Len(log'[c]) \in Nat
  BY DEF CallInv, TypeOK, Grows
<1>2. ASSUME NEW c \in Requests
      PROVE  log'[c][1] = NewRequest
  <2>1. 1 \in 1 .. Len(log[c])
    BY <1>1
  <2>2. QED
    BY <2>1 DEF Grows, OrdersInv
<1>3. ASSUME NEW c \in Requests, NEW i \in 1 .. Len(log'[c])
      PROVE  SoundFor(orders', c, log'[c][i])
  <2>1. CASE i \in 1 .. Len(log[c])
    <3>1. log'[c][i] = log[c][i] /\ log[c][i] \in Version /\ SoundFor(orders, c, log[c][i])
      BY <1>1, <2>1 DEF Grows, OrdersInv
    <3>2. QED
      BY <1>1, <3>1, SoundAdvances
  <2>2. CASE i \notin 1 .. Len(log[c])
    <3>1. i = Len(log[c]) + 1 /\ Len(log'[c]) = Len(log[c]) + 1
      BY <1>1, <2>2 DEF StoresSound
    <3>2. QED
      BY <1>1, <3>1 DEF StoresSound
  <2>3. QED
    BY <2>1, <2>2
<1>4. ASSUME NEW c \in Requests, NEW i \in 2 .. Len(log'[c])
      PROVE  JustifiedFor(orders', c, log'[c][i - 1], log'[c][i])
  <2>1. CASE i \in 2 .. Len(log[c])
    <3>1. i \in 1 .. Len(log[c]) /\ i - 1 \in 1 .. Len(log[c])
      BY <1>1, <2>1
    <3>2. /\ log'[c][i] = log[c][i] /\ log[c][i] \in Version
          /\ log'[c][i - 1] = log[c][i - 1] /\ log[c][i - 1] \in Version
      BY <1>1, <3>1 DEF Grows
    <3>3. /\ SoundFor(orders, c, log[c][i - 1])
          /\ JustifiedFor(orders, c, log[c][i - 1], log[c][i])
      BY <2>1, <3>1 DEF OrdersInv
    <3>4. QED
      BY <1>1, <3>2, <3>3, JustifiedAdvances
  <2>2. CASE i \notin 2 .. Len(log[c])
    <3>1. i = Len(log[c]) + 1 /\ Len(log'[c]) = Len(log[c]) + 1
      BY <1>1, <2>2 DEF StoresSound
    <3>2. i - 1 \in 1 .. Len(log[c]) /\ i - 1 = Len(log[c])
      BY <1>1, <3>1
    <3>3. log'[c][i - 1] = Latest(c)
      BY <3>2 DEF Grows, Latest
    <3>4. QED
      BY <1>1, <3>1, <3>3 DEF StoresSound
  <2>3. QED
    BY <2>1, <2>2
<1>5. ASSUME NEW m \in Managers, worker'[m].pc = "update"
      PROVE  /\ SoundFor(orders', worker'[m].cr, worker'[m].obj)
             /\ JustifiedFor(orders', worker'[m].cr,
                             log'[worker'[m].cr][worker'[m].rv], worker'[m].obj)
  <2>1. CASE worker'[m] = worker[m]
    <3> DEFINE c == worker[m].cr
               rv == worker[m].rv
    <3>1. c \in Requests /\ rv \in 1 .. Len(log[c])
      BY <1>5, <2>1, CallHasRequest
    <3>2. /\ SoundFor(orders, c, worker[m].obj)
          /\ JustifiedFor(orders, c, log[c][rv], worker[m].obj)
      BY <1>5, <2>1 DEF OrdersInv
    <3>3. worker[m].obj \in Version
      BY DEF CallInv, TypeOK, Work
    <3> HIDE DEF c, rv
    <3>4. log'[c][rv] = log[c][rv] /\ log[c][rv] \in Version /\ SoundFor(orders, c, log[c][rv])
      BY <1>1, <3>1 DEF Grows, OrdersInv
    <3>5. SoundFor(orders', c, worker[m].obj)
      BY <1>1, <3>1, <3>2, <3>3, SoundAdvances
    <3>6. JustifiedFor(orders', c, log[c][rv], worker[m].obj)
      BY <1>1, <3>1, <3>2, <3>3, <3>4, JustifiedAdvances
    <3>7. QED
      BY <2>1, <3>4, <3>5, <3>6 DEF c, rv
  <2>2. CASE worker'[m] # worker[m]
    BY <1>5, <2>2 DEF CompletesSound
  <2>3. QED
    BY <2>1, <2>2
<1>6. QED
  BY <1>2, <1>3, <1>4, <1>5 DEF OrdersInv

-----------------------------------------------------------------------------
(* The versions that are stored.                                             *)

LEMMA LatestSound ==
    ASSUME CallInv, OrdersInv, NEW c \in Requests
    PROVE  Latest(c) \in Version /\ SoundFor(orders, c, Latest(c))
<1>1. Len(log[c]) \in 1 .. Len(log[c]) /\ Latest(c) \in Version
  BY LatestTyped DEF CallInv
<1>2. QED
  BY <1>1 DEF OrdersInv, Latest

LEMMA EnvironmentKeepsVersions ==
    ASSUME CallInv, NEW c \in Requests, Environment(c)
    PROVE  Grows
<1>1. Latest(c) \in Version
  BY LatestTyped DEF CallInv
<1>2. /\ [Latest(c) EXCEPT !.deleted = TRUE] \in Version
      /\ \A a \in {"approved", "denied"} : [Latest(c) EXCEPT !.approval = a] \in Version
  BY <1>1 DEF Version
<1>3. \E v \in Version : Store(c, v)
  BY <1>1, <1>2 DEF Environment, Approve, Deny, Decide, Touch, Delete
<1>4. QED
  BY <1>3, StoreGrows DEF CallInv

LEMMA EnvironmentStoresSound ==
    ASSUME CallInv, OrdersInv, NEW c \in Requests, Environment(c)
    PROVE  \A d \in Requests : StoresSound(d)
<1>1. Latest(c) \in Version /\ SoundFor(orders, c, Latest(c))
  BY LatestSound
<1>2. PICK v \in Version : /\ Store(c, v)
                           /\ v.ready = Latest(c).ready /\ v.order = Latest(c).order
                           /\ v.certificate = Latest(c).certificate
  <2>1. /\ [Latest(c) EXCEPT !.deleted = TRUE] \in Version
        /\ \A a \in {"approved", "denied"} : [Latest(c) EXCEPT !.approval = a] \in Version
    BY <1>1 DEF Version
  <2>2. CASE Touch(c)
    BY <1>1, <2>2 DEF Touch
  <2>3. CASE Delete(c)
    <3> DEFINE v == [Latest(c) EXCEPT !.deleted = TRUE]
    <3>1. /\ v.ready = Latest(c).ready /\ v.order = Latest(c).order
          /\ v.certificate = Latest(c).certificate
      BY <1>1 DEF Version
    <3>2. QED
      BY <2>1, <2>3, <3>1 DEF Delete
  <2>4. ASSUME NEW a \in {"approved", "denied"}, Decide(c, a)
        PROVE  \E v \in Version : /\ Store(c, v)
                                  /\ v.ready = Latest(c).ready /\ v.order = Latest(c).order
                                  /\ v.certificate = Latest(c).certificate
    <3> DEFINE v == [Latest(c) EXCEPT !.approval = a]
    <3>1. /\ v.ready = Latest(c).ready /\ v.order = Latest(c).order
          /\ v.certificate = Latest(c).certificate
      BY <1>1 DEF Version
    <3>2. QED
      BY <2>1, <2>4, <3>1 DEF Decide
  <2>5. QED
    BY <2>2, <2>3, <2>4 DEF Environment, Approve, Deny
<1>3. /\ Len(log'[c]) = Len(log[c]) + 1
      /\ log'[c][Len(log[c]) + 1] = v
      /\ \A d \in Requests \ {c} : log'[d] = log[d]
  BY <1>2, AppendVersion DEF Store, CallInv
<1>4. SoundFor(orders, c, v) /\ JustifiedFor(orders, c, Latest(c), v)
  BY <1>1, <1>2, SameFollows
<1>5. orders' = orders
  BY EnvironmentGrows
<1>6. QED
  BY <1>3, <1>4, <1>5 DEF StoresSound

LEMMA EndStoresSound ==
    ASSUME CallInv, OrdersInv, NEW m \in Managers, End(m)
    PROVE  \A d \in Requests : StoresSound(d)
<1> DEFINE c == worker[m].cr
<1>1. /\ c \in Requests /\ worker[m].pc = "update" /\ orders' = orders
      /\ \A d \in Requests \ {c} : log'[d] = log[d]
      /\ \/ log' = log
         \/ /\ worker[m].rv = Len(log[c])
            /\ Len(log'[c]) = Len(log[c]) + 1
            /\ log'[c][Len(log[c]) + 1] = worker[m].obj
  BY EndEffect DEF IsCurrent
<1>2. /\ SoundFor(orders, c, worker[m].obj)
      /\ JustifiedFor(orders, c, log[c][worker[m].rv], worker[m].obj)
  BY <1>1 DEF OrdersInv
<1> HIDE DEF c
<1>3. QED
  BY <1>1, <1>2 DEF StoresSound, Latest

-----------------------------------------------------------------------------
(* The working copies that are completed.                                    *)

LEMMA BeginCompletesSound ==
    ASSUME CallInv, OrdersInv, NEW m \in Managers, NEW c \in Requests, Begin(m, c)
    PROVE  \A n \in Managers : CompletesSound(n)
<1> DEFINE v == Cached(m, c)
<1>1. Takes(m, c)
  BY BeginStarts
<1>2. log' = log /\ orders' = orders
  BY <1>1 DEF Takes
<1>3. seen[m][c] \in 1 .. Len(log[c]) /\ v \in Version
  BY <1>1, CachedTyped DEF CallInv, Takes
<1>4. SoundFor(orders, c, v)
  BY <1>3 DEF OrdersInv, Cached
<1>5. \A n \in Managers \ {m} : worker'[n] = worker[n]
  BY BeginLeavesOthers
<1>6. ASSUME NEW pc, NEW w, NEW result, NEW event, Works(m, c, pc, w, result, event)
      PROVE  /\ worker'[m].pc = pc /\ worker'[m].cr = c /\ worker'[m].obj = w
             /\ worker'[m].rv = seen[m][c]
  <2>1. worker'[m] = [pc |-> pc, cr |-> c, rv |-> seen[m][c], obj |-> w,
                      result |-> result, event |-> event]
    BY <1>6, WorksChanges
  <2>2. QED
    BY <2>1
<1> HIDE DEF v
<1>7. ASSUME NEW w, NEW result, NEW event, Works(m, c, "update", w, result, event),
             SoundFor(orders, c, w), JustifiedFor(orders, c, v, w)
      PROVE  CompletesSound(m)
  BY <1>2, <1>6, <1>7 DEF CompletesSound, Cached, v
<1>8. ASSUME IgnoreRequest(m, c)
      PROVE  CompletesSound(m)
  BY <1>8 DEF IgnoreRequest, CompletesSound
<1>9. ASSUME MarkDenied(m, c)
      PROVE  CompletesSound(m)
  <2>1. v.ready # "Issued" /\ v.certificate = 0
    BY <1>4, <1>9 DEF MarkDenied, Handles, Ignored, SoundFor, v
  <2> DEFINE w == [SetReady(v, "Denied", 0) EXCEPT !.failureTime = TRUE]
  <2>2. w.ready = "Denied" /\ w.order = 0 /\ w.certificate = v.certificate
    BY <1>3 DEF SetReady, Version
  <2>3. Works(m, c, "update", w, "done", "Normal")
    BY <1>9 DEF MarkDenied, v
  <2> HIDE DEF w
  <2>4. SoundFor(orders, c, w) /\ JustifiedFor(orders, c, v, w)
    BY <2>1, <2>2 DEF SoundFor, JustifiedFor, IsSubmitted, IsSigned, IsApproved
  <2>5. QED
    BY <1>7, <2>3, <2>4
<1>10. ASSUME Initialise(m, c)
       PROVE  CompletesSound(m)
  <2>1. v.ready = "absent" /\ v.certificate = 0 /\ v.order = 0
    BY <1>4, <1>10 DEF Initialise, SoundFor, IsSubmitted, IsSigned, v
  <2> DEFINE w == SetReady(v, "Initialising", 0)
  <2>2. w.ready = "Initialising" /\ w.order = 0 /\ w.certificate = v.certificate
    BY <1>3 DEF SetReady, Version
  <2>3. Works(m, c, "update", w, "done", "Normal")
    BY <1>10 DEF Initialise, v
  <2> HIDE DEF w
  <2>4. SoundFor(orders, c, w) /\ JustifiedFor(orders, c, v, w)
    BY <2>1, <2>2 DEF SoundFor, JustifiedFor, IsSubmitted, IsSigned, IsApproved
  <2>5. QED
    BY <1>7, <2>3, <2>4
<1>11. ASSUME RejectKind(m, c)
       PROVE  CompletesSound(m)
  <2>1. /\ v.ready # "Issued" /\ v.certificate = 0 /\ IssuerRef[c] = "Unregistered"
        /\ v.order = 0
    BY <1>4, <1>11 DEF RejectKind, Proceeds, Handles, Ignored, SoundFor, HandledKinds, v
  <2> DEFINE w == SetReady(v, "Failed", 0)
  <2>2. w.ready = "Failed" /\ w.order = 0 /\ w.certificate = v.certificate
    BY <1>3 DEF SetReady, Version
  <2>3. Works(m, c, "update", w, "done", "Warning")
    BY <1>11 DEF RejectKind, v
  <2> HIDE DEF w
  <2>4. SoundFor(orders, c, w) /\ JustifiedFor(orders, c, v, w)
    BY <2>1, <2>2 DEF SoundFor, JustifiedFor, IsSubmitted, IsSigned, IsApproved
  <2>5. QED
    BY <1>7, <2>3, <2>4
<1>12. ASSUME PanicOnKind(m, c)
       PROVE  CompletesSound(m)
  <2>1. Works(m, c, "update", v, "error", "none")
    BY <1>12 DEF PanicOnKind, v
  <2>2. JustifiedFor(orders, c, v, v)
    BY <1>3, <1>4, SameFollows
  <2>3. QED
    BY <1>4, <1>7, <2>1, <2>2
<1>13. ASSUME ResolveIssuer(m, c)
       PROVE  CompletesSound(m)
  <2>1. worker'[m].pc = "signer"
    BY <1>6, <1>13 DEF ResolveIssuer
  <2>2. QED
    BY <2>1 DEF CompletesSound
<1>14. CompletesSound(m)
  BY <1>8, <1>9, <1>10, <1>11, <1>12, <1>13 DEF Begin
<1>15. QED
  BY <1>5, <1>14 DEF CompletesSound

\* The outcomes of the calls to essendi XC, as changes of the working copy v.
LEMMA CallCompletesSound ==
    ASSUME CallInv, OrdersInv, NEW m \in Managers, Call(m),
           Advances(orders, orders'), orders' \in Seq(Order)
    PROVE  \A n \in Managers : CompletesSound(n)
<1> DEFINE v == worker[m].obj
           c == worker[m].cr
<1>1. /\ log' = log /\ worker[m].pc \in {"signer", "submit", "poll", "fetch"}
      /\ orders \in Seq(Order) /\ Len(orders) \in Nat
      /\ SignerBuilt(m) \/ \E obj, result, event : Outcome(m, obj, result, event)
  BY CallOutcome DEF CallInv, TypeOK
<1>2. /\ c \in Requests /\ v \in Version /\ CallOK(m)
      /\ v = log[c][worker[m].rv] /\ worker[m].rv \in 1 .. Len(log[c])
  BY <1>1, CallHasRequest DEF CallInv, CallOK, TypeOK, Work
<1>3. SoundFor(orders, c, v) /\ SoundFor(orders', c, v)
  BY <1>1, <1>2, SoundAdvances DEF OrdersInv
<1>4. ~Ignored(c, v)
  BY <1>1, <1>2 DEF CallOK
<1>5. v.ready # "Issued" /\ v.certificate = 0
  BY <1>3, <1>4 DEF Ignored, SoundFor
<1>6. \A n \in Managers \ {m} : worker'[n] = worker[n]
  <2>1. CASE SignerBuilt(m)
    BY <2>1 DEF SignerBuilt, CallInv, TypeOK
  <2>2. ASSUME NEW obj, NEW result, NEW event, Outcome(m, obj, result, event)
        PROVE  \A n \in Managers \ {m} : worker'[n] = worker[n]
    BY <2>2, OutcomeChanges
  <2>3. QED
    BY <1>1, <2>1, <2>2
<1>7. ASSUME NEW w \in Version, NEW result \in {"done", "requeue", "error"},
             NEW event \in {"none", "Normal", "Warning"}, Returns(m, w, result, event),
             SoundFor(orders', c, w), JustifiedFor(orders', c, v, w)
      PROVE  CompletesSound(m)
  <2>1. worker'[m] = [pc |-> "update", cr |-> worker[m].cr, rv |-> worker[m].rv,
                      obj |-> w, result |-> result, event |-> event]
    BY <1>7, ReturnsChanges DEF CallInv
  <2>2. QED
    BY <1>1, <1>2, <1>7, <2>1 DEF CompletesSound
<1>8. \A r \in ReadyStates, o \in Nat :
        /\ SetReady(v, r, o) \in Version
        /\ SetReady(v, r, o).ready = r /\ SetReady(v, r, o).order = o
        /\ SetReady(v, r, o).certificate = v.certificate
  BY <1>2 DEF SetReady, Version
<1>9. JustifiedFor(orders', c, v, v)
  BY <1>2, <1>3, SameFollows
<1> HIDE DEF v, c
<1>10. ASSUME NEW result \in {"done", "requeue", "error"}, Returns(m, v, result, "none")
       PROVE  CompletesSound(m)
  BY <1>2, <1>3, <1>7, <1>9, <1>10
<1>11. ASSUME ReturnsError(m)
       PROVE  CompletesSound(m)
  <2>1. CASE Returns(m, v, "error", "none")
    BY <1>10, <2>1
  <2>2. CASE RefusalText /\ Returns(m, SetReady(v, "Retrying", 0), "error", "Warning")
    <3> DEFINE w == SetReady(v, "Retrying", 0)
    <3>1. w \in Version /\ w.ready = "Retrying" /\ w.order = 0 /\ w.certificate = 0
      BY <1>5, <1>8 DEF ReadyStates
    <3> HIDE DEF w
    <3>2. SoundFor(orders', c, w) /\ JustifiedFor(orders', c, v, w)
      BY <2>2, <3>1 DEF SoundFor, JustifiedFor, IsSubmitted, IsSigned, IsApproved
    <3>3. QED
      BY <1>7, <2>2, <3>1, <3>2 DEF w
  <2>3. QED
    BY <1>11, <2>1, <2>2 DEF ReturnsError, v
<1>12. ASSUME SignerBuilt(m)
       PROVE  CompletesSound(m)
  <2>1. worker'[m].pc # "update"
    BY <1>12 DEF SignerBuilt, CallInv, TypeOK, Work
  <2>2. QED
    BY <2>1 DEF CompletesSound
<1>13. ASSUME SubmitAccepted(m)
       PROVE  CompletesSound(m)
  <2> DEFINE w == SetReady(v, "Submitted", Len(orders) + 1)
  <2>1. /\ Len(orders') = Len(orders) + 1
        /\ orders'[Len(orders) + 1] = [cr |-> c, state |-> "PROCESSING"]
    BY <1>2, <1>13, PlaceOrderAdds DEF SubmitAccepted, CallInv, c
  <2>2. w \in Version /\ w.ready = "Submitted" /\ w.order = Len(orders) + 1 /\ w.certificate = 0
    BY <1>1, <1>5, <1>8 DEF ReadyStates
  <2>3. v.order = 0 /\ IssuerRef[c] \in HandledKinds
    BY <1>1, <1>2, <1>3, <1>13 DEF SubmitAccepted, At, CallOK, SoundFor, v, c
  <2>4. Returns(m, w, "requeue", "Normal")
    BY <1>13 DEF SubmitAccepted, v
  <2> HIDE DEF w
  <2>5. SoundFor(orders', c, w)
    BY <1>1, <2>1, <2>2, <2>3 DEF SoundFor, IsSubmitted, IsSigned, IsApproved
  <2>6. JustifiedFor(orders', c, v, w)
    BY <1>1, <2>2, <2>3 DEF JustifiedFor
  <2>7. QED
    BY <1>7, <2>2, <2>4, <2>5, <2>6
<1>14. ASSUME PollSigned(m)
       PROVE  CompletesSound(m)
  <2> DEFINE w == SetReady(v, "Signed", v.order)
  <2>1. /\ v.order \in Nat /\ IsSubmitted(v) /\ orders' = orders
        /\ orders[v.order].state = "ISSUED"
    BY <1>2, <1>14 DEF PollSigned, Polls, At, CallOK, Task, Version, v
  <2>2. w \in Version /\ w.ready = "Signed" /\ w.order = v.order /\ w.certificate = 0
    BY <1>5, <1>8, <2>1 DEF ReadyStates
  <2>3. Returns(m, w, "done", "Normal")
    BY <1>14 DEF PollSigned, v
  <2> HIDE DEF w
  <2>4. SoundFor(orders', c, w)
    BY <1>3, <2>1, <2>2 DEF SoundFor, IsSubmitted, IsSigned, IsApproved
  <2>5. Stage(v) <= Stage(w)
    BY <2>2, StageNat DEF Stage
  <2>6. JustifiedFor(orders', c, v, w)
    BY <2>2, <2>5 DEF JustifiedFor
  <2>7. QED
    BY <1>7, <2>2, <2>3, <2>4, <2>6
<1>15. ASSUME PollProgress(m)
       PROVE  CompletesSound(m)
  <2>1. v.order \in Nat /\ IsSubmitted(v) /\ orders' = orders /\ v.order # 0
    BY <1>2, <1>3, <1>15 DEF PollProgress, Polls, At, CallOK, Version, SoundFor, v
  <2>2. ASSUME NEW r \in {"Processing", "Approved"},
               r = "Processing" => orders[v.order].state = "PROCESSING" /\ ~IsProcessing(v),
               r = "Approved" => orders[v.order].state = "APPROVED",
               Returns(m, SetReady(v, r, v.order), "requeue", "Normal")
        PROVE  CompletesSound(m)
    <3> DEFINE w == SetReady(v, r, v.order)
    <3>1. w \in Version /\ w.ready = r /\ w.order = v.order /\ w.certificate = 0
      BY <1>5, <1>8, <2>1 DEF ReadyStates
    <3> HIDE DEF w
    <3>2. SoundFor(orders', c, w)
      BY <1>3, <2>1, <2>2, <3>1 DEF SoundFor, IsSubmitted, IsSigned, IsApproved
    <3>3. Stage(v) <= Stage(w)
      BY <1>3, <2>1, <2>2, <3>1 DEF Stage, SoundFor, IsSubmitted, IsApproved, IsProcessing
    <3>4. JustifiedFor(orders', c, v, w)
      BY <2>2, <3>1, <3>3 DEF JustifiedFor
    <3>5. QED
      BY <1>7, <2>2, <3>1, <3>2, <3>4 DEF w
  <2>3. QED
    BY <1>15, <2>2 DEF PollProgress, Task, v
<1>16. ASSUME PollRejected(m)
       PROVE  CompletesSound(m)
  <2> DEFINE w == SetReady(v, "Failed", 0)
  <2>1. IsSubmitted(v) /\ orders' = orders /\ orders[v.order].state \in RejectedStates
    BY <1>2, <1>16 DEF PollRejected, Polls, At, CallOK, Task, v
  <2>2. w \in Version /\ w.ready = "Failed" /\ w.order = 0 /\ w.certificate = 0
    BY <1>5, <1>8 DEF ReadyStates
  <2>3. Returns(m, w, "done", "Normal")
    BY <1>16 DEF PollRejected, v
  <2> HIDE DEF w
  <2>4. SoundFor(orders', c, w)
    BY <2>2 DEF SoundFor, IsSubmitted, IsSigned, IsApproved
  <2>5. JustifiedFor(orders', c, v, w)
    BY <1>3, <2>1, <2>2 DEF JustifiedFor, SoundFor
  <2>6. QED
    BY <1>7, <2>2, <2>3, <2>4, <2>5
<1>17. ASSUME FetchSucceeds(m)
       PROVE  CompletesSound(m)
  <2>1. PICK root \in BOOLEAN :
          Returns(m, [SetReady(v, "Issued", 0) EXCEPT !.certificate = v.order,
                                                      !.ca = @ \/ root],
                  "done", "Normal")
    BY <1>17 DEF FetchSucceeds, v
  <2> DEFINE w == [SetReady(v, "Issued", 0) EXCEPT !.certificate = v.order, !.ca = @ \/ root]
  <2>2. w \in Version /\ w.ready = "Issued" /\ w.order = 0 /\ w.certificate = v.order
    BY <1>2 DEF SetReady, Version, ReadyStates
  <2>3. IsSigned(v) /\ orders' = orders
    BY <1>2, <1>17 DEF FetchSucceeds, At, CallOK, v
  <2>4. Returns(m, w, "done", "Normal")
    BY <2>1
  <2> HIDE DEF w
  <2>5. SoundFor(orders', c, w) /\ JustifiedFor(orders', c, v, w)
    BY <1>3, <2>2, <2>3 DEF SoundFor, JustifiedFor, IsSubmitted, IsSigned, IsApproved
  <2>6. QED
    BY <1>7, <2>2, <2>4, <2>5
<1>18. CompletesSound(m)
  BY <1>10, <1>11, <1>12, <1>13, <1>14, <1>15, <1>16, <1>17
  DEF Call, SignerUnavailable, SubmitUnanswered, SubmitRejected, PollAnswered, PollNoNews,
      PollFails, FetchFails, v
<1>19. QED
  BY <1>6, <1>18 DEF CompletesSound

-----------------------------------------------------------------------------
(* OrdersInv is inductive.                                                   *)

\* The versions and the working copies are left alone, or a copy is dropped.
LEMMA QuietStep ==
    ASSUME CallInv, OrdersInv, log' = log, Advances(orders, orders'), orders' \in Seq(Order),
           \A n \in Managers : worker'[n] = worker[n] \/ worker'[n] = Idle
    PROVE  OrdersInv'
<1>1. Grows
  BY KeepVersions DEF CallInv
<1>2. \A c \in Requests : StoresSound(c)
  BY DEF StoresSound
<1>3. \A n \in Managers : CompletesSound(n)
  BY DEF CompletesSound, Idle
<1>4. QED
  BY <1>1, <1>2, <1>3, OrdersFrame

LEMMA OrdersInvNext == CallInv /\ OrdersInv /\ [Next]_vars => OrdersInv'
<1> SUFFICES ASSUME CallInv, OrdersInv, [Next]_vars
             PROVE  OrdersInv'
  OBVIOUS
<1>1. Advances(orders, orders') /\ orders' \in Seq(Order)
  BY OrdersAdvance
<1>2. ASSUME NEW c \in Requests, Environment(c)
      PROVE  OrdersInv'
  <2>1. Grows
    BY <1>2, EnvironmentKeepsVersions
  <2>2. \A d \in Requests : StoresSound(d)
    BY <1>2, EnvironmentStoresSound
  <2>3. \A n \in Managers : CompletesSound(n)
    BY <1>2, EnvironmentGrows DEF CompletesSound
  <2>4. QED
    BY <1>1, <2>1, <2>2, <2>3, OrdersFrame
<1>3. ASSUME NEW o \in 1 .. Len(orders), OrderProgress(o)
      PROVE  OrdersInv'
  BY <1>1, <1>3, QuietStep DEF OrderProgress
<1>4. ASSUME NEW m \in Managers, NEW c \in Requests, Informer(m, c)
      PROVE  OrdersInv'
  <2>1. log' = log /\ worker' = worker
    BY <1>4 DEF Informer, Deliver, Resync, TimerFires
  <2>2. QED
    BY <1>1, <2>1, QuietStep
<1>5. ASSUME NEW m \in Managers, NEW c \in Requests, Begin(m, c)
      PROVE  OrdersInv'
  <2>1. log' = log
    BY <1>5, BeginStarts DEF Takes
  <2>2. Grows /\ \A d \in Requests : StoresSound(d)
    BY <2>1, KeepVersions DEF CallInv, StoresSound
  <2>3. \A n \in Managers : CompletesSound(n)
    BY <1>5, BeginCompletesSound
  <2>4. QED
    BY <1>1, <2>2, <2>3, OrdersFrame
<1>6. ASSUME NEW m \in Managers, Call(m)
      PROVE  OrdersInv'
  <2>1. log' = log
    BY <1>6, CallOutcome
  <2>2. Grows /\ \A d \in Requests : StoresSound(d)
    BY <2>1, KeepVersions DEF CallInv, StoresSound
  <2>3. \A n \in Managers : CompletesSound(n)
    BY <1>1, <1>6, CallCompletesSound
  <2>4. QED
    BY <1>1, <2>2, <2>3, OrdersFrame
<1>7. ASSUME NEW m \in Managers, End(m)
      PROVE  OrdersInv'
  <2>1. Grows /\ worker[m].pc = "update"
    BY <1>7, EndEffect
  <2>2. \A d \in Requests : StoresSound(d)
    BY <1>7, EndStoresSound
  <2>3. PICK again \in BOOLEAN : Finish(m, again)
    BY <1>7, EndEffect
  <2>4. worker' = [worker EXCEPT ![m] = Idle]
    BY <2>3 DEF Finish
  <2>5. \A n \in Managers : worker'[n] = worker[n] \/ worker'[n] = Idle
    BY <2>4 DEF CallInv, TypeOK
  <2>6. \A n \in Managers : CompletesSound(n)
    BY <2>5 DEF CompletesSound, Idle
  <2>7. QED
    BY <1>1, <2>1, <2>2, <2>6, OrdersFrame
<1>8. ASSUME NEW m \in Managers, Crash(m)
      PROVE  OrdersInv'
  <2>1. log' = log /\ \A n \in Managers : worker'[n] = worker[n] \/ worker'[n] = Idle
    BY <1>8 DEF Crash, CallInv, TypeOK
  <2>2. QED
    BY <1>1, <2>1, QuietStep
<1>9. ASSUME UNCHANGED vars
      PROVE  OrdersInv'
  <2>1. log' = log /\ worker' = worker
    BY <1>9 DEF vars
  <2>2. QED
    BY <1>1, <2>1, QuietStep
<1>10. QED
  BY <1>2, <1>3, <1>4, <1>5, <1>6, <1>7, <1>8, <1>9 DEF Next

\* What the controller records about its tasks is sound at every step.
THEOREM OrdersSound == Spec => []OrdersInv
<1>1. QED
  BY CallsConsistent, OrdersInvInit, OrdersInvNext, PTL DEF Spec

\* The task a version records was placed for that very request, and a URL is
\* recorded exactly while it is needed.
THEOREM TasksBelongToTheirRequest == Spec => []FollowsItsOwnOrder
<1>1. OrdersInv => FollowsItsOwnOrder
  BY DEF OrdersInv, SoundFor, FollowsItsOwnOrder
<1>2. QED
  BY <1>1, OrdersSound, PTL

\* A certificate is stored only from the task the version before it had recorded
\* as signed, and essendi XC issued that task.
THEOREM CertificatesAreJustified == Spec => []IssuedIsJustified
<1>1. ASSUME CallInv, OrdersInv, NEW c \in Requests, NEW i \in 1 .. Len(log[c]),
             log[c][i].ready = "Issued", log[c][i - 1].ready # "Issued"
      PROVE  IsSigned(log[c][i - 1]) /\ log[c][i - 1].order = log[c][i].certificate
  <2>1. i # 1
    BY <1>1 DEF OrdersInv, NewRequest
  <2>2. Len(log[c]) \in Nat
    BY DEF CallInv, TypeOK
  <2>3. i \in 2 .. Len(log[c])
    BY <1>1, <2>1, <2>2
  <2>4. JustifiedFor(orders, c, log[c][i - 1], log[c][i])
    BY <1>1, <2>3 DEF OrdersInv
  <2>5. QED
    BY <1>1, <2>4 DEF JustifiedFor
<1>2. CallInv /\ OrdersInv => IssuedIsJustified
  BY <1>1 DEF OrdersInv, SoundFor, IssuedIsJustified
<1>3. QED
  BY <1>2, CallsConsistent, OrdersSound, PTL

\* A request becomes Failed only for a kind nobody registered or because
\* essendi XC rejected the task the version before it recorded.
THEOREM FailuresAreJustified == Spec => []FailedIsJustified
<1>1. OrdersInv => FailedIsJustified
  BY DEF OrdersInv, JustifiedFor, FailedIsJustified
<1>2. QED
  BY <1>1, OrdersSound, PTL

\* A recorded task is never exchanged for another one, whatever managers, stale
\* caches and lost updates do.
THEOREM TasksAreNotForgotten == Spec => []OrderIsNotForgotten
<1>1. OrdersInv => OrderIsNotForgotten
  BY DEF OrdersInv, JustifiedFor, OrderIsNotForgotten
<1>2. QED
  BY <1>1, OrdersSound, PTL

\* The progress a request reports of its task never goes back.
THEOREM ProgressNeverGoesBack == Spec => []ProgressIsMonotonic
<1>1. OrdersInv => ProgressIsMonotonic
  BY DEF OrdersInv, JustifiedFor, ProgressIsMonotonic
<1>2. QED
  BY <1>1, OrdersSound, PTL

-----------------------------------------------------------------------------
(***************************************************************************)
(* Decisions: approvals, denials, deletions and final conditions are not     *)
(* undone by any status update, and essendi XC is only asked to certify      *)
(* approved requests.                                                        *)
(***************************************************************************)

\* A completed working copy has the approval of the version it was read at.
CopiesKeepApproval ==
    \A m \in Managers :
        worker[m].pc = "update" =>
            worker[m].obj.approval = log[worker[m].cr][worker[m].rv].approval

\* An approval or denial that was ever stored is the one of the request.
ApprovalsLast ==
    \A c \in Requests : \A i \in 1 .. Len(log[c]) :
        log[c][i].approval # "none" => Latest(c).approval = log[c][i].approval

\* The inductive invariant about decisions.
DecisionsInv == CopiesKeepApproval /\ ApprovalsLast /\ OnlyApprovedIsOrdered

\* What DecisionsAreFinal asks of a step, for one request.
KeepsDecisions(c) ==
    /\ Latest(c).approval # "none" => Latest(c)'.approval = Latest(c).approval
    /\ Latest(c).deleted => Latest(c)' = Latest(c)
    /\ Latest(c).ready \in {"Issued", "Failed", "Denied"} =>
          Latest(c)'.ready = Latest(c).ready

-----------------------------------------------------------------------------
(* Every step keeps decisions.                                               *)

LEMMA UnwrittenKeepsDecisions ==
    ASSUME NEW c \in Requests, log'[c] = log[c]
    PROVE  KeepsDecisions(c)
  BY DEF KeepsDecisions, Latest

LEMMA EnvironmentKeepsDecisions ==
    ASSUME CallInv, NEW c \in Requests, Environment(c)
    PROVE  \A d \in Requests : KeepsDecisions(d)
<1>1. Latest(c) \in Version
  BY LatestTyped DEF CallInv
<1>2. /\ [Latest(c) EXCEPT !.deleted = TRUE] \in Version
      /\ \A a \in {"approved", "denied"} : [Latest(c) EXCEPT !.approval = a] \in Version
  BY <1>1 DEF Version
<1>3. ASSUME NEW v \in Version, Store(c, v)
      PROVE  Latest(c)' = v /\ ~Latest(c).deleted
  BY <1>3, AppendVersion DEF Store, Latest, CallInv
<1>4. ASSUME Touch(c)
      PROVE  KeepsDecisions(c)
  <2>1. Store(c, Latest(c))
    BY <1>4 DEF Touch
  <2>2. QED
    BY <1>1, <1>3, <2>1 DEF KeepsDecisions
<1>5. ASSUME Delete(c)
      PROVE  KeepsDecisions(c)
  <2>1. Latest(c)' = [Latest(c) EXCEPT !.deleted = TRUE] /\ ~Latest(c).deleted
    BY <1>2, <1>3, <1>5 DEF Delete
  <2>2. QED
    BY <1>1, <2>1 DEF KeepsDecisions, Version
<1>6. ASSUME NEW a \in {"approved", "denied"}, Decide(c, a)
      PROVE  KeepsDecisions(c)
  <2>1. /\ Latest(c)' = [Latest(c) EXCEPT !.approval = a] /\ ~Latest(c).deleted
        /\ Latest(c).approval = "none"
    BY <1>2, <1>3, <1>6 DEF Decide
  <2>2. QED
    BY <1>1, <2>1 DEF KeepsDecisions, Version
<1>7. \A d \in Requests \ {c} : log'[d] = log[d]
  BY EnvironmentGrows
<1>8. QED
  BY <1>4, <1>5, <1>6, <1>7, UnwrittenKeepsDecisions DEF Environment, Approve, Deny

\* The update is stored only on top of the version it was computed from, and that
\* version was open.
LEMMA EndKeepsDecisions ==
    ASSUME CallInv, CopiesKeepApproval, NEW m \in Managers, End(m)
    PROVE  \A d \in Requests : KeepsDecisions(d)
<1>1. PICK c \in Requests : c = worker[m].cr
  BY EndEffect
<1>2. /\ worker[m].pc = "update"
      /\ \A d \in Requests \ {c} : log'[d] = log[d]
      /\ \/ log' = log
         \/ /\ worker[m].rv = Len(log[c])
            /\ Len(log'[c]) = Len(log[c]) + 1
            /\ log'[c][Len(log[c]) + 1] = worker[m].obj
  BY <1>1, EndEffect DEF IsCurrent
<1>3. /\ worker[m].obj.approval = log[c][worker[m].rv].approval
      /\ ~Ignored(c, log[c][worker[m].rv])
  BY <1>1, <1>2 DEF CopiesKeepApproval, CallInv, CallOK
<1>4. ASSUME log' # log
      PROVE  KeepsDecisions(c)
  <2>1. Latest(c) = log[c][worker[m].rv] /\ Latest(c)' = worker[m].obj
    BY <1>2, <1>4 DEF Latest
  <2>2. QED
    BY <1>3, <2>1 DEF KeepsDecisions, Ignored
<1>5. QED
  BY <1>2, <1>4, UnwrittenKeepsDecisions

LEMMA NextKeepsDecisions ==
    ASSUME CallInv, CopiesKeepApproval, [Next]_vars
    PROVE  \A d \in Requests : KeepsDecisions(d)
<1>1. ASSUME NEW m \in Managers, NEW c \in Requests, Begin(m, c)
      PROVE  log' = log
  BY <1>1, BeginStarts DEF Takes
<1>2. ASSUME NEW m \in Managers, Call(m)
      PROVE  log' = log
  BY <1>2, CallOutcome
<1>3. ASSUME NEW c \in Requests, Environment(c)
      PROVE  \A d \in Requests : KeepsDecisions(d)
  BY <1>3, EnvironmentKeepsDecisions
<1>4. ASSUME NEW m \in Managers, End(m)
      PROVE  \A d \in Requests : KeepsDecisions(d)
  BY <1>4, EndKeepsDecisions
<1>5. \/ log' = log
      \/ \E c \in Requests : Environment(c)
      \/ \E m \in Managers : End(m)
  BY <1>1, <1>2 DEF Next, vars, OrderProgress, Informer, Deliver, Resync, TimerFires, Crash
<1>6. QED
  BY <1>3, <1>4, <1>5, UnwrittenKeepsDecisions

-----------------------------------------------------------------------------
(* DecisionsInv is inductive.                                                *)

LEMMA DecisionsInvInit == Init => DecisionsInv
<1> SUFFICES ASSUME Init PROVE DecisionsInv
  OBVIOUS
<1>1. CopiesKeepApproval
  BY DEF Init, Idle, CopiesKeepApproval
<1>2. \A c \in Requests : log[c] = <<NewRequest>>
  BY DEF Init
<1>3. ApprovalsLast
  BY <1>2 DEF ApprovalsLast, Latest, NewRequest
<1>4. OnlyApprovedIsOrdered
  BY DEF Init, OnlyApprovedIsOrdered
<1>5. QED
  BY <1>1, <1>3, <1>4 DEF DecisionsInv

\* The copies completed before a call to essendi XC.
LEMMA BeginKeepsApproval ==
    ASSUME CallInv, NEW m \in Managers, NEW c \in Requests, Begin(m, c),
           worker'[m].pc = "update", worker'[m] # worker[m]
    PROVE  worker'[m].obj.approval = log'[worker'[m].cr][worker'[m].rv].approval
<1> DEFINE v == Cached(m, c)
<1>1. Takes(m, c) /\ v \in Version /\ log' = log
  BY BeginStarts, CachedTyped DEF CallInv, Takes
<1>2. ASSUME NEW pc, NEW w, NEW result, NEW event, Works(m, c, pc, w, result, event),
             w.approval = v.approval
      PROVE  worker'[m].obj.approval = log'[worker'[m].cr][worker'[m].rv].approval
  BY <1>1, <1>2 DEF Works, Cached, CallInv, TypeOK
<1>3. \A r, o : SetReady(v, r, o).approval = v.approval
  BY <1>1 DEF SetReady, Version
<1>4. [SetReady(v, "Denied", 0) EXCEPT !.failureTime = TRUE].approval = v.approval
  BY <1>1 DEF SetReady, Version
<1> HIDE DEF v
<1>5. ASSUME MarkDenied(m, c)
      PROVE  worker'[m].obj.approval = log'[worker'[m].cr][worker'[m].rv].approval
  BY <1>2, <1>4, <1>5 DEF MarkDenied, v
<1>6. ASSUME Initialise(m, c) \/ RejectKind(m, c)
      PROVE  worker'[m].obj.approval = log'[worker'[m].cr][worker'[m].rv].approval
  BY <1>2, <1>3, <1>6 DEF Initialise, RejectKind, v
<1>7. ASSUME PanicOnKind(m, c) \/ ResolveIssuer(m, c)
      PROVE  worker'[m].obj.approval = log'[worker'[m].cr][worker'[m].rv].approval
  BY <1>2, <1>7 DEF PanicOnKind, ResolveIssuer, v
<1>8. QED
  BY <1>5, <1>6, <1>7 DEF Begin, IgnoreRequest

\* The calls to essendi XC change no approval.
LEMMA CallKeepsApproval ==
    ASSUME CallInv, NEW m \in Managers, Call(m), worker'[m].pc = "update"
    PROVE  worker'[m].obj.approval = log'[worker'[m].cr][worker'[m].rv].approval
<1> DEFINE v == worker[m].obj
<1>1. /\ worker[m].pc \in {"signer", "submit", "poll", "fetch"} /\ log' = log
      /\ v \in Version /\ v = log[worker[m].cr][worker[m].rv]
      /\ worker \in [Managers -> Work]
  BY CallOutcome DEF CallInv, CallOK, TypeOK, Work
<1>2. ASSUME NEW w, NEW result, NEW event, Returns(m, w, result, event),
             w.approval = v.approval
      PROVE  worker'[m].obj.approval = log'[worker'[m].cr][worker'[m].rv].approval
  BY <1>1, <1>2 DEF Returns, Work
<1>3. \A r, o : SetReady(v, r, o).approval = v.approval
  BY <1>1 DEF SetReady, Version
<1>4. \A o, root : [SetReady(v, "Issued", 0) EXCEPT !.certificate = o,
                                                     !.ca = @ \/ root].approval = v.approval
  BY <1>1 DEF SetReady, Version
<1> HIDE DEF v
<1>5. ASSUME ReturnsError(m)
      PROVE  worker'[m].obj.approval = log'[worker'[m].cr][worker'[m].rv].approval
  BY <1>2, <1>3, <1>5 DEF ReturnsError, v
<1>6. ASSUME FetchSucceeds(m)
      PROVE  worker'[m].obj.approval = log'[worker'[m].cr][worker'[m].rv].approval
  <2>1. PICK root \in BOOLEAN :
          Returns(m, [SetReady(v, "Issued", 0) EXCEPT !.certificate = v.order,
                                                      !.ca = @ \/ root],
                  "done", "Normal")
    BY <1>6 DEF FetchSucceeds, v
  <2> DEFINE w == [SetReady(v, "Issued", 0) EXCEPT !.certificate = v.order, !.ca = @ \/ root]
  <2>2. Returns(m, w, "done", "Normal") /\ w.approval = v.approval
    BY <1>4, <2>1
  <2> HIDE DEF w
  <2>3. QED
    BY <1>2, <2>2
<1>7. ASSUME \/ SubmitAccepted(m) \/ SubmitUnanswered(m)
             \/ PollAnswered(m) \/ PollNoNews(m) \/ PollFails(m)
      PROVE  worker'[m].obj.approval = log'[worker'[m].cr][worker'[m].rv].approval
  BY <1>2, <1>3, <1>7 DEF SubmitAccepted, SubmitUnanswered, PollAnswered, PollSigned,
      PollProgress, PollRejected, PollNoNews, PollFails, v
<1>8. ~SignerBuilt(m)
  BY <1>1 DEF SignerBuilt, Work
<1>9. QED
  BY <1>5, <1>6, <1>7, <1>8 DEF Call, SignerUnavailable, SubmitRejected, FetchFails

\* What a step may do to the versions, to a worker and to the tasks.
LEMMA VersionsGrow ==
    ASSUME CallInv, [Next]_vars
    PROVE  Grows /\ \A c \in Requests : Len(log'[c]) <= Len(log[c]) + 1
<1>1. \A c \in Requests : Len(log[c]) \in Nat
  BY DEF CallInv, TypeOK
<1>2. CASE log' = log
  BY <1>1, <1>2, KeepVersions DEF CallInv
<1>3. ASSUME NEW c \in Requests, Environment(c)
      PROVE  Grows /\ \A d \in Requests : Len(log'[d]) <= Len(log[d]) + 1
  <2>1. /\ Grows
        /\ Len(log'[c]) = Len(log[c]) + 1
        /\ \A d \in Requests \ {c} : log'[d] = log[d]
    BY <1>3, EnvironmentGrows, EnvironmentKeepsVersions
  <2>2. ASSUME NEW d \in Requests
        PROVE  Len(log'[d]) <= Len(log[d]) + 1
    BY <1>1, <2>1
  <2>3. QED
    BY <2>1, <2>2
<1>4. ASSUME NEW m \in Managers, End(m)
      PROVE  Grows /\ \A d \in Requests : Len(log'[d]) <= Len(log[d]) + 1
  <2>1. PICK c \in Requests : c = worker[m].cr
    BY <1>4, EndEffect
  <2>2. /\ Grows
        /\ \A d \in Requests \ {c} : log'[d] = log[d]
        /\ log' = log \/ Len(log'[c]) = Len(log[c]) + 1
    BY <1>4, <2>1, EndEffect
  <2>3. ASSUME NEW d \in Requests
        PROVE  Len(log'[d]) <= Len(log[d]) + 1
    BY <1>1, <2>2
  <2>4. QED
    BY <2>2, <2>3
<1>5. ASSUME NEW m \in Managers, NEW c \in Requests, Begin(m, c)
      PROVE  log' = log
  BY <1>5, BeginStarts DEF Takes
<1>6. ASSUME NEW m \in Managers, Call(m)
      PROVE  log' = log
  BY <1>6, CallOutcome
<1>7. \/ log' = log
      \/ \E c \in Requests : Environment(c)
      \/ \E m \in Managers : End(m)
  BY <1>5, <1>6 DEF Next, vars, OrderProgress, Informer, Deliver, Resync, TimerFires, Crash
<1>8. QED
  BY <1>2, <1>3, <1>4, <1>7

LEMMA WorkerMoves ==
    ASSUME CallInv, [Next]_vars, NEW m \in Managers,
           worker'[m] # worker[m], worker'[m].pc = "update"
    PROVE  (\E c \in Requests : Begin(m, c)) \/ Call(m)
<1>1. worker' # worker
  OBVIOUS
<1>2. ASSUME NEW n \in Managers, NEW c \in Requests, Begin(n, c)
      PROVE  n = m
  <2>1. \A k \in Managers \ {n} : worker'[k] = worker[k]
    BY <1>2, BeginLeavesOthers
  <2>2. QED
    BY <2>1
<1>3. ASSUME NEW n \in Managers, Call(n)
      PROVE  n = m
  <2>1. CASE SignerBuilt(n)
    BY <2>1 DEF SignerBuilt, CallInv, TypeOK
  <2>2. ASSUME NEW obj, NEW result, NEW event, Outcome(n, obj, result, event)
        PROVE  n = m
    <3>1. \A k \in Managers \ {n} : worker'[k] = worker[k]
      BY <2>2, OutcomeChanges
    <3>2. QED
      BY <3>1
  <2>3. QED
    BY <1>3, <2>1, <2>2, CallOutcome
<1>4. ASSUME NEW n \in Managers, End(n) \/ Crash(n)
      PROVE  FALSE
  <2>1. worker' = [worker EXCEPT ![n] = Idle]
    BY <1>4 DEF End, WriteStatus, WriteConflict, WriteUnreachable, WriteUnacknowledged,
        Finish, Crash
  <2>2. QED
    BY <2>1 DEF Idle, CallInv, TypeOK
<1>5. ASSUME NEW c \in Requests, Environment(c)
      PROVE  FALSE
  BY <1>1, <1>5, EnvironmentGrows
<1>6. QED
  BY <1>1, <1>2, <1>3, <1>4, <1>5
  DEF Next, vars, OrderProgress, Informer, Deliver, Resync, TimerFires

LEMMA OrdersAdded ==
    ASSUME CallInv, [Next]_vars, Len(orders') # Len(orders)
    PROVE  \E m \in Managers : SubmitAccepted(m) \/ SubmitUnanswered(m)
<1>1. ASSUME NEW m \in Managers, Call(m)
      PROVE  orders' = orders \/ SubmitAccepted(m) \/ SubmitUnanswered(m)
  BY <1>1 DEF Call, SignerUnavailable, SignerBuilt, SubmitRejected, PollAnswered, PollSigned,
      PollProgress, PollRejected, PollNoNews, PollFails, Polls, FetchSucceeds, FetchFails
<1>2. ASSUME NEW m \in Managers, NEW c \in Requests, Begin(m, c)
      PROVE  orders' = orders
  BY <1>2, BeginStarts DEF Takes
<1>3. ASSUME NEW m \in Managers, End(m)
      PROVE  orders' = orders
  BY <1>3, EndEffect
<1>4. ASSUME NEW c \in Requests, Environment(c)
      PROVE  orders' = orders
  BY <1>4, EnvironmentGrows
<1>5. ASSUME NEW o \in 1 .. Len(orders), OrderProgress(o)
      PROVE  FALSE
  BY <1>5, OrderProgressChanges DEF CallInv
<1>6. QED
  BY <1>1, <1>2, <1>3, <1>4, <1>5
  DEF Next, vars, Informer, Deliver, Resync, TimerFires, Crash

LEMMA CopiesKeepApprovalNext ==
    ASSUME CallInv, CopiesKeepApproval, [Next]_vars
    PROVE  CopiesKeepApproval'
<1>1. Grows
  BY VersionsGrow
<1> SUFFICES ASSUME NEW m \in Managers, worker'[m].pc = "update"
             PROVE  worker'[m].obj.approval = log'[worker'[m].cr][worker'[m].rv].approval
  BY DEF CopiesKeepApproval
<1>2. CASE worker'[m] = worker[m]
  <2>1. worker[m].cr \in Requests /\ worker[m].rv \in 1 .. Len(log[worker[m].cr])
    BY <1>2, CallHasRequest
  <2>2. worker[m].obj.approval = log[worker[m].cr][worker[m].rv].approval
    BY <1>2 DEF CopiesKeepApproval
  <2>3. QED
    BY <1>1, <1>2, <2>1, <2>2 DEF Grows
<1>3. CASE worker'[m] # worker[m]
  <2>1. \/ \E c \in Requests : Begin(m, c)
        \/ Call(m)
    BY <1>3, WorkerMoves
  <2>2. QED
    BY <1>3, <2>1, BeginKeepsApproval, CallKeepsApproval
<1>4. QED
  BY <1>2, <1>3

LEMMA ApprovalsLastNext ==
    ASSUME CallInv, CopiesKeepApproval, ApprovalsLast, [Next]_vars
    PROVE  ApprovalsLast'
<1> SUFFICES ASSUME NEW c \in Requests, NEW i \in 1 .. Len(log'[c]),
                    log'[c][i].approval # "none"
             PROVE  Latest(c)'.approval = log'[c][i].approval
  BY DEF ApprovalsLast
<1>1. KeepsDecisions(c) /\ Grows
  BY NextKeepsDecisions, VersionsGrow
<1>2. Len(log[c]) \in Nat /\ Len(log'[c]) \in Nat /\ Len(log'[c]) <= Len(log[c]) + 1
  BY <1>1, VersionsGrow DEF CallInv, TypeOK, Grows
<1>3. CASE i \in 1 .. Len(log[c])
  <2>1. log'[c][i] = log[c][i]
    BY <1>1, <1>3 DEF Grows
  <2>2. Latest(c).approval = log[c][i].approval
    BY <1>3, <2>1 DEF ApprovalsLast
  <2>3. QED
    BY <1>1, <2>1, <2>2 DEF KeepsDecisions
<1>4. CASE i \notin 1 .. Len(log[c])
  <2>1. i = Len(log'[c])
    BY <1>2, <1>4
  <2>2. QED
    BY <2>1 DEF Latest
<1>5. QED
  BY <1>3, <1>4

\* The approval of a request that has one stays.
LEMMA ApprovalsStay ==
    ASSUME CallInv, CopiesKeepApproval, [Next]_vars,
           NEW c \in Requests, Latest(c).approval = "approved"
    PROVE  log'[c][Len(log'[c])].approval = "approved"
<1>1. KeepsDecisions(c)
  BY NextKeepsDecisions
<1>2. Latest(c)'.approval = "approved"
  BY <1>1 DEF KeepsDecisions
<1>3. QED
  BY <1>2 DEF Latest

LEMMA OnlyApprovedNext ==
    ASSUME CallInv, DecisionsInv, [Next]_vars
    PROVE  OnlyApprovedIsOrdered'
<1> SUFFICES ASSUME CheckApprovedCondition, NEW o \in 1 .. Len(orders'),
                    NEW c, c = orders'[o].cr
             PROVE  log'[c][Len(log'[c])].approval = "approved"
  BY DEF OnlyApprovedIsOrdered, Latest
<1>1. /\ orders \in Seq(Order) /\ Len(orders) \in Nat
      /\ Advances(orders, orders')
  BY OrdersAdvance DEF CallInv, TypeOK
<1>2. CASE o \in 1 .. Len(orders)
  <2>1. c \in Requests /\ orders[o].cr = c
    <3>1. orders[o] \in Order
      BY <1>1, <1>2
    <3>2. orders[o].cr = c
      BY <1>1, <1>2 DEF Advances
    <3>3. QED
      BY <3>1, <3>2 DEF Order
  <2>2. Latest(c).approval = "approved"
    BY <1>2, <2>1 DEF DecisionsInv, OnlyApprovedIsOrdered
  <2>3. QED
    BY <2>1, <2>2, ApprovalsStay DEF DecisionsInv
<1>3. CASE o \notin 1 .. Len(orders)
  <2>1. Len(orders') # Len(orders)
    BY <1>1, <1>3
  <2>2. PICK m \in Managers : SubmitAccepted(m) \/ SubmitUnanswered(m)
    BY <2>1, OrdersAdded
  <2>3. worker[m].pc = "submit" /\ PlaceOrder(m)
    BY <2>2 DEF SubmitAccepted, SubmitUnanswered, At
  <2>4. /\ worker[m].cr \in Requests /\ CallOK(m)
        /\ worker[m].rv \in 1 .. Len(log[worker[m].cr])
    BY <2>3, CallHasRequest DEF CallInv
  <2>5. o = Len(orders) + 1 /\ orders'[o] = [cr |-> worker[m].cr, state |-> "PROCESSING"]
    BY <1>1, <1>3, <2>3, <2>4, PlaceOrderAdds DEF CallInv
  <2>6. c = worker[m].cr
    BY <2>5
  <2>7. log[c][worker[m].rv].approval = "approved"
    BY <2>3, <2>4, <2>6 DEF CallOK, Ignored
  <2>8. Latest(c).approval = "approved"
    BY <2>4, <2>6, <2>7 DEF DecisionsInv, ApprovalsLast
  <2>9. QED
    BY <2>4, <2>6, <2>8, ApprovalsStay DEF DecisionsInv
<1>4. QED
  BY <1>2, <1>3

\* Decisions last and only approved requests are ordered, at every step.
THEOREM DecisionsSound == Spec => []DecisionsInv
<1>1. CallInv /\ DecisionsInv /\ [Next]_vars => DecisionsInv'
  BY CopiesKeepApprovalNext, ApprovalsLastNext, OnlyApprovedNext DEF DecisionsInv
<1>2. QED
  BY <1>1, CallsConsistent, DecisionsInvInit, PTL DEF Spec

\* No status update, whatever version it was computed from, undoes an approval, a
\* denial, a deletion or a final condition.
THEOREM DecisionsStay == Spec => DecisionsAreFinal
<1>1. CallInv /\ DecisionsInv /\ [Next]_vars =>
        [\A c \in Requests :
            /\ Latest(c).approval # "none" => Latest(c)'.approval = Latest(c).approval
            /\ Latest(c).deleted => Latest(c)' = Latest(c)
            /\ Latest(c).ready \in {"Issued", "Failed", "Denied"} =>
                  Latest(c)'.ready = Latest(c).ready]_vars
  BY NextKeepsDecisions DEF DecisionsInv, KeepsDecisions
<1>2. QED
  BY <1>1, CallsConsistent, DecisionsSound, PTL DEF Spec, DecisionsAreFinal

\* With CheckApprovedCondition, essendi XC is only asked to certify requests that
\* were approved.
THEOREM OnlyApprovedRequestsAreOrdered == Spec => []OnlyApprovedIsOrdered
<1>1. DecisionsInv => OnlyApprovedIsOrdered
  BY DEF DecisionsInv
<1>2. QED
  BY <1>1, DecisionsSound, PTL

-----------------------------------------------------------------------------
(***************************************************************************)
(* Reports: what the Ready condition says fits the request.                  *)
(***************************************************************************)

\* What ReportsFitTheRequest asks of one version.
FitsRequest(c, v) ==
    /\ v.ready \in ReportsFor(IssuerRef[c])
    /\ v.ready = "Denied" <=> v.failureTime
    /\ v.ready = "Denied" => v.approval = "denied"
    /\ CheckApprovedCondition /\ v.ready # "absent" => v.approval = "approved"

\* The inductive invariant: completed working copies fit their request as well.
ReportsInv ==
    /\ ReportsFitTheRequest
    /\ \A m \in Managers :
          worker[m].pc = "update" => FitsRequest(worker[m].cr, worker[m].obj)

LEMMA ReportKeepsRest ==
    ASSUME NEW v \in Version, NEW r, NEW o
    PROVE  /\ SetReady(v, r, o).ready = r
           /\ SetReady(v, r, o).approval = v.approval
           /\ SetReady(v, r, o).failureTime = v.failureTime
           /\ LET w == [SetReady(v, r, o) EXCEPT !.failureTime = TRUE]
              IN  w.ready = r /\ w.approval = v.approval /\ w.failureTime = TRUE
           /\ \A k, root :
                LET w == [SetReady(v, r, o) EXCEPT !.certificate = k, !.ca = @ \/ root]
                IN  w.ready = r /\ w.approval = v.approval /\ w.failureTime = v.failureTime
  BY DEF SetReady, Version

LEMMA BeginFits ==
    ASSUME CallInv, ReportsInv, NEW m \in Managers, NEW c \in Requests, Begin(m, c),
           worker'[m].pc = "update", worker'[m] # worker[m]
    PROVE  FitsRequest(worker'[m].cr, worker'[m].obj)
<1> DEFINE v == Cached(m, c)
<1>1. Takes(m, c) /\ ~Ignored(c, v) /\ seen[m][c] \in 1 .. Len(log[c]) /\ v \in Version
  BY BeginStarts, CachedTyped DEF CallInv, Takes
<1>2. FitsRequest(c, v)
  BY <1>1 DEF ReportsInv, ReportsFitTheRequest, FitsRequest, Cached
<1>3. /\ v.ready \notin {"Denied", "Failed", "Issued"} /\ ~v.failureTime
      /\ IssuerRef[c] \in RefKinds \ {"ForeignGroup"}
      /\ CheckApprovedCondition => v.approval = "approved"
  BY <1>1, <1>2, ConstantsAssumption DEF Ignored, FitsRequest, Version
<1>4. ASSUME NEW pc, NEW w, NEW result, NEW event, Works(m, c, pc, w, result, event),
             FitsRequest(c, w)
      PROVE  FitsRequest(worker'[m].cr, worker'[m].obj)
  <2>1. worker'[m] = [pc |-> pc, cr |-> c, rv |-> seen[m][c], obj |-> w,
                      result |-> result, event |-> event]
    BY <1>4, WorksChanges
  <2>2. worker'[m].cr = c /\ worker'[m].obj = w
    BY <2>1
  <2>3. QED
    BY <1>4, <2>2
<1> HIDE DEF v
<1>5. CASE MarkDenied(m, c)
  <2> DEFINE w == [SetReady(v, "Denied", 0) EXCEPT !.failureTime = TRUE]
  <2>1. w.ready = "Denied" /\ w.approval = v.approval /\ w.failureTime = TRUE
    BY <1>1, ReportKeepsRest
  <2>2. v.approval = "denied" /\ Works(m, c, "update", w, "done", "Normal")
    BY <1>5 DEF MarkDenied, v
  <2> HIDE DEF w
  <2>3. FitsRequest(c, w)
    BY <1>3, <2>1, <2>2 DEF FitsRequest, ReportsFor, RefKinds, HandledKinds, ReadyStates
  <2>4. QED
    BY <1>4, <2>2, <2>3
<1>6. CASE Initialise(m, c)
  <2> DEFINE w == SetReady(v, "Initialising", 0)
  <2>1. w.ready = "Initialising" /\ w.approval = v.approval /\ w.failureTime = v.failureTime
    BY <1>1, ReportKeepsRest
  <2>2. Works(m, c, "update", w, "done", "Normal")
    BY <1>6 DEF Initialise, v
  <2> HIDE DEF w
  <2>3. FitsRequest(c, w)
    BY <1>3, <2>1 DEF FitsRequest, ReportsFor, RefKinds, HandledKinds, ReadyStates
  <2>4. QED
    BY <1>4, <2>2, <2>3
<1>7. CASE RejectKind(m, c)
  <2> DEFINE w == SetReady(v, "Failed", 0)
  <2>1. w.ready = "Failed" /\ w.approval = v.approval /\ w.failureTime = v.failureTime
    BY <1>1, ReportKeepsRest
  <2>2. IssuerRef[c] = "Unregistered" /\ Works(m, c, "update", w, "done", "Warning")
    BY <1>7 DEF RejectKind, v
  <2> HIDE DEF w
  <2>3. FitsRequest(c, w)
    BY <1>3, <2>1, <2>2 DEF FitsRequest, ReportsFor, HandledKinds
  <2>4. QED
    BY <1>4, <2>2, <2>3
<1>8. CASE PanicOnKind(m, c) \/ ResolveIssuer(m, c)
  BY <1>2, <1>4, <1>8 DEF PanicOnKind, ResolveIssuer, v
<1>9. QED
  BY <1>5, <1>6, <1>7, <1>8 DEF Begin, IgnoreRequest

\* The calls to essendi XC are made for kinds that are handled, of requests that are
\* not denied.
LEMMA CallFits ==
    ASSUME CallInv, ReportsInv, NEW m \in Managers, Call(m), worker'[m].pc = "update"
    PROVE  FitsRequest(worker'[m].cr, worker'[m].obj)
<1> DEFINE v == worker[m].obj
           c == worker[m].cr
<1>1. worker[m].pc \in {"signer", "submit", "poll", "fetch"}
  BY CallOutcome
<1>2. /\ v \in Version /\ c \in Requests /\ worker[m].rv \in 1 .. Len(log[c])
      /\ v = log[c][worker[m].rv] /\ ~Ignored(c, v) /\ IssuerRef[c] \in HandledKinds
  BY <1>1, CallHasRequest DEF CallInv, CallOK, TypeOK, Work
<1>3. FitsRequest(c, v)
  BY <1>2 DEF ReportsInv, ReportsFitTheRequest, FitsRequest
<1>4. /\ v.ready # "Denied" /\ ~v.failureTime
      /\ CheckApprovedCondition => v.approval = "approved"
  BY <1>2, <1>3 DEF Ignored, FitsRequest, Version
<1>5. ASSUME NEW w \in Version, w.ready # "Denied", w.approval = v.approval,
             w.failureTime = v.failureTime
      PROVE  FitsRequest(c, w)
  <2>1. w.ready \in ReportsFor(IssuerRef[c])
    BY <1>2 DEF ReportsFor, HandledKinds, Version
  <2>2. ~w.failureTime
    BY <1>4, <1>5
  <2>3. QED
    BY <1>4, <1>5, <2>1, <2>2 DEF FitsRequest
<1>6. ~SignerBuilt(m)
  BY <1>1 DEF SignerBuilt, CallInv, TypeOK, Work
<1>7. PICK w, result, event : Outcome(m, w, result, event)
  BY <1>6, CallOutcome
<1>8. worker'[m].cr = c /\ worker'[m].obj = w /\ w \in Version
  <2>1. worker'[m] = [pc |-> "update", cr |-> c, rv |-> worker[m].rv, obj |-> w,
                      result |-> result, event |-> event]
    BY <1>7, OutcomeChanges
  <2>2. QED
    BY <1>7, <2>1 DEF Outcome
<1>9. ASSUME NEW u, NEW res, NEW e, Returns(m, u, res, e)
      PROVE  worker'[m].obj = u
  BY <1>9 DEF Returns, CallInv, TypeOK, Work
<1>10. \A r, o : /\ SetReady(v, r, o).ready = r /\ SetReady(v, r, o).approval = v.approval
                 /\ SetReady(v, r, o).failureTime = v.failureTime
  BY <1>2, ReportKeepsRest
<1> HIDE DEF v, c
<1>11. w.ready # "Denied" /\ w.approval = v.approval /\ w.failureTime = v.failureTime
  <2>1. CASE ReturnsError(m)
    BY <1>4, <1>8, <1>9, <1>10, <2>1 DEF ReturnsError, v
  <2>2. CASE FetchSucceeds(m)
    <3>1. PICK root \in BOOLEAN :
            Returns(m, [SetReady(v, "Issued", 0) EXCEPT !.certificate = v.order,
                                                        !.ca = @ \/ root],
                    "done", "Normal")
      BY <2>2 DEF FetchSucceeds, v
    <3>2. w = [SetReady(v, "Issued", 0) EXCEPT !.certificate = v.order, !.ca = @ \/ root]
      BY <1>8, <1>9, <3>1
    <3>3. QED
      BY <1>2, <3>2, ReportKeepsRest
  <2>3. CASE SubmitAccepted(m) \/ SubmitUnanswered(m)
    BY <1>4, <1>8, <1>9, <1>10, <2>3 DEF SubmitAccepted, SubmitUnanswered, v
  <2>4. CASE PollAnswered(m)
    BY <1>8, <1>9, <1>10, <2>4 DEF PollAnswered, PollSigned, PollProgress, PollRejected, v
  <2>5. CASE PollNoNews(m) \/ PollFails(m)
    BY <1>4, <1>8, <1>9, <2>5 DEF PollNoNews, PollFails, v
  <2>6. QED
    BY <1>6, <2>1, <2>2, <2>3, <2>4, <2>5 DEF Call, SignerUnavailable, SubmitRejected, FetchFails
<1>12. QED
  BY <1>5, <1>8, <1>11

\* Approving, denying, touching and deleting leave what was reported.
LEMMA EnvironmentFits ==
    ASSUME CallInv, ReportsInv, NEW c \in Requests, Environment(c)
    PROVE  FitsRequest(c, Latest(c)')
<1> DEFINE v == Latest(c)
<1>1. v \in Version /\ Len(log[c]) \in 1 .. Len(log[c])
  BY LatestTyped DEF CallInv
<1>2. FitsRequest(c, v)
  BY <1>1 DEF ReportsInv, ReportsFitTheRequest, FitsRequest, Latest
<1>3. ASSUME NEW w \in Version, Store(c, w)
      PROVE  Latest(c)' = w
  BY <1>3, AppendVersion DEF Store, Latest, CallInv
<1> HIDE DEF v
<1>4. CASE Touch(c)
  BY <1>1, <1>2, <1>3, <1>4 DEF Touch, v
<1>5. CASE Delete(c)
  <2> DEFINE w == [v EXCEPT !.deleted = TRUE]
  <2>1. /\ w \in Version /\ w.approval = v.approval /\ w.ready = v.ready
        /\ w.failureTime = v.failureTime
    BY <1>1 DEF Version
  <2>2. Store(c, w)
    BY <1>5 DEF Delete, v
  <2> HIDE DEF w
  <2>3. QED
    BY <1>2, <1>3, <2>1, <2>2 DEF FitsRequest
<1>6. ASSUME NEW a \in {"approved", "denied"}, Decide(c, a)
      PROVE  FitsRequest(c, Latest(c)')
  <2> DEFINE w == [v EXCEPT !.approval = a]
  <2>1. /\ w \in Version /\ w.ready = v.ready /\ w.failureTime = v.failureTime
    BY <1>1 DEF Version
  <2>2. Store(c, w) /\ v.approval = "none"
    BY <1>6 DEF Decide, v
  <2> HIDE DEF w
  <2>3. QED
    BY <1>2, <1>3, <2>1, <2>2 DEF FitsRequest
<1>7. QED
  BY <1>4, <1>5, <1>6 DEF Environment, Approve, Deny

LEMMA ReportsInvNext == CallInv /\ ReportsInv /\ [Next]_vars => ReportsInv'
<1> SUFFICES ASSUME CallInv, ReportsInv, [Next]_vars
             PROVE  ReportsInv'
  OBVIOUS
<1>1. /\ Grows
      /\ \A c \in Requests : /\ Len(log[c]) \in Nat /\ Len(log'[c]) \in Nat
                             /\ Len(log'[c]) <= Len(log[c]) + 1
  BY VersionsGrow DEF CallInv, TypeOK, Grows
<1>2. ASSUME NEW c \in Requests, log'[c] # log[c]
      PROVE  FitsRequest(c, Latest(c)')
  <2>1. CASE \E d \in Requests : Environment(d)
    BY <1>2, <2>1, EnvironmentGrows, EnvironmentFits
  <2>2. ASSUME NEW m \in Managers, End(m)
        PROVE  FitsRequest(c, Latest(c)')
    <3>1. worker[m].cr = c /\ worker[m].pc = "update" /\ Latest(c)' = worker[m].obj
      BY <1>2, <2>2, EndEffect DEF Latest
    <3>2. QED
      BY <3>1 DEF ReportsInv
  <2>3. ASSUME NEW m \in Managers, NEW d \in Requests, Begin(m, d)
        PROVE  FALSE
    BY <1>2, <2>3, BeginStarts DEF Takes
  <2>4. ASSUME NEW m \in Managers, Call(m)
        PROVE  FALSE
    BY <1>2, <2>4, CallOutcome
  <2>5. QED
    BY <1>2, <2>1, <2>2, <2>3, <2>4
    DEF Next, vars, OrderProgress, Informer, Deliver, Resync, TimerFires, Crash
<1>3. ASSUME NEW c \in Requests, NEW i \in 1 .. Len(log'[c])
      PROVE  FitsRequest(c, log'[c][i])
  <2>1. CASE i \in 1 .. Len(log[c])
    BY <1>1, <2>1 DEF Grows, ReportsInv, ReportsFitTheRequest, FitsRequest
  <2>2. CASE i \notin 1 .. Len(log[c])
    <3>1. i = Len(log'[c]) /\ log'[c] # log[c]
      BY <1>1, <2>2
    <3>2. QED
      BY <1>2, <3>1 DEF Latest
  <2>3. QED
    BY <2>1, <2>2
<1>4. ASSUME NEW m \in Managers, worker'[m].pc = "update"
      PROVE  FitsRequest(worker'[m].cr, worker'[m].obj)
  <2>1. CASE worker'[m] = worker[m]
    BY <1>4, <2>1 DEF ReportsInv
  <2>2. CASE worker'[m] # worker[m]
    BY <1>4, <2>2, WorkerMoves, BeginFits, CallFits
  <2>3. QED
    BY <2>1, <2>2
<1>5. ReportsFitTheRequest'
  BY <1>3 DEF ReportsFitTheRequest, FitsRequest
<1>6. QED
  BY <1>4, <1>5 DEF ReportsInv, FitsRequest

\* Requests that are not the controller's are left alone; with CheckApprovedCondition
\* nothing is reported before the approval, so that a denial is never marked.
THEOREM ReportsFit == Spec => []ReportsFitTheRequest
<1>1. Init => ReportsInv
  <2> SUFFICES ASSUME Init PROVE ReportsInv
    OBVIOUS
  <2>1. \A c \in Requests : log[c] = <<NewRequest>>
    BY DEF Init
  <2>2. \A c \in Requests : FitsRequest(c, NewRequest)
    BY DEF FitsRequest, NewRequest, ReportsFor, ReadyStates
  <2>3. ReportsFitTheRequest
    BY <2>1, <2>2 DEF ReportsFitTheRequest, FitsRequest
  <2>4. QED
    BY <2>3 DEF ReportsInv, Init, Idle
<1>2. ReportsInv => ReportsFitTheRequest
  BY DEF ReportsInv
<1>3. QED
  BY <1>1, <1>2, ReportsInvNext, CallsConsistent, PTL DEF Spec

-----------------------------------------------------------------------------
(* Placing a task.                                                           *)

\* What TasksAreCalledFor asks of a step: a task for a request that needs none is
\* placed only by a call that works on an older version.
OnlyStaleCallsRepeat ==
    \A c \in Requests :
        /\ Len(orders') > Len(orders)
        /\ orders'[Len(orders')].cr = c
        /\ Latest(c).order # 0 \/ Ignored(c, Latest(c)) \/ Latest(c).approval = "denied"
        => \E m \in Managers :
              /\ worker[m].pc = "submit" /\ worker'[m].pc = "update"
              /\ worker[m].cr = c /\ ~IsCurrent(m)

\* A call that submits was begun for a version that followed no task; when that is
\* still the stored one, the request needs the task.
LEMMA SubmitIsCalledFor ==
    ASSUME CallInv, OrdersInv, [Next]_vars
    PROVE  OnlyStaleCallsRepeat
<1> SUFFICES ASSUME NEW c \in Requests,
                    Len(orders') > Len(orders), orders'[Len(orders')].cr = c,
                    Latest(c).order # 0 \/ Ignored(c, Latest(c)) \/ Latest(c).approval = "denied"
             PROVE  \E m \in Managers :
                       /\ worker[m].pc = "submit" /\ worker'[m].pc = "update"
                       /\ worker[m].cr = c /\ ~IsCurrent(m)
  BY DEF OnlyStaleCallsRepeat
<1>1. Len(orders) \in Nat
  BY DEF CallInv, TypeOK
<1>2. PICK m \in Managers : SubmitAccepted(m) \/ SubmitUnanswered(m)
  BY <1>1, OrdersAdded
<1>3. worker[m].pc = "submit" /\ worker'[m].pc = "update" /\ PlaceOrder(m)
  BY <1>2 DEF SubmitAccepted, SubmitUnanswered, At, Returns, CallInv, TypeOK, Work
<1>4. worker[m].cr \in Requests /\ worker[m].rv \in 1 .. Len(log[worker[m].cr])
  BY <1>3, CallHasRequest
<1>5. worker[m].cr = c
  <2>1. /\ Len(orders') = Len(orders) + 1
        /\ orders'[Len(orders) + 1] = [cr |-> worker[m].cr, state |-> "PROCESSING"]
    BY <1>3, <1>4, PlaceOrderAdds DEF CallInv
  <2>2. QED
    BY <2>1
<1>6. ASSUME IsCurrent(m)
      PROVE  FALSE
  <2>1. Latest(c) = log[c][worker[m].rv]
    BY <1>5, <1>6 DEF IsCurrent, Latest
  <2>2. /\ ~Ignored(c, Latest(c)) /\ Latest(c).approval # "denied"
        /\ ~IsSubmitted(Latest(c)) /\ ~IsSigned(Latest(c))
    BY <1>3, <1>5, <2>1 DEF CallInv, CallOK
  <2>3. Latest(c).order = 0
    BY <2>2, LatestSound DEF SoundFor
  <2>4. QED
    BY <2>2, <2>3
<1>7. QED
  BY <1>3, <1>5, <1>6

\* A task is placed for a request that follows one already, is decided, denied or
\* deleted only by a call whose status update will be refused.
THEOREM TasksAreNeeded == Spec => TasksAreCalledFor
<1>1. CallInv /\ OrdersInv /\ [Next]_vars => [OnlyStaleCallsRepeat]_vars
  BY SubmitIsCalledFor
<1>2. QED
  BY <1>1, CallsConsistent, OrdersSound, PTL
  DEF Spec, TasksAreCalledFor, OnlyStaleCallsRepeat

-----------------------------------------------------------------------------
(* A task that was lost is not followed again.                               *)

\* The call of m is about to record another task than the version it was read at.
Fresh(m) ==
    /\ worker[m].pc = "update"
    /\ worker[m].obj.order # 0
    /\ worker[m].obj.order # log[worker[m].cr][worker[m].rv].order

\* No version of c records task o.
Unstored(c, o) == \A i \in 1 .. Len(log[c]) : log[c][i].order # o

\* A task that is about to be recorded for the first time is in no version, and only
\* one call is about to record it.
LostInv ==
    /\ LostTasksStayLost
    /\ \A m \in Managers :
          Fresh(m) =>
              /\ Unstored(worker[m].cr, worker[m].obj.order)
              /\ \A n \in Managers \ {m} :
                    Fresh(n) => worker[n].obj.order # worker[m].obj.order

\* What a step has to show: of the version it stores, and of a call it brings to
\* its status update.
StoresLost(c) ==
    LET o == log'[c][Len(log[c]) + 1].order IN
    \/ Len(log'[c]) = Len(log[c])
    \/ /\ Len(log'[c]) = Len(log[c]) + 1
       /\ \/ o \in {0, Latest(c).order}
          \/ /\ Unstored(c, o)
             /\ \A n \in Managers : Fresh(n)' => worker'[n].obj.order # o

CompletesLost(m) ==
    Fresh(m)' =>
        \/ worker'[m] = worker[m]
        \/ /\ worker'[m].obj.order = Len(orders) + 1
           /\ log' = log
           /\ worker'[m].cr \in Requests
           /\ \A n \in Managers \ {m} : worker'[n] = worker[n]

LEMMA LostFrame ==
    ASSUME CallInv, OrdersInv, LostInv, Grows,
           \A c \in Requests : StoresLost(c),
           \A m \in Managers : CompletesLost(m)
    PROVE  LostInv'
<1>1. \A c \in Requests : Len(log[c]) \in Nat \ {0} /\ Len(log'[c]) \in Nat
  BY DEF CallInv, TypeOK, Grows
<1>2. LostTasksStayLost'
  <2> SUFFICES ASSUME NEW c \in Requests, NEW i \in 1 .. Len(log'[c]),
                      NEW k \in 1 .. Len(log'[c]), i < k,
                      log'[c][i].order # 0, log'[c][k].order = log'[c][i].order
               PROVE  log'[c][k - 1].order = log'[c][i].order
    BY DEF LostTasksStayLost
  <2>1. CASE k \in 1 .. Len(log[c])
    <3>1. i \in 1 .. Len(log[c]) /\ k - 1 \in 1 .. Len(log[c])
      BY <1>1, <2>1
    <3>2. log'[c][i] = log[c][i] /\ log'[c][k] = log[c][k] /\ log'[c][k - 1] = log[c][k - 1]
      BY <2>1, <3>1 DEF Grows
    <3>3. QED
      BY <2>1, <3>1, <3>2 DEF LostInv, LostTasksStayLost
  <2>2. CASE k \notin 1 .. Len(log[c])
    <3>1. k = Len(log[c]) + 1 /\ Len(log'[c]) = Len(log[c]) + 1
      BY <1>1, <2>2 DEF StoresLost
    <3>2. i \in 1 .. Len(log[c]) /\ k - 1 \in 1 .. Len(log[c]) /\ k - 1 = Len(log[c])
      BY <1>1, <3>1
    <3>3. log'[c][i] = log[c][i] /\ log'[c][k - 1] = Latest(c)
      BY <3>2 DEF Grows, Latest
    <3>4. ~Unstored(c, log'[c][k].order)
      BY <3>2, <3>3 DEF Unstored
    <3>5. log'[c][k].order = Latest(c).order
      BY <1>1, <3>1, <3>4 DEF StoresLost
    <3>6. QED
      BY <3>3, <3>5
  <2>3. QED
    BY <2>1, <2>2
<1>3. ASSUME NEW m \in Managers, Fresh(m)', worker'[m] = worker[m]
      PROVE  /\ Fresh(m)
             /\ worker[m].cr \in Requests
  <2>1. /\ worker[m].pc = "update" /\ worker[m].cr \in Requests
        /\ worker[m].rv \in 1 .. Len(log[worker[m].cr])
    BY <1>3, CallHasRequest DEF Fresh
  <2>2. log'[worker[m].cr][worker[m].rv] = log[worker[m].cr][worker[m].rv]
    BY <2>1 DEF Grows
  <2>3. QED
    BY <1>3, <2>1, <2>2 DEF Fresh
<1>4. \A m \in Managers :
        worker[m].pc = "update" /\ worker[m].obj.order # 0 =>
            worker[m].obj.order <= Len(orders)
  BY DEF OrdersInv, SoundFor
<1>5. /\ Len(orders) \in Nat
      /\ \A m \in Managers : worker[m].obj.order \in Nat
      /\ \A c \in Requests : \A i \in 1 .. Len(log[c]) : log[c][i].order \in Nat
  <2>1. \A m \in Managers : worker[m].obj \in Version
    BY DEF CallInv, TypeOK, Work
  <2>2. \A c \in Requests : \A i \in 1 .. Len(log[c]) : log[c][i] \in Version
    BY DEF CallInv, TypeOK
  <2>3. Len(orders) \in Nat
    BY DEF CallInv, TypeOK
  <2>4. QED
    BY <2>1, <2>2, <2>3 DEF Version
<1>6. ASSUME NEW m \in Managers, Fresh(m)'
      PROVE  Unstored(worker[m].cr, worker[m].obj.order)'
  <2>1. CASE worker'[m] = worker[m]
    <3> DEFINE c == worker[m].cr
               o == worker[m].obj.order
    <3>1. Unstored(c, o) /\ c \in Requests
      BY <1>3, <1>6, <2>1 DEF LostInv
    <3>2. o # 0 /\ worker'[m].obj.order = o /\ worker'[m].cr = c
      BY <1>6, <2>1 DEF Fresh
    <3> HIDE DEF c, o
    <3>3. ASSUME NEW i \in 1 .. Len(log'[c])
          PROVE  log'[c][i].order # o
      <4>1. CASE i \in 1 .. Len(log[c])
        BY <3>1, <4>1 DEF Grows, Unstored
      <4>2. CASE i \notin 1 .. Len(log[c])
        <5>1. i = Len(log[c]) + 1 /\ Len(log'[c]) = Len(log[c]) + 1
          BY <1>1, <3>1, <4>2 DEF StoresLost
        <5>2. Latest(c).order # o
          BY <1>1, <3>1 DEF Unstored, Latest
        <5>3. QED
          BY <1>1, <1>6, <3>1, <3>2, <5>1, <5>2 DEF StoresLost
      <4>3. QED
        BY <4>1, <4>2
    <3>4. QED
      BY <3>2, <3>3 DEF Unstored
  <2>2. CASE worker'[m] # worker[m]
    <3> DEFINE c == worker'[m].cr
    <3>1. worker'[m].obj.order = Len(orders) + 1 /\ log' = log /\ c \in Requests
      BY <1>6, <2>2 DEF CompletesLost
    <3> HIDE DEF c
    <3>2. \A i \in 1 .. Len(log[c]) : log[c][i].order # 0 => log[c][i].order <= Len(orders)
      BY <3>1 DEF OrdersInv, SoundFor
    <3>3. \A i \in 1 .. Len(log[c]) : log[c][i].order # Len(orders) + 1
      BY <1>5, <3>1, <3>2
    <3>4. QED
      BY <3>1, <3>3 DEF Unstored, c
  <2>3. QED
    BY <2>1, <2>2
<1>7. ASSUME NEW m \in Managers, NEW n \in Managers \ {m}, Fresh(m)', Fresh(n)'
      PROVE  worker'[n].obj.order # worker'[m].obj.order
  <2>1. CASE worker'[m] = worker[m] /\ worker'[n] = worker[n]
    BY <1>3, <1>7, <2>1 DEF LostInv
  <2>2. ASSUME NEW j \in Managers, NEW k \in Managers \ {j}, Fresh(j)', Fresh(k)',
               worker'[j] # worker[j]
        PROVE  worker'[k].obj.order # worker'[j].obj.order
    <3>1. worker'[j].obj.order = Len(orders) + 1 /\ worker'[k] = worker[k]
      BY <2>2 DEF CompletesLost
    <3>2. worker[k].obj.order <= Len(orders)
      BY <1>4, <2>2, <3>1 DEF Fresh
    <3>3. QED
      BY <1>5, <3>1, <3>2
  <2>3. QED
    BY <1>7, <2>1, <2>2
<1>8. QED
  BY <1>2, <1>6, <1>7 DEF LostInv

LEMMA LostInvInit == Init => LostInv
<1> SUFFICES ASSUME Init PROVE LostInv
  OBVIOUS
<1>1. \A c \in Requests : Len(log[c]) = 1
  <2>1. log = [c \in Requests |-> <<NewRequest>>]
    BY DEF Init
  <2>2. QED
    BY <2>1
<1>2. \A m \in Managers : ~Fresh(m)
  BY DEF Init, Idle, Fresh
<1>3. QED
  BY <1>1, <1>2 DEF LostInv, LostTasksStayLost

\* A call reaches its status update with the task of the version it was read at,
\* with none, or with the one it has just placed.
LEMMA CallCompletesLost ==
    ASSUME CallInv, NEW m \in Managers, Call(m)
    PROVE  \A n \in Managers : CompletesLost(n)
<1> DEFINE v == worker[m].obj
<1>1. /\ log' = log /\ worker[m].pc \in {"signer", "submit", "poll", "fetch"}
      /\ worker \in [Managers -> Work]
      /\ SignerBuilt(m) \/ \E obj, result, event : Outcome(m, obj, result, event)
  BY CallOutcome DEF CallInv, TypeOK
<1>2. /\ worker[m].cr \in Requests /\ v \in Version
      /\ v = log[worker[m].cr][worker[m].rv]
  BY <1>1, CallHasRequest DEF CallInv, CallOK, TypeOK, Work
<1>3. \A n \in Managers \ {m} : worker'[n] = worker[n]
  BY <1>1, OutcomeChanges DEF SignerBuilt
<1>4. ASSUME NEW w, NEW result, NEW event, Returns(m, w, result, event)
      PROVE  worker'[m].obj = w /\ worker'[m].cr = worker[m].cr /\ worker'[m].rv = worker[m].rv
  BY <1>1, <1>4 DEF Returns, Work
<1>5. ASSUME NEW w, NEW result, NEW event, Returns(m, w, result, event),
             w.order \in {0, v.order}
      PROVE  CompletesLost(m)
  BY <1>1, <1>2, <1>4, <1>5 DEF CompletesLost, Fresh
<1>6. \A r, o : SetReady(v, r, o).order = o
  BY <1>2 DEF SetReady, Version
<1>7. \A o, root : [SetReady(v, "Issued", 0) EXCEPT !.certificate = o,
                                                     !.ca = @ \/ root].order = 0
  BY <1>2 DEF SetReady, Version
<1> HIDE DEF v
<1>8. ASSUME ReturnsError(m)
      PROVE  CompletesLost(m)
  BY <1>5, <1>6, <1>8 DEF ReturnsError, v
<1>9. ASSUME FetchSucceeds(m)
      PROVE  CompletesLost(m)
  <2>1. PICK root \in BOOLEAN :
          Returns(m, [SetReady(v, "Issued", 0) EXCEPT !.certificate = v.order,
                                                      !.ca = @ \/ root],
                  "done", "Normal")
    BY <1>9 DEF FetchSucceeds, v
  <2> DEFINE w == [SetReady(v, "Issued", 0) EXCEPT !.certificate = v.order, !.ca = @ \/ root]
  <2>2. Returns(m, w, "done", "Normal") /\ w.order = 0
    BY <1>7, <2>1
  <2> HIDE DEF w
  <2>3. QED
    BY <1>5, <2>2
<1>10. ASSUME SubmitAccepted(m)
       PROVE  CompletesLost(m)
  <2>1. Returns(m, SetReady(v, "Submitted", Len(orders) + 1), "requeue", "Normal")
    BY <1>10 DEF SubmitAccepted, v
  <2>2. worker'[m].obj.order = Len(orders) + 1 /\ worker'[m].cr = worker[m].cr
    BY <1>4, <1>6, <2>1
  <2>3. QED
    BY <1>1, <1>2, <1>3, <2>2 DEF CompletesLost
<1>11. ASSUME \/ SubmitUnanswered(m) \/ PollAnswered(m) \/ PollNoNews(m) \/ PollFails(m)
       PROVE  CompletesLost(m)
  BY <1>5, <1>6, <1>11 DEF SubmitUnanswered, PollAnswered, PollSigned, PollProgress,
      PollRejected, PollNoNews, PollFails, v
<1>12. ASSUME SignerBuilt(m)
       PROVE  CompletesLost(m)
  <2>1. worker'[m].pc # "update"
    BY <1>1, <1>12 DEF SignerBuilt
  <2>2. QED
    BY <2>1 DEF CompletesLost, Fresh
<1>13. CompletesLost(m)
  BY <1>8, <1>9, <1>10, <1>11, <1>12 DEF Call, SignerUnavailable, SubmitRejected, FetchFails
<1>14. QED
  BY <1>3, <1>13 DEF CompletesLost

LEMMA BeginCompletesLost ==
    ASSUME CallInv, NEW m \in Managers, NEW c \in Requests, Begin(m, c)
    PROVE  \A n \in Managers : CompletesLost(n)
<1> DEFINE v == Cached(m, c)
<1>1. Takes(m, c) /\ v \in Version /\ log' = log
  BY BeginStarts, CachedTyped DEF CallInv, Takes
<1>2. \A n \in Managers \ {m} : worker'[n] = worker[n]
  BY BeginLeavesOthers
<1>3. ASSUME NEW pc, NEW w, NEW result, NEW event, Works(m, c, pc, w, result, event),
             w.order \in {0, v.order}
      PROVE  CompletesLost(m)
  <2>1. worker'[m] = [pc |-> pc, cr |-> c, rv |-> seen[m][c], obj |-> w,
                      result |-> result, event |-> event]
    BY <1>3, WorksChanges
  <2>2. /\ worker'[m].cr = c /\ worker'[m].rv = seen[m][c] /\ worker'[m].obj = w
    BY <2>1
  <2>3. QED
    BY <1>1, <1>3, <2>2 DEF CompletesLost, Fresh, Cached
<1>4. \A r, o : SetReady(v, r, o).order = o
  BY <1>1 DEF SetReady, Version
<1>5. [SetReady(v, "Denied", 0) EXCEPT !.failureTime = TRUE].order = 0
  BY <1>1 DEF SetReady, Version
<1> HIDE DEF v
<1>6. ASSUME MarkDenied(m, c)
      PROVE  CompletesLost(m)
  BY <1>3, <1>5, <1>6 DEF MarkDenied, v
<1>7. ASSUME Initialise(m, c) \/ RejectKind(m, c)
      PROVE  CompletesLost(m)
  BY <1>3, <1>4, <1>7 DEF Initialise, RejectKind, v
<1>8. ASSUME PanicOnKind(m, c) \/ ResolveIssuer(m, c)
      PROVE  CompletesLost(m)
  BY <1>3, <1>8 DEF PanicOnKind, ResolveIssuer, v
<1>9. ASSUME IgnoreRequest(m, c)
      PROVE  CompletesLost(m)
  BY <1>9 DEF IgnoreRequest, CompletesLost
<1>10. CompletesLost(m)
  BY <1>6, <1>7, <1>8, <1>9 DEF Begin
<1>11. QED
  BY <1>2, <1>10 DEF CompletesLost

\* The status update stores the task of the version it replaces, none, or a new one.
LEMMA EndStoresLost ==
    ASSUME CallInv, OrdersInv, LostInv, NEW m \in Managers, End(m)
    PROVE  /\ \A d \in Requests : StoresLost(d)
           /\ \A n \in Managers : worker'[n] = worker[n] \/ worker'[n] = Idle
<1>1. PICK c \in Requests : c = worker[m].cr
  BY EndEffect
<1>2. /\ worker[m].pc = "update" /\ Grows
      /\ \A d \in Requests \ {c} : log'[d] = log[d]
      /\ \/ log' = log
         \/ /\ worker[m].rv = Len(log[c])
            /\ Len(log'[c]) = Len(log[c]) + 1
            /\ log'[c][Len(log[c]) + 1] = worker[m].obj
  BY <1>1, EndEffect DEF IsCurrent
<1>3. /\ worker'[m] = Idle
      /\ \A n \in Managers \ {m} : worker'[n] = worker[n]
  <2>1. PICK again \in BOOLEAN : Finish(m, again)
    BY EndEffect
  <2>2. QED
    BY <2>1 DEF Finish, CallInv, TypeOK
<1>4. ASSUME log' # log, worker[m].obj.order \notin {0, Latest(c).order}
      PROVE  /\ Unstored(c, worker[m].obj.order)
             /\ \A n \in Managers : Fresh(n)' => worker'[n].obj.order # worker[m].obj.order
  <2>1. Fresh(m)
    BY <1>1, <1>2, <1>4 DEF Fresh, Latest
  <2>2. Unstored(c, worker[m].obj.order)
    BY <1>1, <2>1 DEF LostInv
  <2>3. ASSUME NEW n \in Managers, Fresh(n)'
        PROVE  worker'[n].obj.order # worker[m].obj.order
    <3>1. n # m /\ worker'[n] = worker[n]
      BY <1>3, <2>3 DEF Fresh, Idle
    <3>2. /\ worker[n].pc = "update" /\ worker[n].cr \in Requests
          /\ worker[n].rv \in 1 .. Len(log[worker[n].cr])
      BY <2>3, <3>1, CallHasRequest DEF Fresh
    <3>3. log'[worker[n].cr][worker[n].rv] = log[worker[n].cr][worker[n].rv]
      BY <1>2, <3>2 DEF Grows
    <3>4. Fresh(n)
      BY <2>3, <3>1, <3>2, <3>3 DEF Fresh
    <3>5. QED
      BY <2>1, <3>1, <3>4 DEF LostInv
  <2>4. QED
    BY <2>2, <2>3
<1>5. StoresLost(c)
  BY <1>2, <1>4 DEF StoresLost
<1>6. QED
  BY <1>2, <1>3, <1>5 DEF StoresLost

LEMMA EnvironmentStoresLost ==
    ASSUME CallInv, NEW c \in Requests, Environment(c)
    PROVE  \A d \in Requests : StoresLost(d)
<1>1. Latest(c) \in Version
  BY LatestTyped DEF CallInv
<1>2. PICK v \in Version : Store(c, v) /\ v.order = Latest(c).order
  <2> DEFINE gone == [Latest(c) EXCEPT !.deleted = TRUE]
             decided(a) == [Latest(c) EXCEPT !.approval = a]
  <2>1. /\ gone \in Version /\ gone.order = Latest(c).order
        /\ \A a \in {"approved", "denied"} :
              decided(a) \in Version /\ decided(a).order = Latest(c).order
    BY <1>1 DEF Version
  <2>2. \/ Store(c, Latest(c)) \/ Store(c, gone)
        \/ Store(c, decided("approved")) \/ Store(c, decided("denied"))
    BY DEF Environment, Approve, Deny, Decide, Touch, Delete
  <2> HIDE DEF gone, decided
  <2>3. QED
    BY <1>1, <2>1, <2>2
<1>3. /\ Len(log'[c]) = Len(log[c]) + 1
      /\ log'[c][Len(log[c]) + 1] = v
      /\ \A d \in Requests \ {c} : log'[d] = log[d]
  BY <1>2, AppendVersion DEF Store, CallInv
<1>4. QED
  BY <1>2, <1>3 DEF StoresLost

LEMMA LostInvNext ==
    ASSUME CallInv, OrdersInv, LostInv, [Next]_vars
    PROVE  LostInv'
<1>1. Grows
  BY VersionsGrow
<1>2. ASSUME log' = log
      PROVE  \A c \in Requests : StoresLost(c)
  BY <1>2 DEF StoresLost
<1>3. ASSUME \A n \in Managers : worker'[n] = worker[n] \/ worker'[n] = Idle
      PROVE  \A n \in Managers : CompletesLost(n)
  BY <1>3 DEF CompletesLost, Fresh, Idle
<1>4. ASSUME NEW c \in Requests, Environment(c)
      PROVE  LostInv'
  BY <1>1, <1>3, <1>4, EnvironmentStoresLost, EnvironmentGrows, LostFrame
<1>5. ASSUME NEW m \in Managers, NEW c \in Requests, Begin(m, c)
      PROVE  LostInv'
  <2>1. log' = log
    BY <1>5, BeginStarts DEF Takes
  <2>2. QED
    BY <1>1, <1>2, <1>5, <2>1, BeginCompletesLost, LostFrame
<1>6. ASSUME NEW m \in Managers, Call(m)
      PROVE  LostInv'
  BY <1>1, <1>2, <1>6, CallOutcome, CallCompletesLost, LostFrame
<1>7. ASSUME NEW m \in Managers, End(m)
      PROVE  LostInv'
  BY <1>1, <1>3, <1>7, EndStoresLost, LostFrame
<1>8. ASSUME log' = log, \A n \in Managers : worker'[n] = worker[n] \/ worker'[n] = Idle
      PROVE  LostInv'
  BY <1>1, <1>2, <1>3, <1>8, LostFrame
<1>9. ASSUME NEW m \in Managers, Crash(m)
      PROVE  LostInv'
  <2>1. log' = log /\ \A n \in Managers : worker'[n] = worker[n] \/ worker'[n] = Idle
    BY <1>9 DEF Crash, CallInv, TypeOK
  <2>2. QED
    BY <1>8, <2>1
<1>10. ASSUME NEW o \in 1 .. Len(orders), OrderProgress(o)
       PROVE  LostInv'
  BY <1>8, <1>10 DEF OrderProgress
<1>11. ASSUME NEW m \in Managers, NEW c \in Requests, Informer(m, c)
       PROVE  LostInv'
  BY <1>8, <1>11 DEF Informer, Deliver, Resync, TimerFires
<1>12. CASE UNCHANGED vars
  BY <1>8, <1>12 DEF vars
<1>13. QED
  BY <1>4, <1>5, <1>6, <1>7, <1>9, <1>10, <1>11, <1>12 DEF Next

\* A task that a request has lost, to the report of a refusal, is not followed again:
\* a call that still holds the version that recorded it cannot store what it learns.
THEOREM LostTasksAreNotFollowed == Spec => []LostTasksStayLost
<1>1. CallInv /\ OrdersInv /\ LostInv /\ [Next]_vars => LostInv'
  BY LostInvNext
<1>2. LostInv => LostTasksStayLost
  BY DEF LostInv
<1>3. QED
  BY <1>1, <1>2, LostInvInit, CallsConsistent, OrdersSound, PTL DEF Spec

=============================================================================
