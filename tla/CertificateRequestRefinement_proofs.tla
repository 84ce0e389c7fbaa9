----------------- MODULE CertificateRequestRefinement_proofs -----------------
(***************************************************************************)
(* The controller implements the lifecycle: each status update that is       *)
(* stored is one step in the life of its request, or none, whatever version  *)
(* and whatever answers of essendi XC it was computed from.                  *)
(***************************************************************************)
EXTENDS CertificateRequestOrders_proofs

\* What an update computed from version v may say besides what its task justifies.
UpdateFor(v, w) ==
    /\ ~w.deleted
    /\ w.ready = "Denied" => v.approval = "denied"
    /\ w.order # 0 /\ v.order = 0 => IsSubmitted(w) /\ v.approval # "denied"

\* The invariant that the refinement needs besides those about tasks and decisions.
UpdatesOK ==
    \A m \in Managers :
        worker[m].pc = "update" => UpdateFor(log[worker[m].cr][worker[m].rv], worker[m].obj)

-----------------------------------------------------------------------------
(* UpdatesOK is inductive.                                                   *)

LEMMA SetReadyFields ==
    ASSUME NEW v \in Version, NEW r, NEW o
    PROVE  /\ SetReady(v, r, o).ready = r /\ SetReady(v, r, o).order = o
           /\ SetReady(v, r, o).deleted = v.deleted
           /\ [SetReady(v, r, o) EXCEPT !.failureTime = TRUE].ready = r
           /\ [SetReady(v, r, o) EXCEPT !.failureTime = TRUE].order = o
           /\ [SetReady(v, r, o) EXCEPT !.failureTime = TRUE].deleted = v.deleted
           /\ \A k, root :
                LET w == [SetReady(v, r, o) EXCEPT !.certificate = k, !.ca = @ \/ root]
                IN  w.ready = r /\ w.order = o /\ w.deleted = v.deleted
  BY DEF SetReady, Version

LEMMA BeginUpdates ==
    ASSUME CallInv, NEW m \in Managers, NEW c \in Requests, Begin(m, c),
           worker'[m].pc = "update", worker'[m] # worker[m]
    PROVE  UpdateFor(log'[worker'[m].cr][worker'[m].rv], worker'[m].obj)
<1> DEFINE v == Cached(m, c)
<1>1. Takes(m, c) /\ v \in Version /\ log' = log
  BY BeginStarts, CachedTyped DEF CallInv, Takes
<1>2. ~Ignored(c, v)
  BY BeginStarts
<1>3. ~v.deleted /\ v.ready # "Denied"
  BY <1>2 DEF Ignored
<1>4. ASSUME NEW pc, NEW w, NEW result, NEW event, Works(m, c, pc, w, result, event),
             UpdateFor(v, w)
      PROVE  UpdateFor(log'[worker'[m].cr][worker'[m].rv], worker'[m].obj)
  BY <1>1, <1>4 DEF Works, Cached, CallInv, TypeOK
<1>5. UpdateFor(v, v)
  BY <1>3 DEF UpdateFor
<1>6. \A r : r # "Denied" => UpdateFor(v, SetReady(v, r, 0))
  BY <1>1, <1>3, SetReadyFields DEF UpdateFor
<1>7. v.approval = "denied" =>
        UpdateFor(v, [SetReady(v, "Denied", 0) EXCEPT !.failureTime = TRUE])
  BY <1>1, <1>3, SetReadyFields DEF UpdateFor
<1> HIDE DEF v
<1>8. ASSUME MarkDenied(m, c)
      PROVE  UpdateFor(log'[worker'[m].cr][worker'[m].rv], worker'[m].obj)
  BY <1>4, <1>7, <1>8 DEF MarkDenied, v
<1>9. ASSUME Initialise(m, c) \/ RejectKind(m, c)
      PROVE  UpdateFor(log'[worker'[m].cr][worker'[m].rv], worker'[m].obj)
  BY <1>4, <1>6, <1>9 DEF Initialise, RejectKind, v
<1>10. ASSUME PanicOnKind(m, c) \/ ResolveIssuer(m, c)
       PROVE  UpdateFor(log'[worker'[m].cr][worker'[m].rv], worker'[m].obj)
  BY <1>4, <1>5, <1>10 DEF PanicOnKind, ResolveIssuer, v
<1>11. QED
  BY <1>8, <1>9, <1>10 DEF Begin, IgnoreRequest

LEMMA CallUpdates ==
    ASSUME CallInv, NEW m \in Managers, Call(m), worker'[m].pc = "update"
    PROVE  UpdateFor(log'[worker'[m].cr][worker'[m].rv], worker'[m].obj)
<1> DEFINE v == worker[m].obj
<1>1. /\ worker[m].pc \in {"signer", "submit", "poll", "fetch"} /\ log' = log
      /\ v \in Version /\ v = log[worker[m].cr][worker[m].rv]
      /\ worker \in [Managers -> Work]
      /\ v.approval # "denied" /\ ~Ignored(worker[m].cr, v)
  BY CallOutcome DEF CallInv, CallOK, TypeOK, Work
<1>2. ~v.deleted /\ v.ready # "Denied"
  BY <1>1 DEF Ignored
<1>3. ASSUME NEW w, NEW result, NEW event, Returns(m, w, result, event), UpdateFor(v, w)
      PROVE  UpdateFor(log'[worker'[m].cr][worker'[m].rv], worker'[m].obj)
  BY <1>1, <1>3 DEF Returns, Work
<1>4. UpdateFor(v, v)
  BY <1>2 DEF UpdateFor
<1>5. \A r, o : r # "Denied" /\ o \in {0, v.order} => UpdateFor(v, SetReady(v, r, o))
  BY <1>1, <1>2, SetReadyFields DEF UpdateFor
<1>6. \A o : UpdateFor(v, SetReady(v, "Submitted", o))
  BY <1>1, <1>2, SetReadyFields DEF UpdateFor, IsSubmitted
<1>7. \A k, root : UpdateFor(v, [SetReady(v, "Issued", 0) EXCEPT !.certificate = k,
                                                                !.ca = @ \/ root])
  BY <1>1, <1>2, SetReadyFields DEF UpdateFor
<1> HIDE DEF v
<1>8. ASSUME ReturnsError(m)
      PROVE  UpdateFor(log'[worker'[m].cr][worker'[m].rv], worker'[m].obj)
  BY <1>3, <1>4, <1>5, <1>8 DEF ReturnsError, v
<1>9. ASSUME FetchSucceeds(m)
      PROVE  UpdateFor(log'[worker'[m].cr][worker'[m].rv], worker'[m].obj)
  <2>1. PICK root \in BOOLEAN :
          Returns(m, [SetReady(v, "Issued", 0) EXCEPT !.certificate = v.order,
                                                      !.ca = @ \/ root],
                  "done", "Normal")
    BY <1>9 DEF FetchSucceeds, v
  <2> DEFINE w == [SetReady(v, "Issued", 0) EXCEPT !.certificate = v.order, !.ca = @ \/ root]
  <2>2. Returns(m, w, "done", "Normal") /\ UpdateFor(v, w)
    BY <1>7, <2>1
  <2> HIDE DEF w
  <2>3. QED
    BY <1>3, <2>2
<1>10. ASSUME SubmitAccepted(m)
       PROVE  UpdateFor(log'[worker'[m].cr][worker'[m].rv], worker'[m].obj)
  BY <1>3, <1>6, <1>10 DEF SubmitAccepted, v
<1>11. ASSUME SubmitUnanswered(m) \/ PollAnswered(m) \/ PollNoNews(m) \/ PollFails(m)
       PROVE  UpdateFor(log'[worker'[m].cr][worker'[m].rv], worker'[m].obj)
  BY <1>3, <1>4, <1>5, <1>11 DEF SubmitUnanswered, PollAnswered, PollSigned,
      PollProgress, PollRejected, PollNoNews, PollFails, v
<1>12. ~SignerBuilt(m)
  BY <1>1 DEF SignerBuilt, Work
<1>13. QED
  BY <1>8, <1>9, <1>10, <1>11, <1>12 DEF Call, SignerUnavailable, SubmitRejected, FetchFails

LEMMA UpdatesOKNext == CallInv /\ UpdatesOK /\ [Next]_vars => UpdatesOK'
<1> SUFFICES ASSUME CallInv, UpdatesOK, [Next]_vars,
                    NEW m \in Managers, worker'[m].pc = "update"
             PROVE  UpdateFor(log'[worker'[m].cr][worker'[m].rv], worker'[m].obj)
  BY DEF UpdatesOK, UpdateFor, IsSubmitted
<1>1. CASE worker'[m] = worker[m]
  <2>1. worker[m].cr \in Requests /\ worker[m].rv \in 1 .. Len(log[worker[m].cr])
    BY <1>1, CallHasRequest
  <2>2. UpdateFor(log[worker[m].cr][worker[m].rv], worker[m].obj)
    BY <1>1 DEF UpdatesOK
  <2>3. log'[worker[m].cr][worker[m].rv] = log[worker[m].cr][worker[m].rv]
    BY <2>1, VersionsGrow DEF Grows
  <2>4. QED
    BY <1>1, <2>2, <2>3
<1>2. CASE worker'[m] # worker[m]
  BY <1>2, WorkerMoves, BeginUpdates, CallUpdates
<1>3. QED
  BY <1>1, <1>2

-----------------------------------------------------------------------------
(* A stored update is a step of the lifecycle.                               *)

LEMMA RequestChanges ==
    ASSUME NEW c \in Requests, NEW w, Latest(c)' = w,
           \A d \in Requests \ {c} : log'[d] = log[d]
    PROVE  request' = [request EXCEPT ![c] = Told(w)] /\ request[c] = Told(Latest(c))
<1>1. request[c] = Told(Latest(c))
  BY DEF request
<1>2. ASSUME NEW d \in Requests
      PROVE  request'[d] = IF d = c THEN Told(w) ELSE request[d]
  <2>1. CASE d = c
    BY <2>1 DEF request, Told, IsSubmitted, IsSigned
  <2>2. CASE d # c
    BY <2>2 DEF request, Told, Latest, IsSubmitted, IsSigned
  <2>3. QED
    BY <2>1, <2>2
<1>3. QED
  BY <1>1, <1>2 DEF request

LEMMA RequestStays ==
    ASSUME log' = log
    PROVE  request' = request
  BY DEF request, Latest, Told, IsSubmitted, IsSigned

\* What the lifecycle calls a move, for an update that keeps the approval.
LEMMA TellsMove ==
    ASSUME NEW c \in Requests, NEW v, NEW w, NEW stage, NEW order, NEW certificate,
           request[c] = Told(v), request' = [request EXCEPT ![c] = Told(w)],
           UNCHANGED orders,
           Told(w) = [approval |-> v.approval, stage |-> stage, order |-> order,
                      certificate |-> certificate]
    PROVE  Lifecycle!Moves(c, stage, order, certificate)
<1>1. request = [d \in Requests |-> request[d]]
  BY DEF request
<1>2. [request[c] EXCEPT !.stage = stage, !.order = order, !.certificate = certificate]
        = Told(w)
  <2>1. PICK s : request[c] = [approval |-> v.approval, stage |-> s, order |-> v.order,
                               certificate |-> v.certificate]
    BY DEF Told
  <2> DEFINE f == [request[c] EXCEPT !.stage = stage]
             g == [f EXCEPT !.order = order]
  <2>2. f = [approval |-> v.approval, stage |-> stage, order |-> v.order,
             certificate |-> v.certificate]
    BY <2>1
  <2> HIDE DEF f
  <2>3. g = [approval |-> v.approval, stage |-> stage, order |-> order,
             certificate |-> v.certificate]
    BY <2>2
  <2> HIDE DEF g
  <2>4. [g EXCEPT !.certificate = certificate] = Told(w)
    BY <2>3
  <2>5. QED
    BY <2>4 DEF f, g
<1>3. [request EXCEPT ![c].stage = stage, ![c].order = order, ![c].certificate = certificate]
        = [request EXCEPT ![c] = Told(w)]
  BY <1>1, <1>2
<1>4. QED
  BY <1>3 DEF Lifecycle!Moves

LEMMA UpdateMoves ==
    ASSUME ConstantsAssumption, orders \in Seq(Order),
           NEW c \in Requests, NEW v \in Version, NEW w \in Version,
           ~Ignored(c, v), w.approval = v.approval, UpdateFor(v, w),
           SoundFor(orders, c, v), SoundFor(orders, c, w), JustifiedFor(orders, c, v, w),
           request[c] = Told(v), request' = [request EXCEPT ![c] = Told(w)],
           UNCHANGED orders
    PROVE  [Lifecycle!Next]_<<request, orders>>
<1> USE DEF IsSubmitted, IsSigned
<1>1. /\ ~v.deleted /\ v.ready \notin {"Issued", "Failed", "Denied"}
      /\ CheckApprovedCondition => v.approval = "approved"
      /\ v.certificate = 0
  BY DEF Ignored, SoundFor, Version
<1>2. ~w.deleted
  BY DEF UpdateFor
<1>3. Told(v) = [approval |-> v.approval,
                 stage |-> IF IsSubmitted(v) THEN "ordered"
                           ELSE IF IsSigned(v) THEN "signed" ELSE "undecided",
                 order |-> v.order, certificate |-> 0]
  BY <1>1 DEF Told
<1>4. Told(w) = [approval |-> v.approval,
                 stage |-> IF IsSubmitted(w) THEN "ordered"
                           ELSE IF IsSigned(w) THEN "signed"
                           ELSE IF w.ready = "Issued" THEN "issued"
                           ELSE IF w.ready = "Failed" THEN "failed"
                           ELSE IF w.ready = "Denied" THEN "denied"
                           ELSE "undecided",
                 order |-> w.order, certificate |-> w.certificate]
  BY <1>2 DEF Told
<1>5. /\ v.order = 0 <=> ~IsSubmitted(v) /\ ~IsSigned(v)
      /\ w.order = 0 <=> ~IsSubmitted(w) /\ ~IsSigned(w)
      /\ w.ready # "Issued" => w.certificate = 0
  BY DEF SoundFor
<1>6. ASSUME w.order # 0, v.order = 0
      PROVE  [Lifecycle!Next]_<<request, orders>>
  <2>1. /\ IsSubmitted(w) /\ v.approval # "denied"
        /\ w.order \in 1 .. Len(orders) /\ orders[w.order].cr = c
        /\ IssuerRef[c] \in HandledKinds
    BY <1>6 DEF UpdateFor, SoundFor, Version
  <2>2. request[c].stage = "undecided" /\ request[c].approval = v.approval
    BY <1>3, <1>5, <1>6
  <2>3. Told(w) = [approval |-> v.approval, stage |-> "ordered", order |-> w.order,
                   certificate |-> 0]
    BY <1>4, <1>5, <2>1
  <2>4. Lifecycle!Moves(c, "ordered", w.order, 0)
    BY <2>3, TellsMove
  <2>5. Lifecycle!Follow(c, w.order)
    BY <1>1, <2>1, <2>2, <2>4 DEF Lifecycle!Follow, Lifecycle!Eligible, HandledKinds
  <2>6. QED
    BY <2>1, <2>5 DEF Lifecycle!Next
<1>7. ASSUME w.order # 0, v.order # 0
      PROVE  [Lifecycle!Next]_<<request, orders>>
  <2>1. w.order = v.order /\ Stage(v) <= Stage(w)
    BY <1>7 DEF JustifiedFor
  <2>2. w.certificate = 0
    BY <1>5, <1>7
  <2>3. CASE IsSigned(w) /\ ~IsSigned(v)
    <3>1. request[c].stage = "ordered" /\ request[c].order = v.order
      BY <1>3, <1>5, <1>7, <2>3
    <3>2. orders[v.order].state = "ISSUED"
      BY <2>1, <2>3 DEF SoundFor
    <3>3. Told(w) = [approval |-> v.approval, stage |-> "signed", order |-> v.order,
                     certificate |-> 0]
      BY <1>4, <2>1, <2>2, <2>3
    <3>4. Lifecycle!Moves(c, "signed", v.order, 0)
      BY <3>3, TellsMove
    <3>5. Lifecycle!Sign(c)
      BY <3>1, <3>2, <3>4 DEF Lifecycle!Sign
    <3>6. QED
      BY <3>5 DEF Lifecycle!Next
  <2>4. CASE ~(IsSigned(w) /\ ~IsSigned(v))
    <3>1. IsSigned(v) => IsSigned(w)
      <4>1. IsSigned(v) => Stage(v) = 4
        BY DEF Stage
      <4>2. IsSubmitted(w) => Stage(w) \in 1 .. 3
        BY DEF Stage
      <4>3. QED
        BY <1>5, <1>7, <2>1, <4>1, <4>2
    <3>2. Told(w) = Told(v)
      BY <1>3, <1>4, <1>5, <1>7, <2>1, <2>2, <2>4, <3>1
    <3>3. request' = request
      BY <3>2 DEF request
    <3>4. QED
      BY <3>3
  <2>5. QED
    BY <2>3, <2>4
<1>8. ASSUME w.order = 0, v.order # 0
      PROVE  [Lifecycle!Next]_<<request, orders>>
  <2>1. /\ w.ready \in {"Issued", "Failed", "Denied", "Retrying"}
        /\ w.ready = "Retrying" => RefusalText
        /\ request[c].stage \in {"ordered", "signed"} /\ request[c].order = v.order
        /\ request[c].approval = v.approval
    BY <1>3, <1>5, <1>8 DEF JustifiedFor
  <2>2. CASE w.ready = "Issued"
    <3>1. IsSigned(v) /\ w.certificate = v.order
      BY <1>1, <2>2 DEF JustifiedFor
    <3>2. Told(w) = [approval |-> v.approval, stage |-> "issued", order |-> 0,
                     certificate |-> v.order]
      BY <1>4, <1>8, <2>2, <3>1
    <3>3. Lifecycle!Moves(c, "issued", 0, v.order)
      BY <3>2, TellsMove
    <3>4. request[c].stage = "signed"
      BY <1>3, <3>1
    <3>5. Lifecycle!Issue(c)
      BY <2>1, <3>3, <3>4 DEF Lifecycle!Issue
    <3>6. QED
      BY <3>5 DEF Lifecycle!Next
  <2>3. CASE w.ready = "Failed"
    <3>1. orders[v.order].state \in RejectedStates
      BY <1>1, <1>8, <2>3 DEF JustifiedFor
    <3>2. ~IsSigned(v)
      BY <3>1 DEF SoundFor, ConstantsAssumption
    <3>3. request[c].stage = "ordered"
      BY <1>3, <1>5, <1>8, <3>2
    <3>4. Told(w) = [approval |-> v.approval, stage |-> "failed", order |-> 0,
                     certificate |-> 0]
      BY <1>4, <1>5, <1>8, <2>3
    <3>5. Lifecycle!Moves(c, "failed", 0, 0)
      BY <3>4, TellsMove
    <3>6. Lifecycle!Reject(c)
      BY <2>1, <3>1, <3>3, <3>5 DEF Lifecycle!Reject
    <3>7. QED
      BY <3>6 DEF Lifecycle!Next
  <2>4. CASE w.ready = "Denied"
    <3>1. Told(w) = [approval |-> v.approval, stage |-> "denied", order |-> 0,
                     certificate |-> 0]
      BY <1>4, <1>5, <1>8, <2>4
    <3>2. Lifecycle!Moves(c, "denied", 0, 0)
      BY <3>1, TellsMove
    <3>3. Lifecycle!MarkDenied(c)
      BY <1>1, <2>1, <2>4, <3>2 DEF Lifecycle!MarkDenied, Lifecycle!Open, UpdateFor
    <3>4. QED
      BY <3>3 DEF Lifecycle!Next
  <2>5. CASE w.ready = "Retrying"
    <3>1. Told(w) = [approval |-> v.approval, stage |-> "undecided", order |-> 0,
                     certificate |-> 0]
      BY <1>4, <1>5, <1>8, <2>5
    <3>2. Lifecycle!Moves(c, "undecided", 0, 0)
      BY <3>1, TellsMove
    <3>3. Lifecycle!Forget(c)
      BY <2>1, <2>5, <3>2 DEF Lifecycle!Forget
    <3>4. QED
      BY <3>3 DEF Lifecycle!Next
  <2>6. QED
    BY <2>1, <2>2, <2>3, <2>4, <2>5
<1>9. ASSUME w.order = 0, v.order = 0
      PROVE  [Lifecycle!Next]_<<request, orders>>
  <2>1. request[c].stage = "undecided" /\ request[c].approval = v.approval
    BY <1>3, <1>5, <1>9
  <2>2. CASE w.ready = "Failed"
    <3>1. IssuerRef[c] = "Unregistered"
      BY <1>1, <1>9, <2>2 DEF JustifiedFor
    <3>2. Told(w) = [approval |-> v.approval, stage |-> "failed", order |-> 0,
                     certificate |-> 0]
      BY <1>4, <1>5, <1>9, <2>2
    <3>3. Lifecycle!Moves(c, "failed", 0, 0)
      BY <3>2, TellsMove
    <3>4. Lifecycle!RejectKind(c)
      BY <2>1, <3>1, <3>3 DEF Lifecycle!RejectKind
    <3>5. QED
      BY <3>4 DEF Lifecycle!Next
  <2>3. CASE w.ready = "Denied"
    <3>1. Told(w) = [approval |-> v.approval, stage |-> "denied", order |-> 0,
                     certificate |-> 0]
      BY <1>4, <1>5, <1>9, <2>3
    <3>2. Lifecycle!Moves(c, "denied", 0, 0)
      BY <3>1, TellsMove
    <3>3. Lifecycle!MarkDenied(c)
      BY <1>1, <2>1, <2>3, <3>2 DEF Lifecycle!MarkDenied, Lifecycle!Open, UpdateFor
    <3>4. QED
      BY <3>3 DEF Lifecycle!Next
  <2>4. CASE w.ready \notin {"Failed", "Denied"}
    <3>1. w.ready # "Issued"
      BY <1>1, <1>5, <1>9 DEF JustifiedFor
    <3>2. Told(w) = Told(v)
      BY <1>3, <1>4, <1>5, <1>9, <2>4, <3>1
    <3>3. request' = request
      BY <3>2 DEF request
    <3>4. QED
      BY <3>3
  <2>5. QED
    BY <2>2, <2>3, <2>4
<1>10. QED
  BY <1>6, <1>7, <1>8, <1>9

LEMMA EnvironmentMoves ==
    ASSUME CallInv, NEW c \in Requests, Environment(c)
    PROVE  [Lifecycle!Next]_<<request, orders>>
<1> DEFINE v == Latest(c)
<1>1. v \in Version /\ orders' = orders
      /\ \A d \in Requests \ {c} : log'[d] = log[d]
  BY LatestTyped, EnvironmentGrows DEF CallInv
<1>2. ASSUME NEW w \in Version, Store(c, w)
      PROVE  /\ ~v.deleted
             /\ request[c] = Told(v) /\ request' = [request EXCEPT ![c] = Told(w)]
  <2>1. Latest(c)' = w /\ ~v.deleted
    BY <1>2, AppendVersion DEF Store, Latest, CallInv
  <2>2. QED
    BY <1>1, <2>1, RequestChanges
<1> HIDE DEF v
<1>3. CASE Touch(c)
  <2>1. request[c] = Told(v) /\ request' = [request EXCEPT ![c] = Told(v)]
    BY <1>1, <1>2, <1>3 DEF Touch, v
  <2>2. request' = request
    BY <2>1 DEF request
  <2>3. QED
    BY <1>1, <2>2
<1>4. CASE Delete(c)
  <2> DEFINE w == [v EXCEPT !.deleted = TRUE]
  <2>1. /\ w \in Version /\ w.deleted /\ w.approval = v.approval /\ w.order = v.order
        /\ w.certificate = v.certificate
    BY <1>1 DEF Version
  <2>2. Store(c, w)
    BY <1>4 DEF Delete, v
  <2> HIDE DEF w
  <2>3. /\ ~v.deleted
        /\ request[c] = Told(v) /\ request' = [request EXCEPT ![c] = Told(w)]
    BY <1>2, <2>1, <2>2
  <2>4. Told(w) = [approval |-> v.approval, stage |-> "gone", order |-> v.order,
                   certificate |-> v.certificate]
    BY <2>1 DEF Told
  <2>5. /\ request[c].stage # "gone" /\ request[c].order = v.order
        /\ request[c].certificate = v.certificate
    BY <2>3 DEF Told
  <2>6. Lifecycle!Remove(c)
    BY <1>1, <2>3, <2>4, <2>5, TellsMove DEF Lifecycle!Remove
  <2>7. QED
    BY <2>6 DEF Lifecycle!Next
<1>5. ASSUME NEW a \in {"approved", "denied"}, Decide(c, a)
      PROVE  [Lifecycle!Next]_<<request, orders>>
  <2> DEFINE w == [v EXCEPT !.approval = a]
  <2>1. /\ w \in Version /\ w.approval = a /\ w.order = v.order
        /\ w.certificate = v.certificate /\ w.ready = v.ready /\ w.deleted = v.deleted
    BY <1>1 DEF Version
  <2>2. Store(c, w) /\ v.approval = "none"
    BY <1>5 DEF Decide, v
  <2> HIDE DEF w
  <2>3. /\ ~v.deleted
        /\ request[c] = Told(v) /\ request' = [request EXCEPT ![c] = Told(w)]
    BY <1>2, <2>1, <2>2
  <2>4. PICK s : /\ Told(v) = [approval |-> v.approval, stage |-> s, order |-> v.order,
                               certificate |-> v.certificate]
                 /\ Told(w) = [approval |-> a, stage |-> s, order |-> v.order,
                               certificate |-> v.certificate]
    BY <2>1 DEF Told, IsSubmitted, IsSigned
  <2>5. request[c].stage # "gone" /\ request[c].approval = "none"
    BY <2>2, <2>3 DEF Told
  <2>6. [request[c] EXCEPT !.approval = a] = Told(w)
    BY <2>3, <2>4
  <2>7. [request EXCEPT ![c].approval = a] = [request EXCEPT ![c] = Told(w)]
    BY <2>6
  <2>8. Lifecycle!Decide(c, a)
    BY <1>1, <2>3, <2>5, <2>7 DEF Lifecycle!Decide
  <2>9. QED
    BY <2>8 DEF Lifecycle!Next
<1>6. QED
  BY <1>3, <1>4, <1>5 DEF Environment, Approve, Deny

LEMMA ProgressMoves ==
    ASSUME CallInv, NEW o \in 1 .. Len(orders), OrderProgress(o)
    PROVE  [Lifecycle!Next]_<<request, orders>>
<1>1. request' = request
  BY RequestStays DEF OrderProgress
<1>2. Lifecycle!Progress(o)
  BY <1>1 DEF OrderProgress, Lifecycle!Progress, TaskStates, Lifecycle!TaskStates
<1>3. QED
  BY <1>2 DEF Lifecycle!Next

LEMMA CallMoves ==
    ASSUME CallInv, ApprovalsLast, NEW m \in Managers, Call(m)
    PROVE  [Lifecycle!Next]_<<request, orders>>
<1>1. log' = log /\ request' = request
  BY CallOutcome, RequestStays
<1>2. CASE orders' = orders
  BY <1>1, <1>2
<1>3. CASE SubmitAccepted(m) \/ SubmitUnanswered(m)
  <2>1. worker[m].pc = "submit" /\ PlaceOrder(m)
    BY <1>3 DEF SubmitAccepted, SubmitUnanswered, At
  <2>2. PICK c \in Requests : c = worker[m].cr
    BY <2>1, CallHasRequest
  <2>3. /\ worker[m].rv \in 1 .. Len(log[c])
        /\ IssuerRef[c] \in HandledKinds
        /\ CheckApprovedCondition => log[c][worker[m].rv].approval = "approved"
    BY <2>1, <2>2, CallHasRequest DEF CallInv, CallOK, Ignored
  <2>4. CheckApprovedCondition => request[c].approval = "approved"
    BY <2>3 DEF ApprovalsLast, request, Told
  <2>5. Lifecycle!Take(c)
    BY <1>1, <2>1, <2>2, <2>3, <2>4
    DEF PlaceOrder, Lifecycle!Take, Lifecycle!Eligible, HandledKinds
  <2>6. QED
    BY <2>5 DEF Lifecycle!Next
<1>4. orders' = orders \/ SubmitAccepted(m) \/ SubmitUnanswered(m)
  BY DEF Call, SignerUnavailable, SignerBuilt, SubmitRejected, PollAnswered, PollSigned,
      PollProgress, PollRejected, PollNoNews, PollFails, Polls, FetchSucceeds, FetchFails
<1>5. QED
  BY <1>2, <1>3, <1>4

\* The update is stored on top of the version it was computed from.
LEMMA EndMoves ==
    ASSUME CallInv, OrdersInv, CopiesKeepApproval, UpdatesOK, NEW m \in Managers, End(m)
    PROVE  [Lifecycle!Next]_<<request, orders>>
<1>1. PICK c \in Requests : c = worker[m].cr
  BY EndEffect
<1> DEFINE v == Latest(c)
           w == worker[m].obj
<1>2. /\ worker[m].pc = "update" /\ orders' = orders
      /\ \A d \in Requests \ {c} : log'[d] = log[d]
      /\ \/ log' = log
         \/ /\ worker[m].rv = Len(log[c])
            /\ Len(log'[c]) = Len(log[c]) + 1
            /\ log'[c][Len(log[c]) + 1] = worker[m].obj
  BY <1>1, EndEffect DEF IsCurrent
<1>3. CASE log' = log
  BY <1>2, <1>3, RequestStays
<1>4. CASE log' # log
  <2>1. v = log[c][worker[m].rv] /\ Latest(c)' = w
    BY <1>2, <1>4 DEF Latest
  <2>2. /\ v \in Version /\ w \in Version /\ orders \in Seq(Order)
        /\ SoundFor(orders, c, v)
    BY LatestSound DEF CallInv, TypeOK, Work
  <2>3. ~Ignored(c, v)
    BY <1>1, <1>2, <2>1 DEF CallInv, CallOK
  <2>4. SoundFor(orders, c, w) /\ JustifiedFor(orders, c, v, w)
    BY <1>1, <1>2, <2>1 DEF OrdersInv
  <2>5. w.approval = v.approval /\ UpdateFor(v, w)
    BY <1>1, <1>2, <2>1 DEF CopiesKeepApproval, UpdatesOK
  <2>6. request[c] = Told(v) /\ request' = [request EXCEPT ![c] = Told(w)]
    BY <1>2, <2>1, RequestChanges
  <2> HIDE DEF v, w
  <2>7. QED
    BY <1>2, <2>2, <2>3, <2>4, <2>5, <2>6, UpdateMoves, ConstantsAssumption
<1>5. QED
  BY <1>3, <1>4

LEMMA StepMoves ==
    ASSUME CallInv, OrdersInv, DecisionsInv, UpdatesOK, [Next]_vars
    PROVE  [Lifecycle!Next]_<<request, orders>>
<1>1. ASSUME NEW m \in Managers, NEW c \in Requests, Begin(m, c)
      PROVE  log' = log /\ orders' = orders
  BY <1>1, BeginStarts DEF Takes
<1>2. CASE log' = log /\ orders' = orders
  BY <1>2, RequestStays
<1>3. ASSUME NEW m \in Managers, Call(m) \/ End(m)
      PROVE  [Lifecycle!Next]_<<request, orders>>
  BY <1>3, CallMoves, EndMoves DEF DecisionsInv
<1>4. ASSUME NEW c \in Requests, Environment(c)
      PROVE  [Lifecycle!Next]_<<request, orders>>
  BY <1>4, EnvironmentMoves
<1>5. ASSUME NEW o \in 1 .. Len(orders), OrderProgress(o)
      PROVE  [Lifecycle!Next]_<<request, orders>>
  BY <1>5, ProgressMoves
<1>6. \/ log' = log /\ orders' = orders
      \/ \E m \in Managers : Call(m) \/ End(m)
      \/ \E c \in Requests : Environment(c)
      \/ \E o \in 1 .. Len(orders) : OrderProgress(o)
  BY <1>1 DEF Next, vars, Informer, Deliver, Resync, TimerFires, Crash
<1>7. QED
  BY <1>2, <1>3, <1>4, <1>5, <1>6

\* Whatever the number of managers, the age of their caches and the faults, each
\* stored update is one step in the life of its request, or none.
THEOREM ControllerFollowsLifecycle == Spec => ImplementsLifecycle
<1>1. Init => UpdatesOK
  BY DEF Init, Idle, UpdatesOK
<1>2. Init => Lifecycle!Init
  <2> SUFFICES ASSUME Init PROVE Lifecycle!Init
    OBVIOUS
  <2>1. \A c \in Requests : Latest(c) = NewRequest
    BY DEF Init, Latest
  <2>2. Told(NewRequest) = [approval |-> "none", stage |-> "undecided", order |-> 0,
                            certificate |-> 0]
    BY DEF Told, NewRequest, IsSubmitted, IsSigned
  <2>3. QED
    BY <2>1, <2>2 DEF Lifecycle!Init, request, Init
<1>3. CallInv /\ UpdatesOK /\ [Next]_vars => UpdatesOK'
  BY UpdatesOKNext
<1>4. CallInv /\ OrdersInv /\ DecisionsInv /\ UpdatesOK /\ [Next]_vars =>
        [Lifecycle!Next]_<<request, orders>>
  BY StepMoves
<1>5. QED
  BY <1>1, <1>2, <1>3, <1>4, CallsConsistent, OrdersSound, DecisionsSound, PTL
  DEF Spec, ImplementsLifecycle, Lifecycle!Spec

-----------------------------------------------------------------------------
(* What the lifecycle guarantees holds of the controller.                    *)

LP == INSTANCE CertificateRequestLifecycle_proofs

\* Lifecycle and LP are instances of one definition.
LEMMA SameLifecycle == Lifecycle!Spec => LP!Spec
<1>1. Lifecycle!Init => LP!Init
  BY DEF Lifecycle!Init, LP!Init
<1>2. ASSUME NEW c \in Requests, NEW a \in {"approved", "denied"}, Lifecycle!Decide(c, a)
      PROVE  LP!Next
  BY <1>2 DEF Lifecycle!Decide, LP!Decide, LP!Next
<1>3. ASSUME NEW c \in Requests, Lifecycle!Take(c)
      PROVE  LP!Next
  BY <1>3 DEF Lifecycle!Take, Lifecycle!Eligible, LP!Take, LP!Eligible, LP!Next
<1>4. ASSUME NEW c \in Requests, NEW o \in 1 .. Len(orders), Lifecycle!Follow(c, o)
      PROVE  LP!Next
  BY <1>4 DEF Lifecycle!Follow, Lifecycle!Eligible, Lifecycle!Moves,
              LP!Follow, LP!Eligible, LP!Moves, LP!Next
<1>5. ASSUME NEW c \in Requests,
             \/ Lifecycle!Sign(c) \/ Lifecycle!Issue(c) \/ Lifecycle!Reject(c)
             \/ Lifecycle!RejectKind(c) \/ Lifecycle!MarkDenied(c)
             \/ Lifecycle!Forget(c) \/ Lifecycle!Remove(c)
      PROVE  LP!Next
  <2>1. \A s, o, k : Lifecycle!Moves(c, s, o, k) <=> LP!Moves(c, s, o, k)
    BY DEF Lifecycle!Moves, LP!Moves
  <2>2. QED
    BY <1>5, <2>1
    DEF Lifecycle!Sign, Lifecycle!Issue, Lifecycle!Reject, Lifecycle!RejectKind,
        Lifecycle!MarkDenied, Lifecycle!Forget, Lifecycle!Remove, Lifecycle!Open,
        LP!Sign, LP!Issue, LP!Reject, LP!RejectKind, LP!MarkDenied, LP!Forget, LP!Remove,
        LP!Open, LP!Next
<1>6. ASSUME NEW o \in 1 .. Len(orders), Lifecycle!Progress(o)
      PROVE  LP!Next
  BY <1>6 DEF Lifecycle!Progress, Lifecycle!TaskStates, LP!Progress, LP!TaskStates, LP!Next
<1>7. [Lifecycle!Next]_<<request, orders>> => [LP!Next]_<<request, orders>>
  BY <1>2, <1>3, <1>4, <1>5, <1>6 DEF Lifecycle!Next
<1>8. QED
  BY <1>1, <1>7, PTL DEF Lifecycle!Spec, LP!Spec

\* With any number of managers, stale caches, lost updates and restarts, a request
\* has a certificate only from an issued task of its own that the controller was
\* allowed to order, has Failed only when a task of its own was rejected or its kind
\* is unknown, and is marked Denied only when it was denied.
THEOREM ControllerOutcomesEarned == Spec => []OutcomesAreEarned
<1>1. LP!LifecycleAssumption
  BY ConstantsAssumption DEF LP!LifecycleAssumption, ConstantsAssumption
<1>2. LP!Spec => []LP!OutcomesAreEarned
  BY <1>1, LP!OutcomesEarned
<1>3. LP!OutcomesAreEarned => OutcomesAreEarned
  BY DEF OutcomesAreEarned, LP!OutcomesAreEarned, LP!OwnTask, LP!Eligible,
         Lifecycle!OutcomesAreEarned, Lifecycle!OwnTask, Lifecycle!Eligible
<1>4. QED
  BY <1>2, <1>3, ControllerFollowsLifecycle, SameLifecycle, PTL DEF ImplementsLifecycle

\* Neither do any of these take back a certificate or a decision, or exchange the
\* task that a request follows.
THEOREM ControllerOutcomesKept == Spec => OutcomesStay
<1>1. LP!LifecycleAssumption
  BY ConstantsAssumption DEF LP!LifecycleAssumption, ConstantsAssumption
<1>2. LP!Spec => LP!OutcomesStay
  BY <1>1, LP!OutcomesKept
<1>3. QED
  BY <1>2, ControllerFollowsLifecycle, SameLifecycle, PTL
  DEF ImplementsLifecycle, OutcomesStay, LP!OutcomesStay, Lifecycle!OutcomesStay

=============================================================================
