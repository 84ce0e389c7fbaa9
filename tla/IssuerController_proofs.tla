----------------------- MODULE IssuerController_proofs -----------------------
(***************************************************************************)
(* Theorems about the issuer controller, for every set of issuers and         *)
(* managers and every value of the bounds.                                    *)
(***************************************************************************)
EXTENDS IssuerController, TLAPS

\* v may follow u: LastTransitionTime tells whether the status has changed.
Accurate(v, u) == v.since = u.since <=> v.status = u.status

\* What a Reconcile call in progress relies on: its working copy was read at a
\* version that the cache has reached and that is not deleted; until it returns
\* the copy is what was read, and a call that is not repeated has changed it.
CallOK(m) ==
    LET w == worker[m]
        v == log[w.issuer][w.rv] IN
    /\ w.pc = "idle" <=> w.issuer = NoIssuer
    /\ w.pc # "idle" =>
          /\ w.rv \in 1 .. seen[m][w.issuer]
          /\ ~v.deleted
          /\ Accurate(w.obj, v)
    /\ w.pc \in {"secret", "check"} => w.obj = v
    /\ w.pc = "update" /\ w.result = "done" => w.obj # v

\* The versions of an issuer are in order: nothing follows a deletion.
LogsOK ==
    /\ \A i \in Issuers : Len(log[i]) > 0 /\ Len(secret[i]) > 0
    /\ \A i \in Issuers : \A k \in 1 .. Len(log[i]) : log[i][k].deleted => k = Len(log[i])
    /\ TransitionTimeIsAccurate

\* The inductive invariant behind the three invariants proved here.
IssuerInv ==
    /\ TypeOK
    /\ LogsOK
    /\ \A m \in Managers, i \in Issuers : queue[m][i] # "none" => seen[m][i] > 0
    /\ \A m \in Managers : CallOK(m)

-----------------------------------------------------------------------------
(* The log grows, and stays in order.                                        *)

Grows ==
    /\ log' \in [Issuers -> Seq(Version)]
    /\ \A i \in Issuers :
          /\ Len(log[i]) <= Len(log'[i])
          /\ \A k \in 1 .. Len(log[i]) : log'[i][k] = log[i][k]

LEMMA LatestTyped ==
    ASSUME TypeOK, LogsOK, NEW i \in Issuers
    PROVE  /\ Len(log[i]) \in Nat \ {0} /\ Latest(i) \in Version
           /\ Len(secret[i]) \in Nat \ {0} /\ Secret(i) \in SecretStates
<1>1. /\ log[i] \in Seq(Version) /\ Len(log[i]) > 0
      /\ secret[i] \in Seq(SecretStates) /\ Len(secret[i]) > 0
  BY DEF TypeOK, LogsOK
<1>2. QED
  BY <1>1 DEF Latest, Secret

\* A version that may follow the last one is added to a log in order.
LEMMA AppendVersion ==
    ASSUME TypeOK, LogsOK, NEW i \in Issuers, NEW v \in Version,
           ~Latest(i).deleted, Accurate(v, Latest(i)), UNCHANGED secret,
           log' = [log EXCEPT ![i] = Append(@, v)]
    PROVE  /\ Grows /\ LogsOK'
           /\ Len(log'[i]) = Len(log[i]) + 1
           /\ log'[i][Len(log'[i])] = v
           /\ \A j \in Issuers \ {i} : log'[j] = log[j]
<1> DEFINE n == Len(log[i])
<1>1. log \in [Issuers -> Seq(Version)] /\ log[i] \in Seq(Version) /\ n \in Nat \ {0}
  BY LatestTyped DEF TypeOK
<1>2. log'[i] = Append(log[i], v) /\ \A j \in Issuers \ {i} : log'[j] = log[j]
  BY <1>1
<1>3. /\ Append(log[i], v) \in Seq(Version)
      /\ Len(Append(log[i], v)) = n + 1
      /\ Append(log[i], v)[n + 1] = v
      /\ \A k \in 1 .. n : Append(log[i], v)[k] = log[i][k]
  BY <1>1
<1>4. log' \in [Issuers -> Seq(Version)]
  BY <1>1, <1>3
<1>5. \A j \in Issuers : Len(log[j]) \in Nat
  BY <1>1
<1>6. Grows /\ Len(log'[i]) = n + 1 /\ log'[i][n + 1] = v
  BY <1>2, <1>3, <1>4, <1>5 DEF Grows
<1>7. \A k \in 1 .. n + 1 : log'[i][k] = IF k = n + 1 THEN v ELSE log[i][k]
  BY <1>1, <1>2, <1>3
<1>8. \A k \in 1 .. Len(log'[i]) : log'[i][k].deleted => k = Len(log'[i])
  BY <1>1, <1>6, <1>7 DEF LogsOK, Latest
<1>9. \A k \in 2 .. Len(log'[i]) : Accurate(log'[i][k], log'[i][k - 1])
  <2>1. TAKE k \in 2 .. Len(log'[i])
  <2>2. CASE k = n + 1
    <3>1. log'[i][k] = v /\ log'[i][k - 1] = Latest(i)
      BY <1>1, <1>7, <2>2 DEF Latest
    <3>2. QED
      BY <3>1
  <2>3. CASE k # n + 1
    <3>1. k \in 2 .. n /\ log'[i][k] = log[i][k] /\ log'[i][k - 1] = log[i][k - 1]
      BY <1>1, <1>6, <1>7, <2>1, <2>3
    <3>2. QED
      BY <3>1 DEF LogsOK, TransitionTimeIsAccurate, Accurate
  <2>4. QED
    BY <2>2, <2>3
<1>10. LogsOK'
  BY <1>1, <1>2, <1>6, <1>8, <1>9 DEF LogsOK, TransitionTimeIsAccurate, Accurate
<1>11. QED
  BY <1>2, <1>6, <1>10

LEMMA KeepVersions ==
    ASSUME TypeOK, LogsOK, UNCHANGED <<log, secret>>
    PROVE  Grows /\ LogsOK'
<1>1. \A i \in Issuers : Len(log[i]) \in Nat
  BY DEF TypeOK
<1>2. QED
  BY <1>1 DEF Grows, TypeOK, LogsOK, TransitionTimeIsAccurate

-----------------------------------------------------------------------------
(* The inductive invariant.                                                  *)

LEMMA IdleTyped == Idle \in Work /\ NewIssuer \in Version
  BY DEF Idle, Work, NewIssuer, Version

LEMMA InitIssuerInv == Init => IssuerInv
<1> SUFFICES ASSUME Init
             PROVE  IssuerInv
  OBVIOUS
<1>1. log = [i \in Issuers |-> <<NewIssuer>>] /\ <<NewIssuer>> \in Seq(Version)
  BY IdleTyped DEF Init
<1>2. \A i \in Issuers : secret[i] \in {<<s>> : s \in SecretStates}
  BY DEF Init
<1>3. secret \in [Issuers -> Seq(SecretStates)] /\ \A i \in Issuers : Len(secret[i]) = 1
  <2>1. \A s \in SecretStates : <<s>> \in Seq(SecretStates) /\ Len(<<s>>) = 1
    OBVIOUS
  <2>2. \A i \in Issuers : secret[i] \in Seq(SecretStates) /\ Len(secret[i]) = 1
    BY <1>2, <2>1
  <2>3. QED
    BY <2>2 DEF Init
<1>4. \A i \in Issuers : Len(log[i]) = 1 /\ log[i][1] = NewIssuer
  BY <1>1
<1>5. TypeOK
  <2>1. log \in [Issuers -> Seq(Version)]
    BY <1>1
  <2>2. \A m \in Managers, i \in Issuers :
           seen[m][i] <= Len(log[i]) /\ secretSeen[m][i] <= Len(secret[i])
    <3>1. TAKE m \in Managers, i \in Issuers
    <3>2. seen[m][i] = 0 /\ secretSeen[m][i] = 1
      BY DEF Init
    <3>3. Len(log[i]) = 1 /\ Len(secret[i]) = 1
      BY <1>3, <1>4
    <3>4. QED
      BY <3>2, <3>3
  <2>3. worker \in [Managers -> Work]
    BY IdleTyped DEF Init
  <2>4. /\ seen \in [Managers -> [Issuers -> Nat]]
        /\ secretSeen \in [Managers -> [Issuers -> Nat \ {0}]]
        /\ queue \in [Managers -> [Issuers -> {"none", "delayed", "ready"}]]
    BY DEF Init
  <2>5. QED
    BY <1>3, <2>1, <2>2, <2>3, <2>4 DEF Init, TypeOK
<1>6. LogsOK
  BY <1>3, <1>4 DEF LogsOK, TransitionTimeIsAccurate, NewIssuer
<1>7. QED
  BY <1>5, <1>6 DEF Init, IssuerInv, CallOK, Idle

\* A call goes on undisturbed by steps that only add versions.
LEMMA CallUndisturbed ==
    ASSUME IssuerInv, NEW n \in Managers, Grows, worker'[n] = worker[n],
           \A i \in Issuers : seen'[n][i] \in Nat /\ seen[n][i] <= seen'[n][i]
    PROVE  CallOK(n)'
<1>1. CASE worker[n].pc = "idle"
  BY <1>1 DEF IssuerInv, CallOK
<1>2. CASE worker[n].pc # "idle"
  <2> DEFINE i == worker[n].issuer
  <2>1. CallOK(n) /\ i \in Issuers
    BY <1>2 DEF IssuerInv, TypeOK, Work, CallOK
  <2>2. /\ seen[n][i] \in Nat /\ Len(log[i]) \in Nat /\ seen[n][i] <= Len(log[i])
        /\ worker[n].rv \in 1 .. seen[n][i]
    BY <1>2, <2>1 DEF IssuerInv, TypeOK, CallOK
  <2>3. log'[i][worker[n].rv] = log[i][worker[n].rv] /\ worker[n].rv \in 1 .. seen'[n][i]
    <3> HIDE DEF i
    <3>1. worker[n].rv \in 1 .. Len(log[i])
      BY <2>2
    <3>2. seen'[n][i] \in Nat /\ seen[n][i] <= seen'[n][i]
      BY <2>1
    <3>3. worker[n].rv \in 1 .. seen'[n][i]
      BY <2>2, <3>2
    <3>4. log'[i][worker[n].rv] = log[i][worker[n].rv]
      BY <2>1, <3>1 DEF Grows
    <3>5. QED
      BY <3>3, <3>4
  <2>4. QED
    BY <1>2, <2>1, <2>3 DEF CallOK
<1>3. QED
  BY <1>1, <1>2

\* Whatever a step does, the invariant holds after it when the log has grown in
\* order, caches and queues are well formed and the calls it changed are in order.
LEMMA StepKeepsInv ==
    ASSUME IssuerInv, Grows, LogsOK',
           \A n \in Managers :
               \/ CallOK(n)'
               \/ /\ worker'[n] = worker[n]
                  /\ \A i \in Issuers : seen[n][i] <= seen'[n][i],
           worker' \in [Managers -> Work],
           seen' \in [Managers -> [Issuers -> Nat]],
           secret' \in [Issuers -> Seq(SecretStates)],
           secretSeen' \in [Managers -> [Issuers -> Nat \ {0}]],
           queue' \in [Managers -> [Issuers -> {"none", "delayed", "ready"}]],
           \A n \in Managers, i \in Issuers :
               /\ seen'[n][i] <= Len(log'[i]) /\ secretSeen'[n][i] <= Len(secret'[i])
               /\ queue'[n][i] # "none" => seen'[n][i] > 0,
           changes' \in Nat, faults' \in Nat, touches' \in Nat
    PROVE  IssuerInv'
<1>1. ASSUME NEW n \in Managers, ~CallOK(n)'
      PROVE  FALSE
  <2>1. /\ worker'[n] = worker[n]
        /\ \A i \in Issuers : seen'[n][i] \in Nat /\ seen[n][i] <= seen'[n][i]
    BY <1>1
  <2>2. QED
    BY <1>1, <2>1, CallUndisturbed
<1>2. TypeOK'
  BY DEF TypeOK, Grows
<1>3. QED
  BY <1>1, <1>2 DEF IssuerInv

\* What the caches hold is no more than what is stored, after the log has grown.
LEMMA CachesStay ==
    ASSUME IssuerInv, Grows
    PROVE  \A n \in Managers, i \in Issuers : seen[n][i] <= Len(log'[i])
<1>1. \A n \in Managers, i \in Issuers :
         /\ seen[n][i] \in Nat /\ Len(log[i]) \in Nat /\ Len(log'[i]) \in Nat
         /\ seen[n][i] <= Len(log[i]) /\ Len(log[i]) <= Len(log'[i])
  BY DEF IssuerInv, TypeOK, Grows
<1>2. QED
  BY <1>1

LEMMA SeenStays ==
    ASSUME IssuerInv
    PROVE  \A n \in Managers, i \in Issuers : seen[n][i] <= seen[n][i] /\ seen[n][i] <= Len(log[i])
<1>1. \A n \in Managers, i \in Issuers : seen[n][i] \in Nat /\ seen[n][i] <= Len(log[i])
  BY DEF IssuerInv, TypeOK
<1>2. QED
  BY <1>1

LEMMA EnvironmentStep ==
    ASSUME IssuerInv, NEW i \in Issuers, Environment(i)
    PROVE  IssuerInv' /\ Grows
<1>1. Latest(i) \in Version /\ Len(secret[i]) \in Nat \ {0} /\ secret[i] \in Seq(SecretStates)
  BY LatestTyped DEF IssuerInv, TypeOK
<1>2. /\ UNCHANGED <<seen, secretSeen, queue, worker, faults>>
      /\ changes' \in Nat /\ touches' \in Nat
  BY DEF Environment, Touch, Delete, ChangeSecret, caches, budgets, IssuerInv, TypeOK
<1>3. CASE Touch(i) \/ Delete(i)
  <2>1. PICK v \in {Latest(i), [Latest(i) EXCEPT !.deleted = TRUE]} : Store(i, v)
    BY <1>3 DEF Touch, Delete
  <2>2. v \in Version /\ Accurate(v, Latest(i)) /\ UNCHANGED secret
    BY <1>1, <1>3 DEF Version, Accurate, Touch, Delete
  <2>3. Grows /\ LogsOK'
    BY <2>1, <2>2, AppendVersion DEF Store, IssuerInv
  <2>4. \A n \in Managers, j \in Issuers : seen'[n][j] <= Len(log'[j])
    BY <1>2, <2>3, CachesStay
  <2>5. QED
    BY <1>2, <2>2, <2>3, <2>4, SeenStays, StepKeepsInv DEF IssuerInv, TypeOK
<1>4. CASE ChangeSecret(i)
  <2>1. PICK s \in SecretStates : secret' = [secret EXCEPT ![i] = Append(@, s)]
    BY <1>4 DEF ChangeSecret
  <2>2. /\ Append(secret[i], s) \in Seq(SecretStates)
        /\ Len(Append(secret[i], s)) = Len(secret[i]) + 1
    BY <1>1
  <2>3. /\ secret' \in [Issuers -> Seq(SecretStates)]
        /\ secret'[i] = Append(secret[i], s)
        /\ \A j \in Issuers \ {i} : secret'[j] = secret[j]
    BY <2>1, <2>2 DEF IssuerInv, TypeOK
  <2>4. Grows /\ UNCHANGED log
    BY <1>4, \A j \in Issuers : Len(log[j]) \in Nat DEF ChangeSecret, Grows, IssuerInv, TypeOK
  <2>5. LogsOK'
    <3>1. \A j \in Issuers : Len(secret'[j]) > 0
      <4>1. Len(secret'[i]) > 0
        BY <1>1, <2>2, <2>3
      <4>2. QED
        BY <2>3, <4>1 DEF IssuerInv, LogsOK
    <3>2. QED
      BY <2>4, <3>1 DEF IssuerInv, LogsOK, TransitionTimeIsAccurate
  <2>6. \A n \in Managers, j \in Issuers : secretSeen[n][j] <= Len(secret'[j])
    <3>1. \A n \in Managers, j \in Issuers :
             secretSeen[n][j] \in Nat /\ Len(secret[j]) \in Nat /\ secretSeen[n][j] <= Len(secret[j])
      BY DEF IssuerInv, TypeOK
    <3>2. QED
      BY <1>1, <2>2, <2>3, <3>1
  <2>7. QED
    BY <1>2, <2>3, <2>4, <2>5, <2>6, SeenStays, StepKeepsInv DEF IssuerInv, TypeOK
<1>5. QED
  BY <1>3, <1>4 DEF Environment

LEMMA InformerStep ==
    ASSUME IssuerInv, NEW m \in Managers, NEW i \in Issuers, Informer(m, i)
    PROVE  IssuerInv' /\ Grows
<1>1. UNCHANGED <<log, secret, worker, budgets>>
  BY DEF Informer, Deliver, DeliverSecret, TimerFires
<1>2. Grows /\ LogsOK'
  BY <1>1, KeepVersions DEF IssuerInv
<1>3. CASE Deliver(m, i)
  <2>1. /\ seen' = [seen EXCEPT ![m][i] = @ + 1] /\ seen[m][i] < Len(log[i])
        /\ queue' = [queue EXCEPT ![m][i] = "ready"] /\ UNCHANGED secretSeen
    BY <1>3 DEF Deliver
  <2>2. /\ seen' \in [Managers -> [Issuers -> Nat]]
        /\ queue' \in [Managers -> [Issuers -> {"none", "delayed", "ready"}]]
    BY <2>1 DEF IssuerInv, TypeOK
  <2>3. \A n \in Managers, j \in Issuers :
          /\ seen'[n][j] = IF n = m /\ j = i THEN seen[m][i] + 1 ELSE seen[n][j]
          /\ queue'[n][j] = IF n = m /\ j = i THEN "ready" ELSE queue[n][j]
    BY <2>1 DEF IssuerInv, TypeOK
  <2>4. \A n \in Managers, j \in Issuers : seen[n][j] \in Nat /\ Len(log[j]) \in Nat
    BY DEF IssuerInv, TypeOK
  <2>5. \A n \in Managers, j \in Issuers :
          /\ seen[n][j] <= seen'[n][j] /\ seen'[n][j] <= Len(log'[j])
          /\ queue'[n][j] # "none" => seen'[n][j] > 0
    BY <1>1, <2>1, <2>3, <2>4 DEF IssuerInv, TypeOK
  <2>6. QED
    BY <1>1, <1>2, <2>1, <2>2, <2>5, StepKeepsInv DEF IssuerInv, TypeOK, budgets
<1>4. CASE DeliverSecret(m, i)
  <2>1. /\ secretSeen' = [secretSeen EXCEPT ![m][i] = @ + 1]
        /\ secretSeen[m][i] < Len(secret[i]) /\ UNCHANGED <<seen, queue>>
    BY <1>4 DEF DeliverSecret
  <2>2. secretSeen' \in [Managers -> [Issuers -> Nat \ {0}]]
    BY <2>1 DEF IssuerInv, TypeOK
  <2>3. \A n \in Managers, j \in Issuers :
          secretSeen'[n][j] = IF n = m /\ j = i THEN secretSeen[m][i] + 1 ELSE secretSeen[n][j]
    BY <2>1 DEF IssuerInv, TypeOK
  <2>4. \A n \in Managers, j \in Issuers : secretSeen[n][j] \in Nat /\ Len(secret[j]) \in Nat
    BY DEF IssuerInv, TypeOK
  <2>5. \A n \in Managers, j \in Issuers : secretSeen'[n][j] <= Len(secret'[j])
    BY <1>1, <2>1, <2>3, <2>4 DEF IssuerInv, TypeOK
  <2>6. QED
    BY <1>1, <1>2, <2>1, <2>2, <2>5, SeenStays, StepKeepsInv DEF IssuerInv, TypeOK, budgets
<1>5. CASE TimerFires(m, i)
  <2>1. /\ queue' = [queue EXCEPT ![m][i] = "ready"] /\ queue[m][i] # "none"
        /\ UNCHANGED caches
    BY <1>5 DEF TimerFires
  <2>2. /\ queue' \in [Managers -> [Issuers -> {"none", "delayed", "ready"}]]
        /\ \A n \in Managers, j \in Issuers : queue'[n][j] # "none" => queue[n][j] # "none"
    BY <2>1 DEF IssuerInv, TypeOK
  <2>3. QED
    BY <1>1, <1>2, <2>1, <2>2, SeenStays, StepKeepsInv DEF IssuerInv, TypeOK, budgets, caches
<1>6. QED
  BY <1>2, <1>3, <1>4, <1>5 DEF Informer

\* The condition that a call sets follows the version it was computed from.
LEMMA ConditionFollows ==
    ASSUME NEW v \in Version, NEW status \in {"Unknown", "True", "False"},
           NEW message \in {"FirstSeen", "Success", "NoSecret", "CheckFailed"}
    PROVE  /\ SetReadyCondition(v, status, message) \in Version
           /\ SetReadyCondition(v, status, message).status = status
           /\ Accurate(SetReadyCondition(v, status, message), v)
<1>1. v.since \in Nat
  BY DEF Version
<1>2. CASE status = v.status
  <2>1. SetReadyCondition(v, status, message) = [v EXCEPT !.status = status, !.message = message]
    BY <1>2 DEF SetReadyCondition, Version
  <2>2. QED
    BY <1>2, <2>1 DEF Version, Accurate
<1>3. CASE status # v.status
  <2>1. SetReadyCondition(v, status, message) =
          [v EXCEPT !.status = status, !.message = message, !.since = v.since + 1]
    BY <1>3 DEF SetReadyCondition, Version
  <2>2. v.since + 1 \in Nat /\ v.since + 1 # v.since
    BY <1>1
  <2>3. QED
    BY <1>3, <2>1, <2>2 DEF Version, Accurate
<1>4. QED
  BY <1>2, <1>3

\* The worker takes an issuer from the queue.
LEMMA BeginStep ==
    ASSUME IssuerInv, NEW m \in Managers, NEW i \in Issuers, Begin(m, i)
    PROVE  IssuerInv' /\ Grows
<1> DEFINE v == Cached(m, i)
<1>1. Takes(m, i)
  BY DEF Begin, IgnoreIssuer, FirstSeen, Inspect
<1>2. UNCHANGED <<log, secret, seen, secretSeen, budgets>>
  BY <1>1 DEF Takes, caches
<1>3. Grows /\ LogsOK'
  BY <1>2, KeepVersions DEF IssuerInv
<1>4. /\ queue' \in [Managers -> [Issuers -> {"none", "delayed", "ready"}]]
      /\ \A n \in Managers, j \in Issuers : queue'[n][j] # "none" => queue[n][j] # "none"
  <2>1. /\ queue \in [Managers -> [Issuers -> {"none", "delayed", "ready"}]]
        /\ queue' = [queue EXCEPT ![m][i] = "none"]
    BY <1>1 DEF Takes, IssuerInv, TypeOK
  <2>2. queue' \in [Managers -> [Issuers -> {"none", "delayed", "ready"}]]
    BY <2>1
  <2>3. ASSUME NEW n \in Managers, NEW j \in Issuers, queue'[n][j] # "none"
        PROVE  queue[n][j] # "none"
    <3>1. CASE n = m
      BY <2>1, <2>3, <3>1
    <3>2. CASE n # m
      BY <2>1, <2>3, <3>2
    <3>3. QED
      BY <3>1, <3>2
  <2>4. QED
    BY <2>2, <2>3
<1>5. seen[m][i] \in 1 .. Len(log[i]) /\ log[i] \in Seq(Version) /\ v \in Version
  <2>1. queue[m][i] # "none"
    BY <1>1 DEF Takes
  <2>2. seen[m][i] \in 1 .. Len(log[i]) /\ log[i] \in Seq(Version)
    BY <2>1 DEF IssuerInv, TypeOK
  <2>3. QED
    BY <2>2 DEF Cached
<1>6. /\ worker' \in [Managers -> Work]
      /\ \A n \in Managers \ {m} : worker'[n] = worker[n]
      /\ CallOK(m)' \/ worker'[m] = worker[m]
  <2>1. CASE IgnoreIssuer(m, i)
    BY <2>1 DEF IgnoreIssuer, IssuerInv, TypeOK
  <2>2. ASSUME NEW pc \in {"secret", "update"}, NEW obj \in Version,
               Works(m, i, pc, obj), ~v.deleted, Accurate(obj, v),
               IF pc = "secret" THEN obj = v ELSE obj # v
        PROVE  /\ worker' \in [Managers -> Work]
               /\ \A n \in Managers \ {m} : worker'[n] = worker[n]
               /\ CallOK(m)'
    <3> DEFINE w == [pc |-> pc, issuer |-> i, rv |-> seen[m][i], obj |-> obj,
                     secretRead |-> 0, result |-> "done"]
    <3>1. w \in Work /\ worker' = [worker EXCEPT ![m] = w]
      BY <1>5, <2>2 DEF Work, Works
    <3>2. worker' \in [Managers -> Work] /\ worker'[m] = w
      BY <3>1 DEF IssuerInv, TypeOK
    <3>3. i # NoIssuer
      BY IssuerConstantsAssumption
    <3>4. CallOK(m)'
      BY <1>2, <1>5, <2>2, <3>2, <3>3 DEF CallOK, Cached
    <3>5. QED
      BY <3>1, <3>2, <3>4 DEF IssuerInv, TypeOK
  <2>3. CASE FirstSeen(m, i)
    <3> DEFINE w == SetReadyCondition(v, "Unknown", "FirstSeen")
    <3>1. v.status = "absent" /\ ~v.deleted /\ Works(m, i, "update", w)
      BY <2>3 DEF FirstSeen
    <3>2. w \in Version /\ w.status = "Unknown" /\ Accurate(w, v)
      BY <1>5, ConditionFollows
    <3> HIDE DEF w
    <3>3. w # v
      BY <3>1, <3>2
    <3>4. QED
      BY <2>2, <3>1, <3>2, <3>3
  <2>4. CASE Inspect(m, i)
    BY <1>5, <2>2, <2>4 DEF Inspect, Accurate
  <2>5. QED
    BY <2>1, <2>3, <2>4 DEF Begin
<1>7. QED
  BY <1>2, <1>3, <1>4, <1>6, SeenStays, StepKeepsInv DEF IssuerInv, TypeOK, budgets

LEMMA CallStep ==
    ASSUME IssuerInv, NEW m \in Managers, Call(m)
    PROVE  IssuerInv' /\ Grows
<1> DEFINE i == worker[m].issuer
<1>1. /\ worker[m].pc \in {"secret", "check"}
      /\ UNCHANGED <<log, secret, queue, seen, secretSeen, changes, touches>>
      /\ faults' \in {faults, faults + 1}
  BY DEF Call, SecretMissing, SecretFound, CheckFails, CheckSucceeds, At, caches
<1>2. Grows /\ LogsOK'
  BY <1>1, KeepVersions DEF IssuerInv
<1>3. /\ worker[m] \in Work /\ worker[m].obj \in Version /\ i \in Issuers /\ CallOK(m)
  BY <1>1 DEF IssuerInv, TypeOK, Work, CallOK
<1>4. /\ worker' \in [Managers -> Work]
      /\ \A n \in Managers \ {m} : worker'[n] = worker[n]
      /\ CallOK(m)'
  <2>1. ASSUME NEW status \in {"True", "False"}, NEW result \in {"requeue", "error"},
               NEW message \in {"Success", "NoSecret", "CheckFailed"},
               Returns(m, status, message, result)
        PROVE  /\ worker' \in [Managers -> Work]
               /\ \A n \in Managers \ {m} : worker'[n] = worker[n]
               /\ CallOK(m)'
    <3> DEFINE obj == SetReadyCondition(worker[m].obj, status, message)
    <3>1. obj \in Version /\ Accurate(obj, worker[m].obj)
      BY <1>3, ConditionFollows
    <3>2. worker' = [worker EXCEPT ![m] = [@ EXCEPT !.pc = "update", !.result = result, !.obj = obj]]
      BY <2>1 DEF Returns
    <3> HIDE DEF obj
    <3>3. /\ worker' \in [Managers -> Work]
          /\ worker'[m] = [worker[m] EXCEPT !.pc = "update", !.result = result, !.obj = obj]
      BY <1>3, <3>1, <3>2 DEF IssuerInv, TypeOK, Work
    <3>4. CallOK(m)'
      BY <1>1, <1>3, <3>1, <3>3 DEF CallOK, Work
    <3>5. QED
      BY <3>2, <3>3, <3>4 DEF IssuerInv, TypeOK
  <2>2. CASE SecretFound(m)
    <3>1. worker' = [worker EXCEPT ![m] = [@ EXCEPT !.pc = "check", !.secretRead = secretSeen[m][i]]]
      BY <2>2 DEF SecretFound
    <3>2. [worker[m] EXCEPT !.pc = "check", !.secretRead = secretSeen[m][i]] \in Work
      BY <1>3, secretSeen[m][i] \in Nat DEF IssuerInv, TypeOK, Work
    <3>3. /\ worker' \in [Managers -> Work]
          /\ worker'[m] = [worker[m] EXCEPT !.pc = "check", !.secretRead = secretSeen[m][i]]
      BY <3>1, <3>2 DEF IssuerInv, TypeOK
    <3>4. CallOK(m)'
      BY <1>1, <1>3, <3>3 DEF CallOK, Work
    <3>5. QED
      BY <3>1, <3>3, <3>4 DEF IssuerInv, TypeOK
  <2>3. QED
    BY <2>1, <2>2 DEF Call, SecretMissing, CheckFails, CheckSucceeds
<1>5. QED
  <2>1. faults' \in Nat
    BY <1>1 DEF IssuerInv, TypeOK
  <2>2. QED
    BY <1>1, <1>2, <1>4, <2>1, SeenStays, StepKeepsInv DEF IssuerInv, TypeOK

-----------------------------------------------------------------------------
(* The end of a call, and a restart.                                         *)

\* The status update stores the working copy, or nothing when nothing changed.
LEMMA StoreStatusStores ==
    ASSUME IssuerInv, NEW m \in Managers, worker[m].pc = "update", IsCurrent(m), StoreStatus(m),
           UNCHANGED secret
    PROVE  /\ Grows /\ LogsOK'
           /\ \/ UNCHANGED log
              \/ Len(log'[worker[m].issuer]) = Len(log[worker[m].issuer]) + 1
           /\ worker[m].result = "done" => Len(log'[worker[m].issuer]) > Len(log[worker[m].issuer])
<1> DEFINE i == worker[m].issuer
<1>1. CallOK(m) /\ i \in Issuers /\ worker[m].obj \in Version
  BY DEF IssuerInv, TypeOK, Work, CallOK
<1>2. Latest(i) = log[i][worker[m].rv] /\ ~Latest(i).deleted /\ Accurate(worker[m].obj, Latest(i))
  BY <1>1 DEF CallOK, IsCurrent, Latest
<1>3. Len(log[i]) \in Nat
  BY <1>1 DEF IssuerInv, TypeOK
<1>4. CASE worker[m].obj = Latest(i)
  <2>1. UNCHANGED log /\ worker[m].result # "done"
    BY <1>1, <1>2, <1>4 DEF StoreStatus, CallOK
  <2>2. QED
    BY <1>3, <1>4, <2>1, KeepVersions DEF IssuerInv, Latest
<1>5. CASE worker[m].obj # Latest(i)
  <2>1. log' = [log EXCEPT ![i] = Append(@, worker[m].obj)]
    BY <1>5 DEF StoreStatus
  <2>2. /\ Grows /\ LogsOK' /\ Len(log'[i]) = Len(log[i]) + 1
    BY <1>1, <1>2, <2>1, AppendVersion DEF IssuerInv
  <2>3. QED
    BY <1>3, <2>2
<1>6. QED
  BY <1>4, <1>5

\* The worker is idle, and the entry may be queued again.
LEMMA FinishEnds ==
    ASSUME IssuerInv, NEW m \in Managers, worker[m].pc = "update", NEW again \in BOOLEAN,
           Finish(m, again)
    PROVE  /\ worker' \in [Managers -> Work] /\ worker'[m] = Idle
           /\ \A n \in Managers \ {m} : worker'[n] = worker[n]
           /\ queue' \in [Managers -> [Issuers -> {"none", "delayed", "ready"}]]
           /\ \A n \in Managers, j \in Issuers :
                 /\ queue[n][j] # "none" => queue'[n][j] # "none"
                 /\ queue'[n][j] # "none" => queue[n][j] # "none" \/ seen[n][j] > 0
           /\ again => queue'[m][worker[m].issuer] # "none"
<1> DEFINE i == worker[m].issuer
<1>1. i \in Issuers /\ seen[m][i] \in Nat /\ worker[m].rv \in 1 .. seen[m][i]
  <2>1. i \in Issuers
    BY DEF IssuerInv, TypeOK, Work, CallOK
  <2>2. QED
    BY <2>1 DEF IssuerInv, TypeOK, CallOK
<1>2. worker' = [worker EXCEPT ![m] = Idle]
  BY DEF Finish
<1>3. CASE again /\ queue[m][i] = "none"
  <2>1. queue' = [queue EXCEPT ![m][i] = "delayed"]
    BY <1>3 DEF Finish
  <2>2. queue' \in [Managers -> [Issuers -> {"none", "delayed", "ready"}]]
    BY <1>1, <2>1 DEF IssuerInv, TypeOK
  <2>3. \A n \in Managers, j \in Issuers :
          queue'[n][j] = IF n = m /\ j = i THEN "delayed" ELSE queue[n][j]
    BY <1>1, <2>1 DEF IssuerInv, TypeOK
  <2>4. seen[m][i] > 0
    BY <1>1
  <2>5. QED
    BY <1>1, <1>2, <2>2, <2>3, <2>4, IdleTyped DEF IssuerInv, TypeOK
<1>4. CASE ~(again /\ queue[m][i] = "none")
  <2>1. queue' = queue
    BY <1>4 DEF Finish
  <2>2. QED
    BY <1>1, <1>2, <1>4, <2>1, IdleTyped DEF IssuerInv, TypeOK
<1>5. QED
  BY <1>3, <1>4

LEMMA EndStep ==
    ASSUME IssuerInv, NEW m \in Managers, End(m)
    PROVE  IssuerInv' /\ Grows
<1>1. /\ worker[m].pc = "update" /\ UNCHANGED <<secret, seen, secretSeen, changes, touches>>
      /\ faults' \in {faults, faults + 1}
      /\ \E again \in BOOLEAN : Finish(m, again)
  BY DEF End, WriteStatus, WriteConflict, WriteUnreachable, WriteUnacknowledged, Fault,
         caches, budgets
<1>2. faults' \in Nat
  BY <1>1 DEF IssuerInv, TypeOK
<1>3. Grows /\ LogsOK'
  <2>1. CASE UNCHANGED log
    BY <1>1, <2>1, KeepVersions DEF IssuerInv
  <2>2. CASE IsCurrent(m) /\ StoreStatus(m)
    BY <1>1, <2>2, StoreStatusStores
  <2>3. QED
    BY <2>1, <2>2 DEF End, WriteStatus, WriteConflict, WriteUnreachable, WriteUnacknowledged
<1>4. PICK again \in BOOLEAN : Finish(m, again)
  BY <1>1
<1>5. /\ worker' \in [Managers -> Work] /\ worker'[m] = Idle
      /\ \A n \in Managers \ {m} : worker'[n] = worker[n]
      /\ queue' \in [Managers -> [Issuers -> {"none", "delayed", "ready"}]]
      /\ \A n \in Managers, j \in Issuers : queue'[n][j] # "none" => seen[n][j] > 0
  BY <1>1, <1>4, FinishEnds DEF IssuerInv
<1>6. CallOK(m)'
  BY <1>5 DEF CallOK, Idle
<1>7. \A n \in Managers, j \in Issuers : seen[n][j] <= seen[n][j] /\ seen[n][j] <= Len(log'[j])
  BY <1>3, CachesStay, SeenStays
<1>8. QED
  BY <1>1, <1>2, <1>3, <1>5, <1>6, <1>7, StepKeepsInv DEF IssuerInv, TypeOK

LEMMA CrashStep ==
    ASSUME IssuerInv, NEW m \in Managers, Crash(m)
    PROVE  IssuerInv' /\ Grows
<1>1. UNCHANGED <<log, secret, changes, touches>> /\ faults' = faults + 1
  BY DEF Crash, Fault
<1>2. Grows /\ LogsOK'
  BY <1>1, KeepVersions DEF IssuerInv
<1>3. /\ worker' \in [Managers -> Work] /\ worker'[m] = Idle
      /\ \A n \in Managers \ {m} : worker'[n] = worker[n]
  BY IdleTyped DEF Crash, IssuerInv, TypeOK
<1>4. /\ seen' \in [Managers -> [Issuers -> Nat]]
      /\ secretSeen' \in [Managers -> [Issuers -> Nat \ {0}]]
      /\ queue' \in [Managers -> [Issuers -> {"none", "delayed", "ready"}]]
  BY DEF Crash, IssuerInv, TypeOK
<1>5. \A n \in Managers, j \in Issuers :
        /\ seen'[n][j] = IF n = m THEN 0 ELSE seen[n][j]
        /\ secretSeen'[n][j] = IF n = m THEN 1 ELSE secretSeen[n][j]
        /\ queue'[n][j] = IF n = m THEN "none" ELSE queue[n][j]
  BY DEF Crash, IssuerInv, TypeOK
<1>6. \A j \in Issuers : Len(log[j]) \in Nat /\ Len(secret[j]) \in Nat \ {0}
  BY LatestTyped DEF IssuerInv
<1>7. \A n \in Managers, j \in Issuers :
        /\ seen'[n][j] <= Len(log'[j]) /\ secretSeen'[n][j] <= Len(secret'[j])
        /\ queue'[n][j] # "none" => seen'[n][j] > 0
        /\ n # m => seen[n][j] <= seen'[n][j]
  BY <1>1, <1>5, <1>6, SeenStays DEF IssuerInv, TypeOK
<1>8. CallOK(m)'
  BY <1>3 DEF CallOK, Idle
<1>9. faults' \in Nat
  BY <1>1 DEF IssuerInv, TypeOK
<1>10. QED
  BY <1>1, <1>2, <1>3, <1>4, <1>7, <1>8, <1>9, StepKeepsInv DEF IssuerInv, TypeOK

LEMMA NextKeepsInv == IssuerInv /\ [Next]_vars => IssuerInv' /\ Grows
<1> SUFFICES ASSUME IssuerInv, [Next]_vars
             PROVE  IssuerInv' /\ Grows
  OBVIOUS
<1>1. CASE UNCHANGED vars
  <2>1. UNCHANGED <<log, secret, seen, secretSeen, queue, worker, changes, faults, touches>>
    BY <1>1 DEF vars, caches, budgets
  <2>2. Grows /\ LogsOK'
    BY <2>1, KeepVersions DEF IssuerInv
  <2>3. QED
    BY <2>1, <2>2, SeenStays, StepKeepsInv DEF IssuerInv, TypeOK
<1>2. CASE \E i \in Issuers : Environment(i)
  BY <1>2, EnvironmentStep
<1>3. CASE \E m \in Managers, i \in Issuers : Informer(m, i) \/ Begin(m, i)
  BY <1>3, InformerStep, BeginStep
<1>4. CASE \E m \in Managers : Call(m) \/ End(m) \/ Crash(m)
  BY <1>4, CallStep, EndStep, CrashStep
<1>5. QED
  BY <1>1, <1>2, <1>3, <1>4 DEF Next

THEOREM IssuerInvariance == Spec => []IssuerInv
<1>1. Init => IssuerInv
  BY InitIssuerInv
<1>2. IssuerInv /\ [Next]_vars => IssuerInv'
  BY NextKeepsInv
<1>3. QED
  BY <1>1, <1>2, PTL DEF Spec

\* Versions, caches, queue entries and calls of the issuer controller stay well
\* formed.
THEOREM TypeCorrectness == Spec => []TypeOK
<1>1. IssuerInv => TypeOK
  BY DEF IssuerInv
<1>2. QED
  BY <1>1, IssuerInvariance, PTL

\* SetIssuerReadyCondition moves LastTransitionTime exactly when the status
\* changes, over all stored versions: optimistic concurrency makes the version
\* an update was computed from the one it follows.
THEOREM TransitionTimes == Spec => []TransitionTimeIsAccurate
<1>1. IssuerInv => TransitionTimeIsAccurate
  BY DEF IssuerInv, LogsOK
<1>2. QED
  BY <1>1, IssuerInvariance, PTL

-----------------------------------------------------------------------------
(* Health checks go on.                                                      *)

\* A cached version that is deleted is the latest one.
LEMMA DeletedIsLast ==
    ASSUME IssuerInv, NEW m \in Managers, NEW i \in Issuers, seen[m][i] > 0,
           Cached(m, i).deleted
    PROVE  Latest(i).deleted
<1>1. seen[m][i] \in 1 .. Len(log[i])
  BY DEF IssuerInv, TypeOK
<1>2. seen[m][i] = Len(log[i])
  BY <1>1 DEF IssuerInv, LogsOK, Cached
<1>3. QED
  BY <1>2 DEF Cached, Latest

\* What is deleted stays deleted.
LEMMA DeletionStays ==
    ASSUME IssuerInv, IssuerInv', Grows, NEW i \in Issuers, Latest(i).deleted
    PROVE  Latest(i)'.deleted
<1>1. /\ Len(log[i]) \in Nat \ {0} /\ Len(log'[i]) \in Nat \ {0}
      /\ Len(log[i]) <= Len(log'[i])
      /\ log'[i][Len(log[i])] = Latest(i)
  BY LatestTyped DEF IssuerInv, TypeOK, LogsOK, Grows, Latest
<1>2. log'[i][Len(log[i])].deleted => Len(log[i]) = Len(log'[i])
  BY <1>1 DEF IssuerInv, LogsOK
<1>3. QED
  BY <1>1, <1>2 DEF Latest

\* Issuer i will be handled by manager m again.
Awaited(m, i) ==
    \/ queue[m][i] # "none"
    \/ worker[m].issuer = i
    \/ seen[m][i] < Len(log[i])

LEMMA AwaitedStays ==
    ASSUME IssuerInv, IssuerInv', Grows, [Next]_vars,
           NEW m \in Managers, NEW i \in Issuers, Awaited(m, i), ~Latest(i)'.deleted
    PROVE  Awaited(m, i)'
<1>1. /\ seen[m][i] \in Nat /\ Len(log[i]) \in Nat \ {0} /\ Len(log'[i]) \in Nat \ {0}
      /\ Len(log[i]) <= Len(log'[i])
  <2>1. Len(log[i]) \in Nat \ {0}
    BY LatestTyped DEF IssuerInv
  <2>2. Len(log'[i]) \in Nat /\ Len(log[i]) <= Len(log'[i])
    BY DEF Grows
  <2>3. QED
    BY <2>1, <2>2 DEF IssuerInv, TypeOK
<1>2. CASE UNCHANGED <<queue, worker, seen>>
  <2>1. seen[m][i] < Len(log[i]) => seen[m][i] < Len(log'[i])
    BY <1>1
  <2>2. QED
    BY <1>2, <2>1 DEF Awaited
<1>3. ASSUME NEW n \in Managers, NEW j \in Issuers, Informer(n, j)
      PROVE  Awaited(m, i)'
  <2>1. CASE n = m /\ j = i /\ (Deliver(n, j) \/ TimerFires(n, j))
    <3>1. queue'[m][i] = "ready"
      BY <1>3, <2>1 DEF Informer, Deliver, TimerFires, IssuerInv, TypeOK
    <3>2. QED
      BY <3>1 DEF Awaited
  <2>2. CASE n # m \/ j # i
    <3>1. /\ queue'[m][i] = queue[m][i] /\ seen'[m][i] = seen[m][i]
          /\ UNCHANGED <<log, worker>>
      <4>1. CASE Deliver(n, j)
        <5>1. /\ queue' = [queue EXCEPT ![n][j] = "ready"]
              /\ seen' = [seen EXCEPT ![n][j] = @ + 1]
              /\ UNCHANGED <<log, worker>>
          BY <4>1 DEF Deliver
        <5>2. /\ queue \in [Managers -> [Issuers -> {"none", "delayed", "ready"}]]
              /\ seen \in [Managers -> [Issuers -> Nat]]
          BY DEF IssuerInv, TypeOK
        <5>3. CASE n # m
          BY <5>1, <5>2, <5>3
        <5>4. CASE n = m
          <6>1. j # i
            BY <2>2, <5>4
          <6>2. queue'[m][i] = queue[m][i]
            BY <5>1, <5>2, <5>4, <6>1
          <6>3. seen'[m][i] = seen[m][i]
            BY <5>1, <5>2, <5>4, <6>1
          <6>4. QED
            BY <5>1, <6>2, <6>3
        <5>5. QED
          BY <5>3, <5>4
      <4>2. CASE DeliverSecret(n, j)
        BY <4>2 DEF DeliverSecret
      <4>3. CASE TimerFires(n, j)
        BY <2>2, <4>3 DEF TimerFires, caches, IssuerInv, TypeOK
      <4>4. QED
        BY <1>3, <4>1, <4>2, <4>3 DEF Informer
    <3>2. QED
      BY <3>1 DEF Awaited
  <2>3. CASE DeliverSecret(n, j)
    BY <2>3 DEF DeliverSecret, Awaited
  <2>4. QED
    BY <1>3, <2>1, <2>2, <2>3 DEF Informer
<1>4. ASSUME NEW n \in Managers, NEW j \in Issuers, Begin(n, j)
      PROVE  Awaited(m, i)'
  <2>1. Takes(n, j) /\ UNCHANGED <<log, seen>>
    BY <1>4 DEF Begin, IgnoreIssuer, FirstSeen, Inspect, Takes, caches
  <2>2. CASE n = m /\ j = i
    <3>1. ~IgnoreIssuer(n, j)
      BY <1>1, <2>1, <2>2, DeletedIsLast, DeletionStays DEF IgnoreIssuer, Takes, IssuerInv
    <3>2. worker'[m].issuer = i
      BY <1>4, <2>2, <3>1 DEF Begin, FirstSeen, Inspect, Works, IssuerInv, TypeOK
    <3>3. QED
      BY <3>2 DEF Awaited
  <2>3. CASE n # m \/ j # i
    <3>1. queue'[m][i] = queue[m][i]
      BY <2>1, <2>3 DEF Takes, IssuerInv, TypeOK
    <3>2. worker[m].issuer = i => worker'[m].issuer = i
      <4>1. CASE n = m
        <5>1. worker[m].issuer = NoIssuer
          BY <2>1, <4>1 DEF Takes, IssuerInv, CallOK
        <5>2. QED
          BY <5>1, IssuerConstantsAssumption
      <4>2. CASE n # m
        BY <1>4, <4>2 DEF Begin, IgnoreIssuer, FirstSeen, Inspect, Works, IssuerInv, TypeOK
      <4>3. QED
        BY <4>1, <4>2
    <3>3. QED
      BY <2>1, <3>1, <3>2 DEF Awaited
  <2>4. QED
    BY <2>2, <2>3
<1>5. ASSUME NEW n \in Managers, Call(n)
      PROVE  Awaited(m, i)'
  <2>1. UNCHANGED <<log, queue, seen>> /\ worker'[m].issuer = worker[m].issuer
    <3>1. UNCHANGED <<log, queue, seen>>
      BY <1>5 DEF Call, SecretMissing, SecretFound, CheckFails, CheckSucceeds, At, caches
    <3>2. worker \in [Managers -> Work] /\ worker[n] \in Work
      BY DEF IssuerInv, TypeOK
    <3>3. PICK w \in {worker'[n]} : worker' = [worker EXCEPT ![n] = w] /\ w.issuer = worker[n].issuer
      <4>1. CASE SecretFound(n)
        BY <3>2, <4>1 DEF SecretFound, Work
      <4>2. ASSUME NEW s, NEW t, NEW r, Returns(n, s, t, r)
            PROVE  worker' = [worker EXCEPT ![n] = worker'[n]] /\ worker'[n].issuer = worker[n].issuer
        BY <3>2, <4>2 DEF Returns, Work
      <4>3. QED
        BY <1>5, <4>1, <4>2 DEF Call, SecretMissing, CheckFails, CheckSucceeds
    <3>4. QED
      BY <3>1, <3>2, <3>3
  <2>2. QED
    BY <2>1 DEF Awaited
<1>6. ASSUME NEW n \in Managers, End(n)
      PROVE  Awaited(m, i)'
  <2>1. PICK again \in BOOLEAN :
           /\ Finish(n, again) /\ worker[n].pc = "update" /\ UNCHANGED seen
           /\ again \/ Len(log'[worker[n].issuer]) > Len(log[worker[n].issuer])
    <3>1. CASE WriteStatus(n)
      <4>1. worker[n].result = "done" => Len(log'[worker[n].issuer]) > Len(log[worker[n].issuer])
        BY <3>1, StoreStatusStores DEF WriteStatus
      <4>2. QED
        BY <3>1, <4>1 DEF WriteStatus, caches
    <3>2. CASE WriteConflict(n) \/ WriteUnreachable(n) \/ WriteUnacknowledged(n)
      BY <3>2 DEF WriteConflict, WriteUnreachable, WriteUnacknowledged, caches
    <3>3. QED
      BY <1>6, <3>1, <3>2 DEF End
  <2>2. /\ \A k \in Managers \ {n} : worker'[k] = worker[k]
        /\ queue[m][i] # "none" => queue'[m][i] # "none"
        /\ again => queue'[n][worker[n].issuer] # "none"
    BY <2>1, FinishEnds
  <2>3. CASE n = m /\ worker[m].issuer = i
    <3>1. CASE again
      BY <2>2, <2>3, <3>1 DEF Awaited
    <3>2. CASE ~again
      <4>1. seen[m][i] <= Len(log[i]) /\ Len(log'[i]) > Len(log[i])
        BY <2>1, <2>3, <3>2 DEF IssuerInv, TypeOK
      <4>2. QED
        BY <1>1, <2>1, <4>1 DEF Awaited
    <3>3. QED
      BY <3>1, <3>2
  <2>4. CASE ~(n = m /\ worker[m].issuer = i)
    BY <1>1, <2>1, <2>2, <2>4 DEF Awaited
  <2>5. QED
    BY <2>3, <2>4
<1>7. ASSUME NEW n \in Managers, Crash(n)
      PROVE  Awaited(m, i)'
  <2>1. CASE n = m
    <3>1. seen'[m][i] = 0
      BY <1>7, <2>1 DEF Crash, IssuerInv, TypeOK
    <3>2. QED
      BY <1>1, <3>1 DEF Awaited
  <2>2. CASE n # m
    <3>1. /\ queue'[m] = queue[m] /\ seen'[m] = seen[m] /\ worker'[m] = worker[m]
          /\ log' = log
      BY <1>7, <2>2 DEF Crash, IssuerInv, TypeOK
    <3>2. QED
      BY <3>1 DEF Awaited
  <2>3. QED
    BY <2>1, <2>2
<1>8. CASE \E j \in Issuers : Environment(j)
  BY <1>2, <1>8 DEF Environment, Touch, Delete, ChangeSecret, caches
<1>9. CASE UNCHANGED vars
  BY <1>2, <1>9 DEF vars, caches
<1>10. QED
  BY <1>3, <1>4, <1>5, <1>6, <1>7, <1>8, <1>9 DEF Next

\* The controller does not watch secrets, and an unchanged status wakes nobody:
\* it is the requeue after a health check, an error or a conflict that keeps the
\* checks of every issuer going, in every manager and whatever fails.
THEOREM HealthChecks == Spec => []HealthChecksGoOn
<1> DEFINE P == \A m \in Managers, i \in Issuers : ~Latest(i).deleted => Awaited(m, i)
<1>1. Init => P
  <2> SUFFICES ASSUME Init, NEW m \in Managers, NEW i \in Issuers
               PROVE  seen[m][i] < Len(log[i])
    BY DEF Awaited
  <2>2. seen[m][i] = 0 /\ log[i] = <<NewIssuer>>
    BY DEF Init
  <2>3. Len(<<NewIssuer>>) = 1
    OBVIOUS
  <2>4. QED
    BY <2>2, <2>3
<1>2. IssuerInv /\ IssuerInv' /\ P /\ [Next]_vars => P'
  <2> SUFFICES ASSUME IssuerInv, IssuerInv', P, [Next]_vars,
                      NEW m \in Managers, NEW i \in Issuers, ~Latest(i)'.deleted
               PROVE  Awaited(m, i)'
    OBVIOUS
  <2>1. Grows
    BY NextKeepsInv
  <2>2. Awaited(m, i)
    BY <2>1, DeletionStays
  <2>3. QED
    BY <2>1, <2>2, AwaitedStays
<1>3. P => HealthChecksGoOn
  BY DEF HealthChecksGoOn, Awaited
<1> HIDE DEF P
<1>4. QED
  BY <1>1, <1>2, <1>3, IssuerInvariance, PTL DEF Spec

-----------------------------------------------------------------------------
(* What the conditions say.                                                  *)

\* What a call will report is justified by what it has found, and may follow the
\* version it was computed from.
CallReports(m) ==
    LET w == worker[m] IN
    w.pc # "idle" =>
        /\ Justified(secret[w.issuer], w.obj)
        /\ w.pc \in {"secret", "check"} => w.obj.status # "absent"
        /\ w.pc = "check" => Was(secret[w.issuer], {"incomplete", "complete"})
        /\ w.pc = "update" => w.obj.status \in Successors[log[w.issuer][w.rv].status]

ReportsInv ==
    /\ ReadinessIsJustified
    /\ ConditionsComeInOrder
    /\ \A m \in Managers : CallReports(m)

\* No version of a secret is forgotten.
LEMMA SecretsGrow ==
    ASSUME IssuerInv, [Next]_vars, NEW i \in Issuers
    PROVE  \A n \in 1 .. Len(secret[i]) :
              n \in 1 .. Len(secret'[i]) /\ secret'[i][n] = secret[i][n]
<1>1. secret[i] \in Seq(SecretStates) /\ Len(secret[i]) \in Nat
  BY DEF IssuerInv, TypeOK
<1>2. ASSUME NEW j \in Issuers, ChangeSecret(j)
      PROVE  \A n \in 1 .. Len(secret[i]) :
                n \in 1 .. Len(secret'[i]) /\ secret'[i][n] = secret[i][n]
  <2>1. PICK s \in SecretStates : secret' = [secret EXCEPT ![j] = Append(@, s)]
    BY <1>2 DEF ChangeSecret
  <2>2. secret \in [Issuers -> Seq(SecretStates)]
    BY DEF IssuerInv, TypeOK
  <2>3. CASE i = j
    <3>1. secret'[i] = Append(secret[i], s)
      BY <2>1, <2>2, <2>3
    <3>2. QED
      BY <1>1, <3>1
  <2>4. CASE i # j
    BY <1>1, <2>1, <2>2, <2>4
  <2>5. QED
    BY <2>3, <2>4
<1>3. CASE UNCHANGED secret
  BY <1>3
<1>4. QED
  BY <1>2, <1>3
  DEF Next, Environment, Touch, Delete, Informer, Deliver, DeliverSecret, TimerFires, Begin,
      IgnoreIssuer, FirstSeen, Inspect, Takes, Call, SecretMissing, SecretFound, CheckFails,
      CheckSucceeds, At, End, WriteStatus, WriteConflict, WriteUnreachable,
      WriteUnacknowledged, Crash, Fault, vars

LEMMA JustifiedStays ==
    ASSUME IssuerInv, [Next]_vars, NEW i \in Issuers
    PROVE  /\ \A states : Was(secret[i], states) => Was(secret'[i], states)
           /\ \A v : Justified(secret[i], v) => Justified(secret'[i], v)
<1>1. \A states : Was(secret[i], states) => Was(secret'[i], states)
  BY SecretsGrow DEF Was
<1>2. QED
  BY <1>1 DEF Justified

\* A version is added by another client, which leaves the condition as it is, or by
\* the status update of a call that read the latest version.
LEMMA VersionAdded ==
    ASSUME IssuerInv, [Next]_vars, NEW i \in Issuers
    PROVE  \/ log'[i] = log[i]
           \/ \E v \in Version :
                 /\ log'[i] = Append(log[i], v)
                 /\ \/ v.status = Latest(i).status /\ v.message = Latest(i).message
                    \/ \E m \in Managers :
                          /\ worker[m].pc = "update" /\ worker[m].issuer = i
                          /\ IsCurrent(m) /\ v = worker[m].obj
<1>1. log \in [Issuers -> Seq(Version)] /\ worker \in [Managers -> Work]
  BY DEF IssuerInv, TypeOK
<1>2. ASSUME NEW j \in Issuers, Touch(j) \/ Delete(j)
      PROVE  \/ log'[i] = log[i]
             \/ \E v \in Version : /\ log'[i] = Append(log[i], v)
                                  /\ v.status = Latest(i).status /\ v.message = Latest(i).message
  <2>1. PICK v \in {Latest(j), [Latest(j) EXCEPT !.deleted = TRUE]} : Store(j, v)
    BY <1>2 DEF Touch, Delete
  <2>2. Latest(j) \in Version
    BY LatestTyped DEF IssuerInv
  <2>3. v \in Version /\ v.status = Latest(j).status /\ v.message = Latest(j).message
    BY <2>1, <2>2 DEF Version
  <2>4. log' = [log EXCEPT ![j] = Append(@, v)]
    BY <2>1 DEF Store
  <2>5. CASE i = j
    BY <1>1, <2>3, <2>4, <2>5
  <2>6. CASE i # j
    BY <1>1, <2>4, <2>6
  <2>7. QED
    BY <2>5, <2>6
<1>3. ASSUME NEW m \in Managers, worker[m].pc = "update", IsCurrent(m), StoreStatus(m)
      PROVE  \/ log'[i] = log[i]
             \/ /\ log'[i] = Append(log[i], worker[m].obj) /\ worker[m].issuer = i
                /\ worker[m].obj \in Version
  <2>1. worker[m].obj \in Version
    BY <1>1 DEF Work
  <2>2. CASE UNCHANGED log
    BY <2>2
  <2>3. CASE log' = [log EXCEPT ![worker[m].issuer] = Append(@, worker[m].obj)]
    BY <1>1, <2>1, <2>3
  <2>4. QED
    BY <1>3, <2>2, <2>3 DEF StoreStatus
<1>4. CASE UNCHANGED log
  BY <1>4
<1>5. CASE \E m \in Managers : worker[m].pc = "update" /\ IsCurrent(m) /\ StoreStatus(m)
  BY <1>3, <1>5
<1>6. CASE \E j \in Issuers : Touch(j) \/ Delete(j)
  BY <1>2, <1>6
<1>7. QED
  BY <1>4, <1>5, <1>6
  DEF Next, Environment, ChangeSecret, Informer, Deliver, DeliverSecret, TimerFires, Begin,
      IgnoreIssuer, FirstSeen, Inspect, Takes, Call, SecretMissing, SecretFound, CheckFails,
      CheckSucceeds, At, End, WriteStatus, WriteConflict, WriteUnreachable,
      WriteUnacknowledged, Crash, Fault, vars

\* The stored versions.
LEMMA VersionsJustified ==
    ASSUME IssuerInv, ReportsInv, [Next]_vars
    PROVE  ReadinessIsJustified' /\ ConditionsComeInOrder'
<1>1. ASSUME NEW i \in Issuers
      PROVE  /\ \A k \in 1 .. Len(log'[i]) : Justified(secret'[i], log'[i][k])
             /\ \A k \in 2 .. Len(log'[i]) :
                   log'[i][k].status \in Successors[log'[i][k - 1].status]
  <2> DEFINE n == Len(log[i])
  <2>1. /\ log[i] \in Seq(Version) /\ n \in Nat \ {0} /\ Latest(i) = log[i][n]
        /\ Latest(i) \in Version
    BY LatestTyped DEF IssuerInv, TypeOK, Latest
  <2>2. /\ \A k \in 1 .. n : Justified(secret'[i], log[i][k])
        /\ \A k \in 2 .. n : log[i][k].status \in Successors[log[i][k - 1].status]
    BY JustifiedStays DEF ReportsInv, ReadinessIsJustified, ConditionsComeInOrder
  <2>3. CASE log'[i] = log[i]
    BY <2>2, <2>3
  <2>4. ASSUME NEW v \in Version, log'[i] = Append(log[i], v),
               Justified(secret'[i], v), v.status \in Successors[Latest(i).status]
        PROVE  /\ \A k \in 1 .. Len(log'[i]) : Justified(secret'[i], log'[i][k])
               /\ \A k \in 2 .. Len(log'[i]) :
                     log'[i][k].status \in Successors[log'[i][k - 1].status]
    <3>1. /\ Len(log'[i]) = n + 1 /\ log'[i][n + 1] = v
          /\ \A k \in 1 .. n : log'[i][k] = log[i][k]
      BY <2>1, <2>4
    <3> HIDE DEF n
    <3>2. ASSUME NEW k \in 1 .. n + 1
          PROVE  Justified(secret'[i], log'[i][k])
      <4>1. k \in 1 .. n \/ k = n + 1
        BY <2>1
      <4>2. QED
        BY <2>2, <2>4, <3>1, <4>1
    <3>3. ASSUME NEW k \in 2 .. n + 1
          PROVE  log'[i][k].status \in Successors[log'[i][k - 1].status]
      <4>1. CASE k = n + 1
        <5>1. log'[i][k - 1] = Latest(i)
          BY <2>1, <3>1, <4>1
        <5>2. QED
          BY <2>4, <3>1, <4>1, <5>1
      <4>2. CASE k # n + 1
        <5>1. k \in 2 .. n /\ k \in 1 .. n /\ k - 1 \in 1 .. n
          BY <2>1, <4>2
        <5>2. QED
          BY <2>2, <3>1, <5>1
      <4>3. QED
        BY <4>1, <4>2
    <3>4. QED
      BY <3>1, <3>2, <3>3
  <2>5. ASSUME NEW v \in Version, log'[i] = Append(log[i], v),
               v.status = Latest(i).status, v.message = Latest(i).message
        PROVE  Justified(secret'[i], v) /\ v.status \in Successors[Latest(i).status]
    <3>1. Justified(secret'[i], Latest(i))
      BY <2>1, <2>2
    <3>2. Justified(secret'[i], v)
      BY <2>5, <3>1 DEF Justified
    <3>3. v.status \in Successors[Latest(i).status]
      BY <2>1, <2>5 DEF Version, Successors
    <3>4. QED
      BY <3>2, <3>3
  <2>6. ASSUME NEW m \in Managers, worker[m].pc = "update", worker[m].issuer = i, IsCurrent(m)
        PROVE  Justified(secret'[i], worker[m].obj) /\ worker[m].obj.status \in Successors[Latest(i).status]
    <3>1. CallReports(m)
      BY DEF ReportsInv
    <3>2. Justified(secret'[i], worker[m].obj)
      BY <2>6, <3>1, JustifiedStays DEF CallReports
    <3>3. log[i][worker[m].rv] = Latest(i)
      BY <2>6 DEF IsCurrent, Latest
    <3>4. QED
      BY <2>6, <3>1, <3>2, <3>3 DEF CallReports
  <2>7. QED
    BY <2>3, <2>4, <2>5, <2>6, VersionAdded
<1>2. QED
  BY <1>1 DEF ReadinessIsJustified, ConditionsComeInOrder

\* A call in progress, as its invariant leaves it.
LEMMA CallTyped ==
    ASSUME IssuerInv, NEW n \in Managers, worker[n].pc # "idle"
    PROVE  /\ worker[n] \in Work /\ worker[n].issuer \in Issuers
           /\ worker[n].rv \in 1 .. Len(log[worker[n].issuer])
           /\ worker[n].pc \in {"secret", "check"} =>
                 worker[n].obj = log[worker[n].issuer][worker[n].rv]
<1>1. CallOK(n) /\ worker[n] \in Work /\ worker[n].issuer \in Issuers
  BY DEF IssuerInv, TypeOK, Work, CallOK
<1>2. /\ seen[n][worker[n].issuer] \in Nat /\ Len(log[worker[n].issuer]) \in Nat
      /\ seen[n][worker[n].issuer] <= Len(log[worker[n].issuer])
  BY <1>1 DEF IssuerInv, TypeOK
<1>3. worker[n].rv \in 1 .. seen[n][worker[n].issuer]
  BY <1>1 DEF CallOK
<1>4. worker[n].rv \in 1 .. Len(log[worker[n].issuer])
  BY <1>2, <1>3
<1>5. QED
  BY <1>1, <1>4 DEF CallOK

\* A call that takes up an issuer reports what the cached version says, or that it
\* has been seen first.
LEMMA BegunReports ==
    ASSUME IssuerInv, ReportsInv, [Next]_vars, NEW n \in Managers, NEW i \in Issuers,
           FirstSeen(n, i) \/ Inspect(n, i)
    PROVE  CallReports(n)'
<1> DEFINE v == Cached(n, i)
<1>1. Takes(n, i) /\ log' = log
  BY DEF FirstSeen, Inspect, Takes
<1>2. seen[n][i] \in 1 .. Len(log[i]) /\ log[i] \in Seq(Version)
  <2>1. queue[n][i] # "none"
    BY <1>1 DEF Takes
  <2>2. /\ seen[n][i] \in Nat /\ Len(log[i]) \in Nat
        /\ seen[n][i] > 0 /\ seen[n][i] <= Len(log[i])
    BY <2>1 DEF IssuerInv, TypeOK
  <2>3. QED
    BY <2>2 DEF IssuerInv, TypeOK
<1>3. v \in Version /\ v = log[i][seen[n][i]]
  BY <1>2 DEF Cached
<1>4. Justified(secret'[i], v)
  BY <1>2, <1>3, JustifiedStays DEF ReportsInv, ReadinessIsJustified
<1>5. worker \in [Managers -> Work]
  BY DEF IssuerInv, TypeOK
<1>6. CASE Inspect(n, i)
  <2>1. /\ worker'[n].pc = "secret" /\ worker'[n].issuer = i /\ worker'[n].obj = v
        /\ v.status # "absent"
    BY <1>5, <1>6 DEF Inspect, Works
  <2>2. QED
    BY <1>4, <2>1 DEF CallReports
<1>7. CASE FirstSeen(n, i)
  <2> DEFINE u == SetReadyCondition(v, "Unknown", "FirstSeen")
  <2>1. /\ worker'[n].pc = "update" /\ worker'[n].issuer = i /\ worker'[n].obj = u
        /\ worker'[n].rv = seen[n][i] /\ v.status = "absent"
    BY <1>5, <1>7 DEF FirstSeen, Works
  <2>2. u.status = "Unknown" /\ u.message = "FirstSeen"
    BY <1>3 DEF SetReadyCondition, Version
  <2>3. Justified(secret'[i], u)
    BY <2>2 DEF Justified
  <2>4. u.status \in Successors[v.status]
    BY <2>1, <2>2 DEF Successors
  <2> HIDE DEF u
  <2>5. worker'[n].obj.status \in Successors[log'[i][worker'[n].rv].status]
    BY <1>1, <1>3, <2>1, <2>4
  <2>6. QED
    BY <2>1, <2>3, <2>5 DEF CallReports
<1>8. QED
  BY <1>6, <1>7

\* What a call that returns sets, after it has read a version with a condition.
LEMMA ReturnReports ==
    ASSUME IssuerInv, NEW n \in Managers, worker[n].pc \in {"secret", "check"},
           CallReports(n), log' = log,
           NEW status \in {"True", "False"}, NEW message \in {"Success", "NoSecret", "CheckFailed"},
           status = "True" <=> message = "Success", NEW result,
           Returns(n, status, message, result),
           message \in {"Success", "CheckFailed"} =>
               Was(secret'[worker[n].issuer], {"incomplete", "complete"}),
           message = "NoSecret" => Was(secret'[worker[n].issuer], {"absent"})
    PROVE  CallReports(n)'
<1> DEFINE w == worker[n]
           u == SetReadyCondition(w.obj, status, message)
<1>1. /\ w \in Work /\ w.obj \in Version /\ w.obj = log[w.issuer][w.rv]
      /\ w.obj.status # "absent"
  BY CallTyped DEF CallReports, Work
<1>2. /\ worker'[n].pc = "update" /\ worker'[n].issuer = w.issuer
      /\ worker'[n].rv = w.rv /\ worker'[n].obj = u
  BY <1>1 DEF Returns, Work, IssuerInv, TypeOK
<1>3. u.status = status /\ u.message = message
  BY <1>1 DEF SetReadyCondition, Version
<1> HIDE DEF u
<1>4. Justified(secret'[w.issuer], u)
  BY <1>3 DEF Justified
<1>5. status \in Successors[w.obj.status]
  BY <1>1 DEF Successors, Version
<1>6. worker'[n].obj.status \in Successors[log'[worker'[n].issuer][worker'[n].rv].status]
  BY <1>1, <1>2, <1>3, <1>5
<1>7. QED
  BY <1>2, <1>4, <1>6 DEF CallReports

LEMMA CallStepReports ==
    ASSUME IssuerInv, ReportsInv, [Next]_vars, NEW n \in Managers, Call(n)
    PROVE  CallReports(n)'
<1> DEFINE w == worker[n]
           i == w.issuer
<1>1. /\ w.pc \in {"secret", "check"} /\ log' = log
  BY DEF Call, SecretMissing, SecretFound, CheckFails, CheckSucceeds, At
<1>2. w \in Work /\ i \in Issuers /\ CallReports(n)
  BY <1>1, CallTyped DEF ReportsInv
<1>3. secretSeen[n][i] \in 1 .. Len(secret[i]) /\ secret[i] \in Seq(SecretStates)
  <2>1. /\ secretSeen[n][i] \in Nat \ {0} /\ Len(secret[i]) \in Nat
        /\ secretSeen[n][i] <= Len(secret[i]) /\ secret[i] \in Seq(SecretStates)
    BY <1>2 DEF IssuerInv, TypeOK
  <2>2. QED
    BY <2>1
<1>4. CachedSecret(n, i) = secret[i][secretSeen[n][i]] /\ CachedSecret(n, i) \in SecretStates
  BY <1>3 DEF CachedSecret
<1>5. \A states : CachedSecret(n, i) \in states => Was(secret'[i], states)
  BY <1>2, <1>3, <1>4, JustifiedStays DEF Was
<1>6. CASE SecretMissing(n)
  <2>1. Was(secret'[i], {"absent"})
    BY <1>5, <1>6 DEF SecretMissing
  <2>2. Returns(n, "False", "NoSecret", "error")
    BY <1>6 DEF SecretMissing
  <2>3. QED
    BY <1>1, <1>2, <2>1, <2>2, ReturnReports
<1>7. CASE SecretFound(n)
  <2>1. Was(secret'[i], {"incomplete", "complete"})
    BY <1>4, <1>5, <1>7 DEF SecretFound, SecretStates
  <2>2. /\ worker'[n].pc = "check" /\ worker'[n].issuer = i /\ worker'[n].obj = w.obj
    BY <1>2, <1>7 DEF SecretFound, Work, IssuerInv, TypeOK
  <2>3. Justified(secret'[i], w.obj) /\ w.obj.status # "absent"
    BY <1>1, <1>2, JustifiedStays DEF CallReports
  <2>4. QED
    BY <2>1, <2>2, <2>3 DEF CallReports
<1>8. CASE CheckFails(n) \/ CheckSucceeds(n)
  <2>1. w.pc = "check"
    BY <1>8 DEF CheckFails, CheckSucceeds, At
  <2>2. Was(secret'[i], {"incomplete", "complete"})
    BY <1>2, <2>1, JustifiedStays DEF CallReports
  <2>3. Returns(n, "False", "CheckFailed", "error") \/ Returns(n, "True", "Success", "requeue")
    BY <1>8 DEF CheckFails, CheckSucceeds
  <2>4. QED
    BY <1>1, <1>2, <2>2, <2>3, ReturnReports
<1>9. QED
  BY <1>6, <1>7, <1>8 DEF Call

LEMMA CallsReport ==
    ASSUME IssuerInv, IssuerInv', Grows, ReportsInv, [Next]_vars, NEW n \in Managers
    PROVE  CallReports(n)'
<1> DEFINE w == worker[n]
<1>1. worker \in [Managers -> Work]
  BY DEF IssuerInv, TypeOK
<1>2. CASE worker'[n] = w
  <2>1. CASE w.pc = "idle"
    BY <1>2, <2>1 DEF CallReports
  <2>2. CASE w.pc # "idle"
    <3>1. w.issuer \in Issuers /\ w.rv \in 1 .. Len(log[w.issuer]) /\ CallReports(n)
      BY <2>2, CallTyped DEF ReportsInv
    <3>2. log'[w.issuer][w.rv] = log[w.issuer][w.rv]
      BY <3>1 DEF Grows
    <3>3. /\ Justified(secret[w.issuer], w.obj) => Justified(secret'[w.issuer], w.obj)
          /\ Was(secret[w.issuer], {"incomplete", "complete"}) =>
                Was(secret'[w.issuer], {"incomplete", "complete"})
      BY <3>1, JustifiedStays
    <3>4. QED
      BY <1>2, <2>2, <3>1, <3>2, <3>3 DEF CallReports
  <2>3. QED
    BY <2>1, <2>2
<1>3. CASE \E i \in Issuers : FirstSeen(n, i) \/ Inspect(n, i)
  BY <1>3, BegunReports
<1>4. CASE Call(n)
  BY <1>4, CallStepReports
<1>5. CASE End(n) \/ Crash(n)
  <2>1. worker'[n] = Idle
    BY <1>1, <1>5 DEF End, WriteStatus, WriteConflict, WriteUnreachable, WriteUnacknowledged,
                      Finish, Crash
  <2>2. QED
    BY <2>1 DEF Idle, CallReports
<1>6. ASSUME NEW m \in Managers, m # n, NEW u, worker' = [worker EXCEPT ![m] = u]
      PROVE  worker'[n] = w
  BY <1>1, <1>6
<1>7. ASSUME NEW m \in Managers, m # n,
             (\E i \in Issuers : Begin(m, i)) \/ Call(m) \/ End(m) \/ Crash(m)
      PROVE  worker'[n] = w
  <2>1. CASE \E i \in Issuers : Begin(m, i)
    BY <1>1, <1>7, <2>1 DEF Begin, IgnoreIssuer, FirstSeen, Inspect, Works
  <2>2. CASE Call(m)
    BY <1>1, <1>7, <2>2 DEF Call, SecretMissing, SecretFound, CheckFails, CheckSucceeds, Returns
  <2>3. CASE End(m) \/ Crash(m)
    BY <1>1, <1>7, <2>3 DEF End, WriteStatus, WriteConflict, WriteUnreachable,
                            WriteUnacknowledged, Finish, Crash
  <2>4. QED
    BY <1>7, <2>1, <2>2, <2>3
<1>8. CASE \E i \in Issuers : IgnoreIssuer(n, i)
  BY <1>2, <1>8 DEF IgnoreIssuer
<1>9. CASE UNCHANGED worker
  BY <1>2, <1>9
<1>10. QED
  BY <1>2, <1>3, <1>4, <1>5, <1>7, <1>8, <1>9
  DEF Next, Environment, Touch, Delete, ChangeSecret, Informer, Deliver, DeliverSecret,
      TimerFires, Begin, vars

LEMMA ReportsStay ==
    IssuerInv /\ IssuerInv' /\ ReportsInv /\ [Next]_vars => ReportsInv'
<1> SUFFICES ASSUME IssuerInv, IssuerInv', ReportsInv, [Next]_vars
             PROVE  ReportsInv'
  OBVIOUS
<1>1. Grows
  BY NextKeepsInv
<1>2. \A n \in Managers : CallReports(n)'
  BY <1>1, CallsReport
<1>3. QED
  BY <1>2, VersionsJustified DEF ReportsInv

LEMMA InitReports == Init => ReportsInv
<1> SUFFICES ASSUME Init
             PROVE  ReportsInv
  OBVIOUS
<1>1. log = [i \in Issuers |-> <<NewIssuer>>]
  BY DEF Init
<1>2. \A i \in Issuers : Len(log[i]) = 1 /\ log[i][1] = NewIssuer
  BY <1>1
<1>3. ReadinessIsJustified /\ ConditionsComeInOrder
  BY <1>2 DEF ReadinessIsJustified, ConditionsComeInOrder, Justified, NewIssuer
<1>4. \A n \in Managers : CallReports(n)
  BY DEF Init, CallReports, Idle
<1>5. QED
  BY <1>3, <1>4 DEF ReportsInv

LEMMA ReportsInvariance == Spec => []ReportsInv
<1>1. QED
  BY InitReports, ReportsStay, IssuerInvariance, PTL DEF Spec

\* Reconcile reads the issuer and its secret from two caches, each as old as it may
\* be, and stores its findings after a conflict check of the issuer alone: what is
\* reported was nevertheless true of the secret once, for every number of managers.
THEOREM ReadinessJustified == Spec => []ReadinessIsJustified
<1>1. ReportsInv => ReadinessIsJustified
  BY DEF ReportsInv
<1>2. QED
  BY <1>1, ReportsInvariance, PTL

\* A manager whose cache still holds the issuer without a condition initialises it
\* to Unknown, and may crash or be answered late at any step; the resource version
\* that its status update carries keeps it from going back on what was reported.
THEOREM ConditionsInOrder == Spec => []ConditionsComeInOrder
<1>1. ReportsInv => ConditionsComeInOrder
  BY DEF ReportsInv
<1>2. QED
  BY <1>1, ReportsInvariance, PTL

=============================================================================
