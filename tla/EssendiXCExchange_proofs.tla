----------------------- MODULE EssendiXCExchange_proofs -----------------------
(***************************************************************************)
(* Theorems about the exchange with essendi XC: where calls go, and that the  *)
(* scan over the messages of all conditions finds the one task of the         *)
(* request, for any addresses, chains and numbers of tasks and edits, and     *)
(* however far the cache lags.                                                *)
(***************************************************************************)
EXTENDS EssendiXCExchange, SequenceTheorems, WellFoundedInduction, TLAPS

\* A URL that an issuer's settings account for.
Named(url, specs) ==
    \/ url.address \in {s.address : s \in specs}
    \/ url.address = Backend /\ \E s \in specs : ~s.ignoreHost

\* Only the Ready condition says Issued or Failed or carries a URL: that of a task
\* in progress, or of the certificate of a task that was issued.
ConditionGood(c, ts, specs) ==
    /\ c.reason \in {"Issued", "Failed"} => c.type = "Ready" /\ c.text = "other"
    /\ c.text # "other" =>
          /\ c.type = "Ready"
          /\ Named(c.url, specs)
          /\ c.url.resource.task \in 1 .. Len(ts)
          /\ c.url.resource.of = IF c.text = "signed" THEN "certificate" ELSE "task"
    /\ c.text = "signed" => ts[c.url.resource.task] = "ISSUED"

ConditionsGood(st, ts, specs) ==
    \A i \in DOMAIN st.conditions : ConditionGood(st.conditions[i], ts, specs)

StatusGood(st, ts, specs) == StatusOK(st) /\ ConditionsGood(st, ts, specs)

\* The Ready condition, and what the scans over all conditions make of it.
IsReadyAt(st, i) == i \in DOMAIN st.conditions /\ st.conditions[i].type = "Ready"

\* A certificate is stored with the condition that says so, came from a task that
\* was issued, and brought the authority that is stored with it.
CertificateGood(st, ts) ==
    LET task == st.certificate.task IN
    /\ task # 0 <=> HasReason(st, "Issued")
    /\ task # 0 => /\ task \in 1 .. Len(ts) /\ ts[task] = "ISSUED"
                   /\ st.ca = ExtractCA(st.certificate.bundle)
    /\ task = 0 => st.ca = 0

\* Status w may follow status st: one step in the life of the request, or none.
Follows(st, w, ts) ==
    LET task == RecordedIn(st) IN
    \/ /\ StageIn(w) = StageIn(st) /\ RecordedIn(w) = task
       /\ w.certificate.task = st.certificate.task
    \/ /\ StageIn(st) = "undecided" /\ StageIn(w) = "ordered"
       /\ RecordedIn(w) \in 1 .. Len(ts) /\ w.certificate.task = 0
    \/ /\ StageIn(st) = "ordered" /\ StageIn(w) = "signed" /\ RecordedIn(w) = task
       /\ task \in 1 .. Len(ts) /\ ts[task] = "ISSUED" /\ w.certificate.task = 0
    \/ /\ StageIn(st) = "signed" /\ StageIn(w) = "issued" /\ RecordedIn(w) = 0
       /\ w.certificate.task = task
    \/ /\ StageIn(st) = "ordered" /\ StageIn(w) = "failed" /\ RecordedIn(w) = 0
       /\ task \in 1 .. Len(ts) /\ ts[task] \in RejectedStates /\ w.certificate.task = 0

Statuses == [conditions : Seq(Condition), ca : Nat,
             certificate : [task : 0 .. MaxTasks, bundle : Bundles \cup {<<>>}]]

Calls == [pc : {"idle", "http", "update"}, url : URL, copy : Statuses, conflict : BOOLEAN,
          spec : Specs \cup {NoCall.spec}]

\* The versions the cache has yet to leave are as good as the stored one.
VersionsGood(versions, ts, specs) ==
    /\ versions \in Seq(Statuses)
    /\ \A i \in DOMAIN versions :
          StatusGood(versions[i], ts, specs) /\ CertificateGood(versions[i], ts)

\* A call waits for an answer about what its copy records.  The copy may be older than
\* the stored status; if it is not, the call will write what may follow that.
CallGood(k, st, ts, specs) ==
    LET about == k.url.resource IN
    /\ k \in Calls
    /\ StatusGood(k.copy, ts, specs) /\ CertificateGood(k.copy, ts)
    /\ k.pc = "http" =>
          /\ k.spec \in specs
          /\ ~DecidedIn(k.copy)
          /\ ~k.conflict => k.copy = st
          /\ Named(k.url, specs)
          /\ about.of = "request" => StageIn(k.copy) = "undecided"
          /\ about.of = "task" => StageIn(k.copy) = "ordered"
          /\ about.of = "certificate" => StageIn(k.copy) = "signed"
          /\ about.of \in {"task", "certificate"} =>
                about.task \in 1 .. Len(ts) /\ about.task = RecordedIn(k.copy)
          /\ about.of = "certificate" => ts[about.task] = "ISSUED"
    /\ k.pc = "update" /\ ~k.conflict => Follows(st, k.copy, ts)

TasksGood(ts) == ts \in Seq(TaskStates) /\ Len(ts) <= MaxTasks

\* The inductive invariant.
ExchangeInv ==
    /\ settings \subseteq Specs /\ issuer \in settings
    /\ TasksGood(tasks)
    /\ StatusGood(status, tasks, settings) /\ CertificateGood(status, tasks)
    /\ VersionsGood(behind, tasks, settings)
    /\ CallGood(call, status, tasks, settings)

\* Tasks are added, and a task that has ended stays as it is.
Advances(ts, tt) ==
    /\ Len(ts) \in Nat /\ Len(tt) \in Nat /\ Len(ts) <= Len(tt)
    /\ \A i \in 1 .. Len(ts) : ts[i] \notin {"PROCESSING", "APPROVED"} => tt[i] = ts[i]

-----------------------------------------------------------------------------
(* The scans.                                                                *)

LEMMA ConditionsTyped ==
    ASSUME NEW st, StatusOK(st)
    PROVE  /\ st.conditions \in Seq(Condition) /\ Len(st.conditions) \in Nat
           /\ DOMAIN st.conditions = 1 .. Len(st.conditions)
           /\ \A i \in DOMAIN st.conditions : st.conditions[i] \in Condition
  BY DEF StatusOK

LEMMA ScanFinds ==
    ASSUME NEW st, NEW ts, NEW specs, StatusGood(st, ts, specs), NEW i, IsReadyAt(st, i),
           NEW texts, "other" \notin texts
    PROVE  FirstWith(st.conditions, texts) = IF st.conditions[i].text \in texts THEN i ELSE 0
<1> DEFINE hits == {j \in DOMAIN st.conditions : st.conditions[j].text \in texts}
<1>1. \A j \in hits : j = i
  BY DEF StatusGood, StatusOK, ConditionsGood, ConditionGood, IsReadyAt
<1>2. CASE st.conditions[i].text \in texts
  <2>1. hits = {i} /\ i \in Nat
    BY <1>1, <1>2, ConditionsTyped DEF IsReadyAt, StatusGood
  <2>2. Min(hits) = i
    BY <2>1 DEF Min
  <2>3. QED
    BY <1>2, <2>1, <2>2 DEF FirstWith
<1>3. CASE st.conditions[i].text \notin texts
  <2>1. hits = {}
    BY <1>1, <1>3
  <2>2. QED
    BY <1>3, <2>1 DEF FirstWith
<1>4. QED
  BY <1>2, <1>3

LEMMA ScanFindsNothing ==
    ASSUME NEW st, NEW ts, NEW specs, StatusGood(st, ts, specs), ~HasType(st, "Ready"),
           NEW texts, "other" \notin texts
    PROVE  FirstWith(st.conditions, texts) = 0
<1>1. {j \in DOMAIN st.conditions : st.conditions[j].text \in texts} = {}
  BY DEF StatusGood, ConditionsGood, ConditionGood, HasType
<1>2. QED
  BY <1>1 DEF FirstWith

\* What the status records of the request's task, from its Ready condition alone.
LEMMA ReadyTells ==
    ASSUME NEW st, NEW ts, NEW specs, StatusGood(st, ts, specs), NEW i, IsReadyAt(st, i)
    PROVE  LET c == st.conditions[i] IN
           /\ c \in Condition /\ ConditionGood(c, ts, specs)
           /\ GetSignedCondition(st.conditions) = IF c.text = "signed" THEN i ELSE 0
           /\ GetSubmittedCondition(st.conditions) =
                IF c.text \in {"submitted", "processing", "approved"} THEN i ELSE 0
           /\ DecidedIn(st) <=> c.reason \in {"Issued", "Failed"}
           /\ HasReason(st, "Issued") <=> c.reason = "Issued"
           /\ RecordedIn(st) = IF c.text = "other" THEN 0 ELSE c.url.resource.task
           /\ i \in Nat \ {0}
<1> DEFINE c == st.conditions[i]
<1>1. c \in Condition /\ i \in Nat \ {0} /\ ConditionGood(c, ts, specs)
  BY ConditionsTyped DEF IsReadyAt, StatusGood, ConditionsGood
<1>2. GetSignedCondition(st.conditions) = IF c.text = "signed" THEN i ELSE 0
  BY ScanFinds DEF GetSignedCondition
<1>3. GetSubmittedCondition(st.conditions) =
        IF c.text \in {"submitted", "processing", "approved"} THEN i ELSE 0
  BY ScanFinds DEF GetSubmittedCondition
<1>4. \A r \in {"Issued", "Failed"} : HasReason(st, r) <=> c.reason = r
  BY DEF HasReason, IsReadyAt, StatusGood, StatusOK, ConditionsGood, ConditionGood
<1>5. RecordedIn(st) = IF c.text = "other" THEN 0 ELSE c.url.resource.task
  BY <1>1, <1>2, <1>3 DEF RecordedIn, Condition
<1>6. QED
  BY <1>1, <1>2, <1>3, <1>4, <1>5 DEF DecidedIn

LEMMA NoReadyTells ==
    ASSUME NEW st, NEW ts, NEW specs, StatusGood(st, ts, specs), ~HasType(st, "Ready")
    PROVE  /\ GetSignedCondition(st.conditions) = 0
           /\ GetSubmittedCondition(st.conditions) = 0
           /\ RecordedIn(st) = 0 /\ ~DecidedIn(st) /\ ~HasReason(st, "Issued")
<1>1. GetSignedCondition(st.conditions) = 0 /\ GetSubmittedCondition(st.conditions) = 0
  BY ScanFindsNothing DEF GetSignedCondition, GetSubmittedCondition
<1>2. ~HasReason(st, "Issued") /\ ~HasReason(st, "Failed")
  BY DEF HasReason, HasType, StatusGood, ConditionsGood, ConditionGood
<1>3. QED
  BY <1>1, <1>2 DEF RecordedIn, DecidedIn

-----------------------------------------------------------------------------
(* Writing a condition.                                                      *)

\* The report is in the Ready condition afterwards, and nothing else has changed.
LEMMA ReportReplaces ==
    ASSUME NEW st, NEW ts, NEW specs, StatusGood(st, ts, specs),
           NEW new \in Condition, new.type = "Ready", ConditionGood(new, ts, specs)
    PROVE  LET w == Report(st, new.reason, new.text, new.url) IN
           /\ StatusGood(w, ts, specs)
           /\ \E i : IsReadyAt(w, i) /\ w.conditions[i] = new
           /\ w.certificate = st.certificate /\ w.ca = st.ca
<1> DEFINE old == {i \in DOMAIN st.conditions : st.conditions[i].type = "Ready"}
           conds == IF old = {} THEN Append(st.conditions, new)
                    ELSE [st.conditions EXCEPT ![Min(old)] = new]
           w == Report(st, new.reason, new.text, new.url)
<1>1. new = [type |-> "Ready", reason |-> new.reason, text |-> new.text, url |-> new.url]
  BY DEF Condition
<1>2. /\ st \in [conditions : Seq(Condition), ca : Nat,
                 certificate : [task : 0 .. MaxTasks, bundle : Bundles \cup {<<>>}]]
      /\ st.conditions \in Seq(Condition) /\ Len(st.conditions) \in Nat
      /\ DOMAIN st.conditions = 1 .. Len(st.conditions)
  BY DEF StatusGood, StatusOK
<1>3. w = [st EXCEPT !.conditions = conds]
  BY <1>1, Zenon DEF Report
<1>4. /\ conds \in Seq(Condition) /\ DOMAIN conds = 1 .. Len(conds)
      /\ \E i \in DOMAIN conds :
            /\ conds[i] = new
            /\ \A j \in DOMAIN conds \ {i} :
                  /\ j \in DOMAIN st.conditions /\ conds[j] = st.conditions[j]
                  /\ conds[j].type # "Ready"
  <2>1. CASE old = {}
    <3>1. conds = Append(st.conditions, new)
      BY <2>1
    <3>2. /\ conds \in Seq(Condition) /\ Len(conds) = Len(st.conditions) + 1
          /\ conds[Len(st.conditions) + 1] = new
          /\ \A j \in 1 .. Len(st.conditions) : conds[j] = st.conditions[j]
          /\ DOMAIN conds = 1 .. Len(st.conditions) + 1
      BY <1>2, <3>1
    <3>3. \A j \in DOMAIN st.conditions : st.conditions[j].type # "Ready"
      BY <2>1
    <3> HIDE DEF conds, old
    <3>4. Len(st.conditions) + 1 \in DOMAIN conds
      BY <1>2, <3>2
    <3>5. ASSUME NEW j \in DOMAIN conds \ {Len(st.conditions) + 1}
          PROVE  /\ j \in DOMAIN st.conditions /\ conds[j] = st.conditions[j]
                 /\ conds[j].type # "Ready"
      BY <1>2, <3>2, <3>3
    <3>6. QED
      BY <3>2, <3>4, <3>5
  <2>2. CASE old # {}
    <3>1. PICK i \in DOMAIN st.conditions : st.conditions[i].type = "Ready"
      BY <2>2
    <3>2. \A j \in DOMAIN st.conditions : st.conditions[j].type = "Ready" => j = i
      BY <3>1 DEF StatusGood, StatusOK
    <3>3. old = {i} /\ i \in Nat
      BY <1>2, <3>1, <3>2
    <3>4. Min(old) = i
      BY <3>3 DEF Min
    <3>5. conds = [st.conditions EXCEPT ![i] = new]
      BY <2>2, <3>4
    <3>6. /\ conds \in Seq(Condition) /\ DOMAIN conds = 1 .. Len(conds)
          /\ DOMAIN conds = DOMAIN st.conditions
          /\ conds[i] = new /\ \A j \in DOMAIN conds \ {i} : conds[j] = st.conditions[j]
      <4> HIDE DEF conds, old
      <4>1. DOMAIN conds = DOMAIN st.conditions
        BY <3>5
      <4>2. conds \in Seq(Condition) /\ Len(conds) = Len(st.conditions)
        BY <1>2, <3>1, <3>5, ExceptSeq
      <4>3. conds[i] = new /\ \A j \in DOMAIN conds \ {i} : conds[j] = st.conditions[j]
        BY <3>1, <3>5, <4>1
      <4>4. QED
        BY <1>2, <4>1, <4>2, <4>3
    <3> HIDE DEF conds, old
    <3>7. QED
      BY <3>1, <3>2, <3>6
  <2>3. QED
    BY <2>1, <2>2
<1> HIDE DEF conds, old
<1>5. /\ w.conditions = conds /\ w.certificate = st.certificate /\ w.ca = st.ca
      /\ w \in [conditions : Seq(Condition), ca : Nat,
                certificate : [task : 0 .. MaxTasks, bundle : Bundles \cup {<<>>}]]
  BY <1>2, <1>3, <1>4
<1> HIDE DEF w
<1>6. PICK i \in DOMAIN conds :
        /\ conds[i] = new
        /\ \A j \in DOMAIN conds \ {i} :
              /\ j \in DOMAIN st.conditions /\ conds[j] = st.conditions[j]
              /\ conds[j].type # "Ready"
  BY <1>4
<1>7. StatusOK(w)
  <2>1. ASSUME NEW j \in DOMAIN conds, NEW k \in DOMAIN conds, conds[j].type = conds[k].type
        PROVE  j = k
    <3>1. CASE j = i \/ k = i
      BY <1>6, <2>1, <3>1
    <3>2. CASE j # i /\ k # i
      BY <1>6, <2>1, <3>2 DEF StatusGood, StatusOK
    <3>3. QED
      BY <3>1, <3>2
  <2>2. QED
    BY <1>5, <2>1 DEF StatusOK
<1>8. ConditionsGood(w, ts, specs)
  BY <1>5, <1>6 DEF ConditionsGood, StatusGood
<1>9. IsReadyAt(w, i) /\ w.conditions[i] = new
  BY <1>5, <1>6 DEF IsReadyAt
<1>10. QED
  BY <1>5, <1>7, <1>8, <1>9 DEF StatusGood, w

\* What a status tells after a report.
LEMMA ReportTells ==
    ASSUME NEW st, NEW ts, NEW specs, StatusGood(st, ts, specs),
           NEW new \in Condition, new.type = "Ready", ConditionGood(new, ts, specs)
    PROVE  LET w == Report(st, new.reason, new.text, new.url) IN
           /\ StatusGood(w, ts, specs)
           /\ w.certificate = st.certificate /\ w.ca = st.ca
           /\ RecordedIn(w) = IF new.text = "other" THEN 0 ELSE new.url.resource.task
           /\ DecidedIn(w) <=> new.reason \in {"Issued", "Failed"}
           /\ HasReason(w, "Issued") <=> new.reason = "Issued"
           /\ st.certificate.task = 0 =>
                 StageIn(w) = IF new.reason \in {"Issued", "Failed"} THEN "failed"
                              ELSE IF new.text = "signed" THEN "signed"
                              ELSE IF new.text = "other" THEN "undecided" ELSE "ordered"
<1> DEFINE w == Report(st, new.reason, new.text, new.url)
<1>1. /\ StatusGood(w, ts, specs)
      /\ w.certificate = st.certificate /\ w.ca = st.ca
      /\ \E i : IsReadyAt(w, i) /\ w.conditions[i] = new
  BY ReportReplaces
<1> HIDE DEF w
<1>2. PICK i : IsReadyAt(w, i) /\ w.conditions[i] = new
  BY <1>1
<1>3. /\ GetSignedCondition(w.conditions) = IF new.text = "signed" THEN i ELSE 0
      /\ GetSubmittedCondition(w.conditions) =
           IF new.text \in {"submitted", "processing", "approved"} THEN i ELSE 0
      /\ DecidedIn(w) <=> new.reason \in {"Issued", "Failed"}
      /\ HasReason(w, "Issued") <=> new.reason = "Issued"
      /\ RecordedIn(w) = IF new.text = "other" THEN 0 ELSE new.url.resource.task
      /\ i # 0
  BY <1>1, <1>2, ReadyTells
<1>4. new.text \in {"other", "submitted", "processing", "approved", "signed"}
  BY DEF Condition
<1>5. st.certificate.task = 0 =>
        StageIn(w) = IF new.reason \in {"Issued", "Failed"} THEN "failed"
                     ELSE IF new.text = "signed" THEN "signed"
                     ELSE IF new.text = "other" THEN "undecided" ELSE "ordered"
  BY <1>1, <1>3, <1>4 DEF StageIn
<1>6. QED
  BY <1>1, <1>3, <1>5 DEF w

\* What only depends on the conditions.
LEMMA SameConditions ==
    ASSUME NEW st, NEW ts, NEW specs, StatusGood(st, ts, specs),
           NEW w \in Statuses, w.conditions = st.conditions
    PROVE  /\ StatusGood(w, ts, specs)
           /\ RecordedIn(w) = RecordedIn(st) /\ (DecidedIn(w) <=> DecidedIn(st))
           /\ HasReason(w, "Issued") <=> HasReason(st, "Issued")
  BY DEF StatusGood, StatusOK, ConditionsGood, RecordedIn, DecidedIn, HasReason, Statuses

LEMMA ApprovalTyped ==
    /\ Approval \in Condition /\ NoURL \in URL
    /\ \A ts, specs : ConditionGood(Approval, ts, specs)
<1>1. MaxTasks \in Nat
  BY ExchangeAssumption
<1>2. NoURL \in URL
  BY <1>1 DEF NoURL, At, URL, Resource
<1>3. Approval \in Condition
  BY <1>2 DEF Approval, Condition
<1>4. \A ts, specs : ConditionGood(Approval, ts, specs)
  BY DEF Approval, ConditionGood
<1>5. QED
  BY <1>2, <1>3, <1>4

\* The approver's condition changes nothing of what a status tells.
LEMMA ApprovalTells ==
    ASSUME NEW st, NEW ts, NEW specs, StatusGood(st, ts, specs), ~HasType(st, "Approved")
    PROVE  LET w == [st EXCEPT !.conditions = Append(@, Approval)] IN
           /\ StatusGood(w, ts, specs)
           /\ w.certificate = st.certificate /\ w.ca = st.ca
           /\ RecordedIn(w) = RecordedIn(st) /\ StageIn(w) = StageIn(st)
           /\ HasReason(w, "Issued") <=> HasReason(st, "Issued")
<1> DEFINE w == [st EXCEPT !.conditions = Append(@, Approval)]
           n == Len(st.conditions)
<1>1. /\ st \in Statuses /\ st.conditions \in Seq(Condition) /\ n \in Nat
      /\ DOMAIN st.conditions = 1 .. n
  BY ConditionsTyped DEF StatusGood, StatusOK, Statuses
<1>2. /\ w.conditions = Append(st.conditions, Approval)
      /\ w.certificate = st.certificate /\ w.ca = st.ca
      /\ Append(st.conditions, Approval) \in Seq(Condition) => w \in Statuses
  BY <1>1 DEF Statuses
<1> HIDE DEF w
<1>3. /\ w.conditions \in Seq(Condition) /\ DOMAIN w.conditions = 1 .. n + 1
      /\ w.conditions[n + 1] = Approval
      /\ \A j \in 1 .. n : w.conditions[j] = st.conditions[j]
  BY <1>1, <1>2, ApprovalTyped
<1>4. ASSUME NEW i \in DOMAIN w.conditions, NEW j \in DOMAIN w.conditions,
             w.conditions[i].type = w.conditions[j].type
      PROVE  i = j
  <2>1. \A k \in 1 .. n : w.conditions[k].type # w.conditions[n + 1].type
    <3>1. \A k \in 1 .. n : st.conditions[k].type # "Approved"
      BY <1>1 DEF HasType
    <3>2. w.conditions[n + 1].type = "Approved"
      BY <1>3 DEF Approval
    <3>3. QED
      BY <1>3, <3>1, <3>2
  <2>2. CASE i = n + 1 \/ j = n + 1
    <3>1. i \in 1 .. n + 1 /\ j \in 1 .. n + 1
      BY <1>3
    <3> HIDE DEF n
    <3>2. QED
      BY <1>1, <1>4, <2>1, <2>2, <3>1
  <2>3. CASE i # n + 1 /\ j # n + 1
    <3>1. i \in 1 .. n /\ j \in 1 .. n
      BY <1>1, <1>3, <2>3
    <3>2. QED
      BY <1>1, <1>3, <1>4, <3>1 DEF StatusGood, StatusOK
  <2>4. QED
    BY <2>2, <2>3
<1>5. \A i \in DOMAIN w.conditions : ConditionGood(w.conditions[i], ts, specs)
  <2>1. \A i \in 1 .. n : ConditionGood(st.conditions[i], ts, specs)
    BY <1>1 DEF StatusGood, ConditionsGood
  <2>2. QED
    BY <1>1, <1>3, <2>1, ApprovalTyped
<1>6. StatusGood(w, ts, specs)
  BY <1>2, <1>3, <1>4, <1>5 DEF StatusGood, StatusOK, ConditionsGood, Statuses
<1>7. ASSUME NEW i, IsReadyAt(st, i)
      PROVE  /\ RecordedIn(w) = RecordedIn(st) /\ StageIn(w) = StageIn(st)
             /\ HasReason(w, "Issued") <=> HasReason(st, "Issued")
  <2>1. IsReadyAt(w, i) /\ w.conditions[i] = st.conditions[i]
    BY <1>1, <1>3, <1>7 DEF IsReadyAt
  <2>2. /\ RecordedIn(w) = RecordedIn(st) /\ (DecidedIn(w) <=> DecidedIn(st))
        /\ GetSignedCondition(w.conditions) = GetSignedCondition(st.conditions)
        /\ GetSubmittedCondition(w.conditions) = GetSubmittedCondition(st.conditions)
        /\ HasReason(w, "Issued") <=> HasReason(st, "Issued")
    BY <1>6, <1>7, <2>1, ReadyTells
  <2>3. QED
    BY <1>2, <2>2 DEF StageIn
<1>8. ASSUME ~HasType(st, "Ready")
      PROVE  /\ RecordedIn(w) = RecordedIn(st) /\ StageIn(w) = StageIn(st)
             /\ HasReason(w, "Issued") <=> HasReason(st, "Issued")
  <2>1. ~HasType(w, "Ready")
    <3>1. \A k \in 1 .. n : w.conditions[k].type # "Ready"
      BY <1>1, <1>3, <1>8 DEF HasType
    <3>2. w.conditions[n + 1].type # "Ready"
      BY <1>3 DEF Approval
    <3>3. \A k \in DOMAIN w.conditions : k \in 1 .. n \/ k = n + 1
      BY <1>1, <1>3
    <3> HIDE DEF n
    <3>4. QED
      BY <3>1, <3>2, <3>3 DEF HasType
  <2>2. QED
    BY <1>2, <1>6, <1>8, <2>1, NoReadyTells DEF StageIn
<1>9. HasType(st, "Ready") => \E i : IsReadyAt(st, i)
  BY DEF HasType, IsReadyAt
<1>10. QED
  BY <1>2, <1>6, <1>7, <1>8, <1>9 DEF w

-----------------------------------------------------------------------------
(* What stays so while tasks go on and the issuer is edited.                 *)

LEMMA GoodAdvances ==
    ASSUME NEW ts, NEW tt, Advances(ts, tt), NEW specs, NEW more, specs \subseteq more,
           NEW st
    PROVE  /\ StatusGood(st, ts, specs) => StatusGood(st, tt, more)
           /\ CertificateGood(st, ts) => CertificateGood(st, tt)
           /\ \A vs : VersionsGood(vs, ts, specs) => VersionsGood(vs, tt, more)
           /\ \A w : Follows(st, w, ts) => Follows(st, w, tt)
           /\ \A k : CallGood(k, st, ts, specs) => CallGood(k, st, tt, more)
<1>1. \A url : Named(url, specs) => Named(url, more)
  BY DEF Named
<1>2. \A i \in 1 .. Len(ts) : /\ i \in 1 .. Len(tt)
                              /\ ts[i] \notin {"PROCESSING", "APPROVED"} => tt[i] = ts[i]
  BY DEF Advances
<1>3. \A c : ConditionGood(c, ts, specs) => ConditionGood(c, tt, more)
  BY <1>1, <1>2 DEF ConditionGood
<1>4. \A v : StatusGood(v, ts, specs) => StatusGood(v, tt, more)
  BY <1>3 DEF StatusGood, ConditionsGood
<1>5. \A v : CertificateGood(v, ts) => CertificateGood(v, tt)
  BY <1>2 DEF CertificateGood
<1>6. \A w : Follows(st, w, ts) => Follows(st, w, tt)
  <2>1. \A s \in RejectedStates \cup {"ISSUED"} : s \notin {"PROCESSING", "APPROVED"}
    BY ExchangeAssumption
  <2>2. QED
    BY <1>2, <2>1 DEF Follows
<1>7. ASSUME NEW k, CallGood(k, st, ts, specs) PROVE CallGood(k, st, tt, more)
  <2>1. /\ k \in Calls /\ StatusGood(k.copy, tt, more) /\ CertificateGood(k.copy, tt)
        /\ k.pc = "http" => k.spec \in more
        /\ k.pc = "update" /\ ~k.conflict => Follows(st, k.copy, tt)
    BY <1>4, <1>5, <1>6, <1>7 DEF CallGood
  <2>2. ASSUME k.pc = "http"
        PROVE  /\ Named(k.url, more)
               /\ k.url.resource.of \in {"task", "certificate"} =>
                     k.url.resource.task \in 1 .. Len(tt)
               /\ k.url.resource.of = "certificate" => tt[k.url.resource.task] = "ISSUED"
    BY <1>1, <1>2, <1>7, <2>2 DEF CallGood
  <2>3. QED
    BY <1>7, <2>1, <2>2 DEF CallGood
<1>8. \A vs : VersionsGood(vs, ts, specs) => VersionsGood(vs, tt, more)
  BY <1>4, <1>5 DEF VersionsGood
<1>9. QED
  BY <1>4, <1>5, <1>6, <1>7, <1>8

\* An action that leaves the request and the call alone.
LEMMA OthersStep ==
    ASSUME ExchangeInv, UNCHANGED <<status, behind, call>>,
           TasksGood(tasks'), Advances(tasks, tasks'),
           settings \subseteq settings', settings' \subseteq Specs, issuer' \in settings'
    PROVE  ExchangeInv'
<1>1. /\ StatusGood(status, tasks', settings') /\ CertificateGood(status, tasks')
      /\ VersionsGood(behind, tasks', settings')
      /\ CallGood(call, status, tasks', settings')
  BY GoodAdvances DEF ExchangeInv
<1>2. QED
  BY <1>1 DEF ExchangeInv, TasksGood

\* The least of the numbers in a set is in the set, and the others are greater.
LEMMA MinIsLeast ==
    ASSUME NEW S, S \subseteq Nat, S # {}
    PROVE  Min(S) \in S /\ \A y \in S : Min(S) <= y
<1> DEFINE R == {p \in Nat \X Nat : p[1] < p[2]}
<1>1. IsWellFoundedOn(R, Nat)
  BY NatLessThanWellFounded DEF OpToRel
<1> HIDE DEF R
<1>2. PICK x \in S : \A y \in S : ~(<<y, x>> \in R)
  BY <1>1, WFMin
<1>3. \A y \in S : ~(y < x)
  BY <1>2 DEF R
<1>4. \A y \in S : x <= y
  BY <1>3
<1>5. QED
  BY <1>4 DEF Min

\* The authority that is taken from a chain is the first root in it, if there is one.
LEMMA AuthorityIsARoot ==
    ASSUME NEW bundle \in Bundles \cup {<<>>}
    PROVE  /\ ExtractCA(bundle) \in Nat
           /\ ExtractCA(bundle) = 0 <=> \A i \in DOMAIN bundle : bundle[i] # "root"
           /\ ExtractCA(bundle) # 0 =>
                /\ bundle[ExtractCA(bundle)] = "root"
                /\ \A i \in 1 .. ExtractCA(bundle) - 1 : bundle[i] # "root"
<1> DEFINE roots == {i \in DOMAIN bundle : bundle[i] = "root"}
<1>1. bundle \in Seq(Blocks)
  <2>1. <<>> \in Seq(Blocks) /\ Bundles \subseteq Seq(Blocks)
    BY ExchangeAssumption
  <2>2. QED
    BY <2>1
<1>2. /\ \A i \in roots : i \in Nat /\ i # 0
      /\ \A i \in roots : \A j \in 1 .. i - 1 : j \in DOMAIN bundle
  BY <1>1
<1>3. CASE roots = {}
  BY <1>3 DEF ExtractCA
<1>4. CASE roots # {}
  <2>1. ExtractCA(bundle) = Min(roots)
    BY <1>4 DEF ExtractCA
  <2>2. Min(roots) \in roots /\ \A y \in roots : Min(roots) <= y
    <3> HIDE DEF roots
    <3>1. QED
      BY <1>2, <1>4, MinIsLeast
  <2>3. \A j \in 1 .. Min(roots) - 1 : j \in DOMAIN bundle /\ j \notin roots
    <3> HIDE DEF roots
    <3>1. QED
      BY <1>2, <2>2
  <2>4. QED
    BY <1>2, <2>1, <2>2, <2>3
<1>5. QED
  BY <1>3, <1>4

\* A URL that essendi XC hands out, as the issuer of the call makes it.
LEMMA RewriteNames ==
    ASSUME settings \subseteq Specs, call.spec \in settings
    PROVE  \A of \in {"task", "certificate"}, t \in 0 .. MaxTasks :
             LET url == Rewrite(At(Backend, of, t), call.spec) IN
             /\ url \in URL /\ Named(url, settings)
             /\ url.resource = [of |-> of, task |-> t]
<1> SUFFICES ASSUME NEW of \in {"task", "certificate"}, NEW t \in 0 .. MaxTasks
             PROVE  LET url == Rewrite(At(Backend, of, t), call.spec) IN
                    /\ url \in URL /\ Named(url, settings)
                    /\ url.resource = [of |-> of, task |-> t]
  OBVIOUS
<1> DEFINE address == IF call.spec.ignoreHost THEN call.spec.address ELSE Backend
<1>1. call.spec.address \in Addresses /\ call.spec.ignoreHost \in BOOLEAN
  BY DEF Specs
<1>2. Rewrite(At(Backend, of, t), call.spec) = At(address, of, t)
  BY DEF Rewrite, At
<1>3. At(address, of, t) \in URL
  BY <1>1 DEF At, URL, Resource
<1>4. Named(At(address, of, t), settings)
  BY <1>1 DEF At, Named
<1>5. QED
  BY <1>2, <1>3, <1>4 DEF At

LEMMA NewStatusGood ==
    ASSUME NEW ts, NEW specs
    PROVE  /\ NewStatus \in Statuses /\ StatusGood(NewStatus, ts, specs)
           /\ CertificateGood(NewStatus, ts) /\ ~HasType(NewStatus, "Approved")
<1>1. NewStatus \in Statuses
  BY ExchangeAssumption DEF NewStatus, Statuses
<1>2. DOMAIN NewStatus.conditions = {}
  BY DEF NewStatus
<1>3. QED
  BY <1>1, <1>2 DEF StatusGood, StatusOK, ConditionsGood, CertificateGood, HasReason, HasType,
                    NewStatus, Statuses

LEMMA NoCallGood ==
    ASSUME NEW st, NEW ts, NEW specs
    PROVE  CallGood(NoCall, st, ts, specs)
<1>1. NoCall \in Calls
  BY NewStatusGood, ApprovalTyped DEF NoCall, Calls
<1>2. NoCall.copy = NewStatus /\ NoCall.pc = "idle"
  BY DEF NoCall
<1>3. QED
  BY <1>1, <1>2, NewStatusGood DEF CallGood

LEMMA CachedGood ==
    ASSUME ExchangeInv
    PROVE  /\ StatusGood(Cached, tasks, settings) /\ CertificateGood(Cached, tasks)
           /\ Cached \in Statuses
           /\ behind = <<>> => Cached = status
<1>1. behind # <<>> => Head(behind) = behind[1] /\ 1 \in DOMAIN behind
  BY DEF ExchangeInv, VersionsGood
<1>2. StatusGood(Cached, tasks, settings) /\ CertificateGood(Cached, tasks)
  BY <1>1 DEF ExchangeInv, VersionsGood, Cached
<1>3. QED
  BY <1>2 DEF Cached, StatusGood, StatusOK, Statuses

\* Whatever is stored, the cache then has good versions to go through.
LEMMA StoresGood ==
    ASSUME ExchangeInv, NEW new, Stores(new)
    PROVE  VersionsGood(behind', tasks, settings)
<1>1. behind \in Seq(Statuses) /\ status \in Statuses
  BY DEF ExchangeInv, VersionsGood, StatusGood, StatusOK, Statuses
<1>2. /\ Append(behind, status) \in Seq(Statuses)
      /\ \A i \in DOMAIN Append(behind, status) :
            \/ i \in DOMAIN behind /\ Append(behind, status)[i] = behind[i]
            \/ Append(behind, status)[i] = status
  BY <1>1
<1>3. VersionsGood(Append(behind, status), tasks, settings)
  BY <1>2 DEF ExchangeInv, VersionsGood
<1>4. QED
  BY <1>3 DEF Stores, ExchangeInv

-----------------------------------------------------------------------------
(* One lemma for each action.                                                *)

LEMMA InitGood == Init => ExchangeInv
<1> SUFFICES ASSUME Init PROVE ExchangeInv
  OBVIOUS
<1>1. tasks = <<>> /\ TasksGood(tasks)
  BY ExchangeAssumption DEF Init, TasksGood
<1>2. settings \subseteq Specs /\ issuer \in settings
  BY DEF Init
<1>3. StatusGood(status, tasks, settings) /\ CertificateGood(status, tasks)
  <2> DEFINE w == [NewStatus EXCEPT !.conditions = <<Approval>>]
             v == [NewStatus EXCEPT !.conditions = Append(@, Approval)]
  <2>1. Append(<<>>, Approval) = <<Approval>>
    OBVIOUS
  <2>2. v = w
    BY <2>1 DEF NewStatus
  <2>3. /\ StatusGood(v, tasks, settings)
        /\ v.certificate = NewStatus.certificate /\ v.ca = NewStatus.ca
        /\ HasReason(v, "Issued") <=> HasReason(NewStatus, "Issued")
    BY ApprovalTells, NewStatusGood
  <2>4. CertificateGood(v, tasks)
    <3> HIDE DEF v
    <3>1. QED
      BY <2>3, NewStatusGood DEF CertificateGood
  <2>5. status = NewStatus \/ status = v
    BY <2>2 DEF Init
  <2>6. QED
    BY <2>3, <2>4, <2>5, NewStatusGood
<1>4. VersionsGood(behind, tasks, settings)
  BY DEF Init, VersionsGood
<1>5. QED
  BY <1>1, <1>2, <1>3, <1>4, NoCallGood DEF ExchangeInv, Init

LEMMA ApproveGood == ExchangeInv /\ Approve => ExchangeInv'
<1> SUFFICES ASSUME ExchangeInv, Approve PROVE ExchangeInv'
  OBVIOUS
<1>1. /\ StatusGood(status', tasks, settings)
      /\ status'.certificate = status.certificate /\ status'.ca = status.ca
      /\ StageIn(status') = StageIn(status)
      /\ HasReason(status', "Issued") <=> HasReason(status, "Issued")
  BY ApprovalTells DEF Approve, Stores, ExchangeInv
<1>2. CertificateGood(status', tasks)
  BY <1>1 DEF CertificateGood, ExchangeInv
<1>3. CallGood(call', status', tasks, settings)
  <2>1. /\ call' \in Calls /\ call'.conflict = (call.pc # "idle")
        /\ call'.pc = call.pc /\ call'.copy = call.copy /\ call'.url = call.url
        /\ call'.spec = call.spec
    BY DEF ExchangeInv, CallGood, Approve, Calls
  <2>2. QED
    BY <1>1, <2>1 DEF ExchangeInv, CallGood
<1>4. VersionsGood(behind', tasks, settings) /\ UNCHANGED <<tasks, issuer, settings>>
  BY StoresGood DEF Approve
<1>5. QED
  BY <1>1, <1>2, <1>3, <1>4 DEF ExchangeInv

LEMMA EditIssuerGood == ExchangeInv /\ EditIssuer => ExchangeInv'
<1> SUFFICES ASSUME ExchangeInv, EditIssuer PROVE ExchangeInv'
  OBVIOUS
<1>1. Advances(tasks, tasks') /\ TasksGood(tasks')
  BY DEF EditIssuer, ExchangeInv, TasksGood, Advances
<1>2. /\ UNCHANGED <<status, behind, call>> /\ settings \subseteq settings'
      /\ settings' \subseteq Specs /\ issuer' \in settings'
  BY DEF EditIssuer, ExchangeInv
<1>3. QED
  BY <1>1, <1>2, OthersStep

LEMMA ProgressGood ==
    ASSUME NEW t \in DOMAIN tasks, ExchangeInv, Progress(t)
    PROVE  ExchangeInv' /\ Advances(tasks, tasks')
<1>1. /\ tasks[t] \in {"PROCESSING", "APPROVED"}
      /\ UNCHANGED <<status, behind, call, issuer, settings>>
      /\ \E s \in TaskStates : tasks' = [tasks EXCEPT ![t] = s]
  BY DEF Progress
<1>2. PICK s \in TaskStates : tasks' = [tasks EXCEPT ![t] = s]
  BY <1>1
<1>3. tasks \in Seq(TaskStates) /\ DOMAIN tasks = 1 .. Len(tasks) /\ Len(tasks) \in Nat
  BY DEF ExchangeInv, TasksGood
<1>4. /\ tasks' \in Seq(TaskStates) /\ Len(tasks') = Len(tasks)
      /\ \A i \in 1 .. Len(tasks) \ {t} : tasks'[i] = tasks[i]
  BY <1>2, <1>3, ExceptSeq
<1>5. TasksGood(tasks') /\ Advances(tasks, tasks')
  BY <1>1, <1>3, <1>4 DEF TasksGood, ExchangeInv, Advances
<1>6. ExchangeInv'
  BY <1>1, <1>5, OthersStep DEF ExchangeInv
<1>7. QED
  BY <1>5, <1>6

LEMMA DeliverGood == ExchangeInv /\ Deliver => ExchangeInv'
<1> SUFFICES ASSUME ExchangeInv, Deliver PROVE ExchangeInv'
  OBVIOUS
<1>1. /\ behind # <<>> /\ behind' = Tail(behind)
      /\ UNCHANGED <<status, call, tasks, issuer, settings>>
  BY DEF Deliver
<1>2. /\ Tail(behind) \in Seq(Statuses)
      /\ \A i \in DOMAIN Tail(behind) :
            i + 1 \in DOMAIN behind /\ Tail(behind)[i] = behind[i + 1]
  BY <1>1 DEF ExchangeInv, VersionsGood
<1>3. VersionsGood(Tail(behind), tasks, settings)
  BY <1>2 DEF ExchangeInv, VersionsGood
<1>4. QED
  BY <1>1, <1>3 DEF ExchangeInv

LEMMA InitialiseGood == ExchangeInv /\ Initialise => ExchangeInv'
<1> SUFFICES ASSUME ExchangeInv, Initialise PROVE ExchangeInv'
  OBVIOUS
<1> DEFINE new == [type |-> "Ready", reason |-> "Pending", text |-> "other", url |-> NoURL]
           st == Cached
           w == Report(st, "Pending", "other", NoURL)
<1>1. /\ new \in Condition /\ ConditionGood(new, tasks, settings) /\ new.type = "Ready"
      /\ new.reason = "Pending" /\ new.text = "other" /\ new.url = NoURL
  BY ApprovalTyped DEF Condition, ConditionGood
<1>2. /\ StatusGood(st, tasks, settings) /\ CertificateGood(st, tasks)
      /\ ~HasType(st, "Ready") /\ (behind = <<>> => st = status)
  BY CachedGood DEF Initialise
<1> HIDE DEF new, st
<1>3. /\ GetSignedCondition(st.conditions) = 0 /\ GetSubmittedCondition(st.conditions) = 0
      /\ RecordedIn(st) = 0 /\ ~DecidedIn(st) /\ ~HasReason(st, "Issued")
  BY <1>2, NoReadyTells
<1>4. st.certificate.task = 0 /\ st.ca = 0 /\ StageIn(st) = "undecided"
  BY <1>2, <1>3 DEF CertificateGood, StageIn
<1>5. /\ StatusGood(w, tasks, settings)
      /\ w.certificate = st.certificate /\ w.ca = st.ca
      /\ RecordedIn(w) = 0 /\ ~HasReason(w, "Issued") /\ StageIn(w) = "undecided"
  BY <1>1, <1>2, <1>4, ReportTells
<1> HIDE DEF w
<1>6. CertificateGood(w, tasks) /\ Follows(st, w, tasks)
  BY <1>3, <1>4, <1>5 DEF CertificateGood, Follows
<1>7. /\ call' = [pc |-> "update", url |-> NoURL, copy |-> w, conflict |-> behind # <<>>,
                  spec |-> NoCall.spec]
      /\ UNCHANGED <<status, behind, tasks, issuer, settings>>
  BY DEF Initialise, Reads, w, st
<1>8. call' \in Calls
  <2>1. w \in Statuses /\ NoURL \in URL
    BY <1>5, ApprovalTyped DEF StatusGood, StatusOK, Statuses
  <2>2. QED
    BY <1>7, <2>1 DEF Calls
<1>9. CallGood(call', status, tasks, settings)
  BY <1>2, <1>5, <1>6, <1>7, <1>8 DEF CallGood
<1>10. QED
  BY <1>7, <1>9 DEF ExchangeInv

LEMMA RequestTokenGood == ExchangeInv /\ RequestToken => ExchangeInv'
<1> SUFFICES ASSUME ExchangeInv, RequestToken PROVE ExchangeInv'
  OBVIOUS
<1>1. PICK spec \in settings : Reads("http", At(spec.address, "token", 0), Cached, spec)
  BY DEF RequestToken
<1> DEFINE url == At(spec.address, "token", 0)
<1>2. /\ call' = [pc |-> "http", url |-> url, copy |-> Cached, conflict |-> behind # <<>>,
                  spec |-> spec]
      /\ UNCHANGED <<status, behind, tasks, issuer, settings>> /\ ~DecidedIn(Cached)
  BY <1>1 DEF Reads, RequestToken
<1>3. spec \in Specs /\ spec.address \in Addresses
  BY DEF ExchangeInv, Specs
<1>4. url \in URL /\ Named(url, settings) /\ url.resource.of = "token"
  BY <1>3, ExchangeAssumption DEF At, URL, Resource, Named
<1>5. /\ StatusGood(Cached, tasks, settings) /\ CertificateGood(Cached, tasks)
      /\ Cached \in Statuses /\ (behind = <<>> => Cached = status)
  BY CachedGood
<1> HIDE DEF url
<1>6. call' \in Calls
  BY <1>2, <1>3, <1>4, <1>5 DEF Calls
<1>7. CallGood(call', status, tasks, settings)
  BY <1>2, <1>4, <1>5, <1>6 DEF CallGood
<1>8. QED
  BY <1>2, <1>7 DEF ExchangeInv

\* A call that has returned: what it reports may follow what it read.
LEMMA Returned ==
    ASSUME ExchangeInv, call.pc = "http", NEW w,
           UNCHANGED <<status, behind, issuer, settings>>, Returns(w),
           TasksGood(tasks'), Advances(tasks, tasks'),
           StatusGood(w, tasks', settings), CertificateGood(w, tasks'),
           Follows(call.copy, w, tasks')
    PROVE  ExchangeInv'
<1>1. /\ StatusGood(status, tasks', settings) /\ CertificateGood(status, tasks')
      /\ VersionsGood(behind, tasks', settings)
  BY GoodAdvances DEF ExchangeInv
<1>2. /\ call' \in Calls /\ call'.pc = "update" /\ call'.copy = w
      /\ call'.conflict = call.conflict /\ call'.spec = call.spec
  BY DEF Returns, ExchangeInv, CallGood, Calls, StatusGood, StatusOK, Statuses
<1>3. call.spec \in settings /\ (~call.conflict => call.copy = status)
  BY DEF ExchangeInv, CallGood
<1>4. CallGood(call', status, tasks', settings)
  BY <1>2, <1>3 DEF CallGood
<1>5. QED
  BY <1>1, <1>4 DEF ExchangeInv

\* A call that goes on has read a status without a certificate.
LEMMA CallIsUndecided ==
    ASSUME ExchangeInv, call.pc = "http"
    PROVE  /\ ~DecidedIn(call.copy) /\ ~HasReason(call.copy, "Issued")
           /\ call.copy.certificate.task = 0 /\ call.copy.ca = 0
           /\ call.spec \in settings /\ call.url \in URL
           /\ StatusGood(call.copy, tasks, settings)
           /\ Advances(tasks, tasks) /\ TasksGood(tasks)
<1>1. ~DecidedIn(call.copy) /\ ~HasReason(call.copy, "Issued")
  BY DEF ExchangeInv, CallGood, DecidedIn
<1>2. call.copy.certificate.task = 0 /\ call.copy.ca = 0
  BY <1>1 DEF ExchangeInv, CallGood, CertificateGood
<1>3. Advances(tasks, tasks)
  BY DEF ExchangeInv, TasksGood, Advances
<1>4. QED
  BY <1>1, <1>2, <1>3 DEF ExchangeInv, CallGood, Calls

LEMMA NothingReported ==
    ASSUME ExchangeInv, call.pc = "http", ReportsNothing,
           UNCHANGED <<status, behind, issuer, settings>>,
           TasksGood(tasks'), Advances(tasks, tasks')
    PROVE  ExchangeInv'
<1>1. StatusGood(call.copy, tasks', settings) /\ CertificateGood(call.copy, tasks')
  BY GoodAdvances DEF ExchangeInv, CallGood
<1>2. Follows(call.copy, call.copy, tasks')
  BY DEF Follows
<1>3. QED
  BY <1>1, <1>2, Returned DEF ReportsNothing

\* What is reported as Pending about a task keeps the request undecided.
LEMMA PendingReported ==
    ASSUME ExchangeInv, call.pc = "http", UNCHANGED <<status, behind, issuer, settings>>,
           TasksGood(tasks'), Advances(tasks, tasks'),
           NEW text \in {"submitted", "processing", "approved", "signed"},
           NEW url \in URL, Reports("Pending", text, url), Named(url, settings),
           url.resource.task \in 1 .. Len(tasks'),
           url.resource.of = IF text = "signed" THEN "certificate" ELSE "task",
           IF text = "signed"
           THEN /\ StageIn(call.copy) = "ordered" /\ RecordedIn(call.copy) = url.resource.task
                /\ tasks'[url.resource.task] = "ISSUED"
           ELSE \/ StageIn(call.copy) = "undecided"
                \/ StageIn(call.copy) = "ordered" /\ RecordedIn(call.copy) = url.resource.task
    PROVE  ExchangeInv'
<1> DEFINE new == [type |-> "Ready", reason |-> "Pending", text |-> text, url |-> url]
           w == Report(call.copy, "Pending", text, url)
<1>1. /\ new \in Condition /\ ConditionGood(new, tasks', settings)
      /\ new.reason = "Pending" /\ new.text = text /\ new.url = url /\ new.type = "Ready"
  BY DEF Condition, ConditionGood
<1> HIDE DEF new
<1>2. StatusGood(call.copy, tasks', settings) /\ call.copy.certificate.task = 0
      /\ call.copy.ca = 0
  <2>1. StatusGood(call.copy, tasks, settings) /\ call.copy.certificate.task = 0
        /\ call.copy.ca = 0
    BY CallIsUndecided
  <2>2. StatusGood(call.copy, tasks, settings) => StatusGood(call.copy, tasks', settings)
    BY GoodAdvances
  <2>3. QED
    BY <2>1, <2>2
<1>3. /\ StatusGood(w, tasks', settings)
      /\ w.certificate = call.copy.certificate /\ w.ca = call.copy.ca
      /\ RecordedIn(w) = url.resource.task /\ ~HasReason(w, "Issued")
      /\ StageIn(w) = IF text = "signed" THEN "signed" ELSE "ordered"
  BY <1>1, <1>2, ReportTells
<1> HIDE DEF w
<1>4. CertificateGood(w, tasks')
  BY <1>2, <1>3 DEF CertificateGood
<1>5. Follows(call.copy, w, tasks')
  BY <1>2, <1>3 DEF Follows
<1>6. Returns(w)
  BY DEF Reports, w
<1>7. QED
  BY <1>3, <1>4, <1>5, <1>6, Returned

LEMMA GetRefreshTokenGood == ExchangeInv /\ GetRefreshToken => ExchangeInv'
<1> SUFFICES ASSUME ExchangeInv, GetRefreshToken PROVE ExchangeInv'
  OBVIOUS
<1>1. /\ call.pc = "http" /\ call' = [call EXCEPT !.url = Destination]
      /\ UNCHANGED <<status, behind, tasks, issuer, settings>>
  BY DEF GetRefreshToken, Answer
<1>2. /\ ~DecidedIn(call.copy) /\ ~HasReason(call.copy, "Issued")
      /\ call.copy.certificate.task = 0 /\ call.copy.ca = 0 /\ call.spec \in settings
      /\ StatusGood(call.copy, tasks, settings)
  BY <1>1, CallIsUndecided
<1> DEFINE about == Destination.resource
           good == /\ Destination \in URL /\ Named(Destination, settings)
                   /\ about.of = "request" => StageIn(call.copy) = "undecided"
                   /\ about.of = "task" => StageIn(call.copy) = "ordered"
                   /\ about.of = "certificate" => StageIn(call.copy) = "signed"
                   /\ about.of \in {"task", "certificate"} =>
                        about.task \in 1 .. Len(tasks) /\ about.task = RecordedIn(call.copy)
                   /\ about.of = "certificate" => tasks[about.task] = "ISSUED"
<1>3. ASSUME GetSignedCondition(call.copy.conditions) = 0,
             GetSubmittedCondition(call.copy.conditions) = 0
      PROVE  good
  <2>1. call.spec \in Specs /\ call.spec.address \in Addresses /\ MaxTasks \in Nat
    BY <1>2, ExchangeAssumption DEF ExchangeInv, Specs
  <2>2. Destination = At(call.spec.address, "request", 0)
    BY <1>3 DEF Destination
  <2>3. StageIn(call.copy) = "undecided"
    BY <1>2, <1>3 DEF StageIn
  <2>4. /\ At(call.spec.address, "request", 0) \in URL
        /\ Named(At(call.spec.address, "request", 0), settings)
    BY <1>2, <2>1 DEF At, URL, Resource, Named
  <2>5. QED
    BY <2>2, <2>3, <2>4 DEF At
<1>4. ASSUME NEW i, IsReadyAt(call.copy, i),
             ~(/\ GetSignedCondition(call.copy.conditions) = 0
               /\ GetSubmittedCondition(call.copy.conditions) = 0)
      PROVE  good
  <2> DEFINE c == call.copy.conditions[i]
  <2>1. /\ c \in Condition /\ ConditionGood(c, tasks, settings)
        /\ GetSignedCondition(call.copy.conditions) = IF c.text = "signed" THEN i ELSE 0
        /\ GetSubmittedCondition(call.copy.conditions) =
             IF c.text \in {"submitted", "processing", "approved"} THEN i ELSE 0
        /\ RecordedIn(call.copy) = IF c.text = "other" THEN 0 ELSE c.url.resource.task
        /\ i # 0
    BY <1>2, <1>4, ReadyTells
  <2> HIDE DEF c
  <2>2. /\ c.text # "other" /\ c.url \in URL
        /\ c.text \in {"other", "submitted", "processing", "approved", "signed"}
    BY <1>4, <2>1 DEF Condition
  <2>3. Destination = c.url
    BY <2>1, <2>2 DEF Destination, c
  <2>4. StageIn(call.copy) = IF c.text = "signed" THEN "signed" ELSE "ordered"
    BY <1>2, <2>1, <2>2 DEF StageIn
  <2>5. QED
    BY <2>1, <2>2, <2>3, <2>4 DEF ConditionGood
<1>5. good
  <2>1. HasType(call.copy, "Ready") => \E i : IsReadyAt(call.copy, i)
    BY DEF HasType, IsReadyAt
  <2>2. ~HasType(call.copy, "Ready") =>
          /\ GetSignedCondition(call.copy.conditions) = 0
          /\ GetSubmittedCondition(call.copy.conditions) = 0
    BY <1>2, NoReadyTells
  <2> HIDE DEF good
  <2>3. QED
    BY <1>3, <1>4, <2>1, <2>2
<1>6. /\ call' \in Calls /\ call'.url = Destination /\ call'.pc = "http"
      /\ call'.copy = call.copy /\ call'.spec = call.spec /\ call'.conflict = call.conflict
  BY <1>1, <1>5 DEF ExchangeInv, CallGood, Calls
<1>7. CallGood(call', status, tasks, settings)
  BY <1>1, <1>2, <1>5, <1>6 DEF CallGood, ExchangeInv
<1>8. QED
  BY <1>1, <1>7 DEF ExchangeInv

LEMMA SubmitGood == ExchangeInv /\ SubmitCertificateRequest => ExchangeInv'
<1> SUFFICES ASSUME ExchangeInv, SubmitCertificateRequest PROVE ExchangeInv'
  OBVIOUS
<1> DEFINE n == Len(tasks)
<1>1. /\ call.pc = "http" /\ call.url.resource.of = "request" /\ n < MaxTasks
      /\ tasks' = Append(tasks, "PROCESSING") /\ UNCHANGED <<status, behind, issuer, settings>>
  BY DEF SubmitCertificateRequest, Answer
<1>2. TasksGood(tasks') /\ Advances(tasks, tasks') /\ n \in Nat /\ Len(tasks') = n + 1
  <2>1. tasks \in Seq(TaskStates) /\ n \in Nat /\ MaxTasks \in Nat
    BY ExchangeAssumption DEF ExchangeInv, TasksGood
  <2>2. /\ tasks' \in Seq(TaskStates) /\ Len(tasks') = n + 1
        /\ \A j \in 1 .. n : tasks'[j] = tasks[j]
    BY <1>1, <2>1 DEF TaskStates
  <2>3. QED
    BY <1>1, <2>1, <2>2 DEF TasksGood, Advances
<1>3. StageIn(call.copy) = "undecided" /\ call.spec \in settings /\ settings \subseteq Specs
  BY <1>1 DEF ExchangeInv, CallGood
<1>4. CASE ReportsNothing
  BY <1>1, <1>2, <1>4, NothingReported
<1>5. CASE ~ReportsNothing
  <2> DEFINE url == Rewrite(At(Backend, "task", n + 1), call.spec)
  <2>1. n + 1 \in 0 .. MaxTasks
    BY <1>1, <1>2, ExchangeAssumption
  <2>2. /\ url \in URL /\ Named(url, settings)
        /\ url.resource.of = "task" /\ url.resource.task = n + 1
    <3>1. \A t \in 0 .. MaxTasks :
            LET u == Rewrite(At(Backend, "task", t), call.spec) IN
            /\ u \in URL /\ Named(u, settings)
            /\ u.resource = [of |-> "task", task |-> t]
      BY <1>3, RewriteNames, Zenon
    <3>2. url \in URL /\ Named(url, settings) /\ url.resource = [of |-> "task", task |-> n + 1]
      BY <2>1, <3>1, Zenon
    <3>3. QED
      BY <3>2
  <2>3. Reports("Pending", "submitted", url)
    BY <1>5 DEF SubmitCertificateRequest
  <2> HIDE DEF url
  <2>4. QED
    BY <1>1, <1>2, <1>3, <2>2, <2>3, PendingReported
<1>6. QED
  BY <1>4, <1>5

\* What a poll of a task returns tells of that task.
LEMMA RepliesTell ==
    ASSUME ExchangeInv, call.pc = "http", call.url.resource.of = "task",
           NEW reply \in PollReplies(call.url.resource.task)
    PROVE  LET result == RequestTaskStatus(reply)
               task == call.url.resource.task IN
           /\ result.status \in {"", tasks[task]}
           /\ result.resource # NoURL =>
                 /\ tasks[task] = "ISSUED"
                 /\ result.resource = Rewrite(At(Backend, "certificate", task), call.spec)
<1>1. /\ reply.status = tasks[call.url.resource.task]
      /\ reply.location => tasks[call.url.resource.task] = "ISSUED"
  <2>1. CASE \E body \in {"strings", "other", "text"}, located \in BOOLEAN :
               reply = [code |-> IF tasks[call.url.resource.task] = "ISSUED" THEN 303 ELSE 200,
                        body |-> body, status |-> tasks[call.url.resource.task],
                        location |-> tasks[call.url.resource.task] = "ISSUED" /\ located]
    <3>1. PICK body \in {"strings", "other", "text"}, located \in BOOLEAN :
            reply = [code |-> IF tasks[call.url.resource.task] = "ISSUED" THEN 303 ELSE 200,
                     body |-> body, status |-> tasks[call.url.resource.task],
                     location |-> tasks[call.url.resource.task] = "ISSUED" /\ located]
      BY <2>1
    <3>2. reply.location = (tasks[call.url.resource.task] = "ISSUED" /\ located)
      BY <3>1, Zenon
    <3>3. reply.status = tasks[call.url.resource.task]
      BY <3>1
    <3>4. QED
      BY <3>2, <3>3, Zenon
  <2>2. CASE \E code \in {200, 500} :
               reply = [code |-> code, body |-> "strings",
                        status |-> tasks[call.url.resource.task], location |-> FALSE]
    <3>1. PICK code \in {200, 500} :
            reply = [code |-> code, body |-> "strings",
                     status |-> tasks[call.url.resource.task], location |-> FALSE]
      BY <2>2
    <3>2. reply.location = FALSE /\ reply.status = tasks[call.url.resource.task]
      BY <3>1, Zenon
    <3>3. QED
      BY <3>2, Zenon
  <2>3. QED
    BY <2>1, <2>2 DEF PollReplies
<1>2. QED
  BY <1>1 DEF RequestTaskStatus, Status

LEMMA PollGood == ExchangeInv /\ Poll => ExchangeInv'
<1> SUFFICES ASSUME ExchangeInv, Poll PROVE ExchangeInv'
  OBVIOUS
<1> DEFINE task == call.url.resource.task
<1>1. /\ call.pc = "http" /\ call.url.resource.of = "task"
      /\ UNCHANGED <<status, behind, issuer, settings>>
      /\ \E reply \in PollReplies(task) : PollAnswered(reply)
  BY DEF Poll, Answer
<1>2. PICK reply \in PollReplies(task) : PollAnswered(reply)
  BY <1>1
<1> DEFINE result == RequestTaskStatus(reply)
<1>3. /\ StageIn(call.copy) = "ordered" /\ RecordedIn(call.copy) = task
      /\ task \in 1 .. Len(tasks) /\ Named(call.url, settings)
  BY <1>1 DEF ExchangeInv, CallGood
<1>4. /\ ~DecidedIn(call.copy) /\ call.copy.certificate.task = 0 /\ call.copy.ca = 0
      /\ call.spec \in settings /\ call.url \in URL /\ settings \subseteq Specs
      /\ StatusGood(call.copy, tasks, settings)
      /\ TasksGood(tasks) /\ Advances(tasks, tasks)
  BY <1>1, CallIsUndecided DEF ExchangeInv
<1>5. tasks' = tasks
  BY <1>2 DEF PollAnswered
<1>6. /\ result.status \in {"", tasks[task]}
      /\ result.resource # NoURL =>
            /\ tasks[task] = "ISSUED"
            /\ result.resource = Rewrite(At(Backend, "certificate", task), call.spec)
  BY <1>1, RepliesTell
<1> HIDE DEF result, task
<1>7. \/ /\ result.resource # NoURL
         /\ Reports("Pending", "signed", result.resource)
      \/ /\ result.status \in RejectedStates
         /\ Reports("Failed", "other", NoURL)
      \/ ReportsNothing
      \/ \E news \in {"processing", "approved"} : Reports("Pending", news, call.url)
  BY <1>2 DEF PollAnswered, result
<1>8. CASE result.resource # NoURL /\ Reports("Pending", "signed", result.resource)
  <2>1. /\ task \in 0 .. MaxTasks
    BY <1>3, <1>4, ExchangeAssumption DEF TasksGood
  <2>2. /\ result.resource \in URL /\ Named(result.resource, settings)
        /\ result.resource.resource.of = "certificate" /\ result.resource.resource.task = task
    <3>1. \A t \in 0 .. MaxTasks :
            LET u == Rewrite(At(Backend, "certificate", t), call.spec) IN
            /\ u \in URL /\ Named(u, settings)
            /\ u.resource = [of |-> "certificate", task |-> t]
      BY <1>4, RewriteNames, Zenon
    <3>2. /\ result.resource \in URL /\ Named(result.resource, settings)
          /\ result.resource.resource = [of |-> "certificate", task |-> task]
      BY <1>6, <1>8, <2>1, <3>1, Zenon
    <3>3. QED
      BY <3>2
  <2>3. QED
    BY <1>1, <1>3, <1>4, <1>5, <1>6, <1>8, <2>2, PendingReported
<1>9. CASE result.status \in RejectedStates /\ Reports("Failed", "other", NoURL)
  <2> DEFINE new == [type |-> "Ready", reason |-> "Failed", text |-> "other", url |-> NoURL]
             w == Report(call.copy, "Failed", "other", NoURL)
  <2>1. new \in Condition /\ ConditionGood(new, tasks, settings)
    BY ApprovalTyped DEF Condition, ConditionGood
  <2>2. /\ StatusGood(w, tasks, settings)
        /\ w.certificate = call.copy.certificate /\ w.ca = call.copy.ca
        /\ RecordedIn(w) = 0 /\ ~HasReason(w, "Issued") /\ StageIn(w) = "failed"
    <3>1. /\ new.reason = "Failed" /\ new.text = "other" /\ new.url = NoURL
          /\ new.type = "Ready"
      OBVIOUS
    <3> HIDE DEF new
    <3>2. QED
      BY <1>4, <2>1, <3>1, ReportTells
  <2>3. tasks[task] \in RejectedStates
    BY <1>6, <1>9, ExchangeAssumption
  <2>4. Returns(w)
    BY <1>9 DEF Reports
  <2> HIDE DEF w
  <2>5. CertificateGood(w, tasks) /\ Follows(call.copy, w, tasks)
    BY <1>3, <1>4, <2>2, <2>3 DEF CertificateGood, Follows
  <2>6. QED
    BY <1>1, <1>4, <1>5, <2>2, <2>4, <2>5, Returned
<1>10. CASE ReportsNothing
  BY <1>1, <1>4, <1>5, <1>10, NothingReported
<1>11. ASSUME NEW news \in {"processing", "approved"}, Reports("Pending", news, call.url)
       PROVE  ExchangeInv'
  BY <1>1, <1>3, <1>4, <1>5, <1>11, PendingReported DEF task
<1>12. QED
  BY <1>7, <1>8, <1>9, <1>10, <1>11

LEMMA FetchGood == ExchangeInv /\ FetchCertificate => ExchangeInv'
<1> SUFFICES ASSUME ExchangeInv, FetchCertificate PROVE ExchangeInv'
  OBVIOUS
<1> DEFINE task == call.url.resource.task
           v == Report(call.copy, "Issued", "other", NoURL)
<1>1. /\ call.pc = "http" /\ call.url.resource.of = "certificate"
      /\ UNCHANGED <<status, behind, tasks, issuer, settings>>
  BY DEF FetchCertificate, Answer
<1>2. PICK bundle \in Bundles :
        Returns([v EXCEPT !.certificate = [task |-> task, bundle |-> bundle],
                          !.ca = IF ExtractCA(bundle) # 0 THEN ExtractCA(bundle) ELSE @])
  BY DEF FetchCertificate
<1>3. /\ StageIn(call.copy) = "signed" /\ RecordedIn(call.copy) = task
      /\ task \in 1 .. Len(tasks) /\ tasks[task] = "ISSUED"
  BY <1>1 DEF ExchangeInv, CallGood
<1>4. /\ call.copy.certificate.task = 0 /\ call.copy.ca = 0
      /\ StatusGood(call.copy, tasks, settings)
      /\ TasksGood(tasks) /\ Advances(tasks, tasks)
  BY <1>1, CallIsUndecided
<1>5. /\ StatusGood(v, tasks, settings) /\ v.ca = 0
      /\ RecordedIn(v) = 0 /\ HasReason(v, "Issued")
  <2> DEFINE new == [type |-> "Ready", reason |-> "Issued", text |-> "other", url |-> NoURL]
  <2>1. /\ new \in Condition /\ ConditionGood(new, tasks, settings)
        /\ new.reason = "Issued" /\ new.text = "other" /\ new.url = NoURL
        /\ new.type = "Ready"
    BY ApprovalTyped DEF Condition, ConditionGood
  <2> HIDE DEF new
  <2>2. QED
    BY <1>4, <2>1, ReportTells
<1> HIDE DEF v, task
<1> DEFINE w == [v EXCEPT !.certificate = [task |-> task, bundle |-> bundle],
                          !.ca = ExtractCA(bundle)]
<1>6. ExtractCA(bundle) \in Nat
  BY AuthorityIsARoot
<1>7. v \in Statuses
  BY <1>5 DEF StatusGood, StatusOK, Statuses
<1>8. Returns(w)
  BY <1>2, <1>5, <1>6
<1>9. task \in 0 .. MaxTasks /\ task # 0
  BY <1>3, <1>4, ExchangeAssumption DEF TasksGood
<1>10. /\ w \in Statuses /\ w.conditions = v.conditions
       /\ w.certificate = [task |-> task, bundle |-> bundle] /\ w.ca = ExtractCA(bundle)
  BY <1>6, <1>7, <1>9 DEF Statuses
<1> HIDE DEF w
<1>11. /\ StatusGood(w, tasks, settings)
       /\ RecordedIn(w) = 0 /\ HasReason(w, "Issued")
  BY <1>5, <1>10, SameConditions
<1>12. CertificateGood(w, tasks)
  BY <1>3, <1>9, <1>10, <1>11 DEF CertificateGood
<1>13. Follows(call.copy, w, tasks)
  BY <1>3, <1>9, <1>10, <1>11 DEF Follows, StageIn
<1>14. QED
  BY <1>1, <1>4, <1>8, <1>11, <1>12, <1>13, Returned

LEMMA UpdateStatusGood ==
    ASSUME ExchangeInv, UpdateStatus
    PROVE  ExchangeInv' /\ Follows(status, status', tasks)
<1>1. /\ call.pc = "update" /\ call' = NoCall /\ UNCHANGED <<tasks, issuer, settings>>
      /\ status' = IF call.conflict THEN status ELSE call.copy
      /\ VersionsGood(behind', tasks, settings)
  BY StoresGood DEF UpdateStatus, Stores
<1>2. Follows(status, status', tasks)
  BY <1>1 DEF ExchangeInv, CallGood, Follows, Calls
<1>3. StatusGood(status', tasks, settings) /\ CertificateGood(status', tasks)
  BY <1>1 DEF ExchangeInv, CallGood
<1>4. CallGood(call', status', tasks, settings)
  BY <1>1, NoCallGood
<1>5. QED
  BY <1>1, <1>2, <1>3, <1>4 DEF ExchangeInv

LEMMA CallFailsGood == ExchangeInv /\ CallFails => ExchangeInv'
  BY NoCallGood DEF ExchangeInv, CallFails

LEMMA StepGood == ExchangeInv /\ [Next]_vars => ExchangeInv'
<1> SUFFICES ASSUME ExchangeInv, [Next]_vars PROVE ExchangeInv'
  OBVIOUS
<1>1. CASE Approve
  BY <1>1, ApproveGood
<1>2. CASE EditIssuer
  BY <1>2, EditIssuerGood
<1>3. CASE \E t \in DOMAIN tasks : Progress(t)
  BY <1>3, ProgressGood
<1>4. CASE Initialise
  BY <1>4, InitialiseGood
<1>5. CASE RequestToken
  BY <1>5, RequestTokenGood
<1>6. CASE CallGoesOn
  BY <1>6, GetRefreshTokenGood, SubmitGood, PollGood, FetchGood, UpdateStatusGood,
     CallFailsGood DEF CallGoesOn
<1>7. CASE Deliver
  BY <1>7, DeliverGood
<1>8. CASE UNCHANGED vars
  BY <1>8 DEF vars, ExchangeInv
<1>9. QED
  BY <1>1, <1>2, <1>3, <1>4, <1>5, <1>6, <1>7, <1>8 DEF Next

-----------------------------------------------------------------------------
(* The theorems.                                                             *)

\* The inductive invariant: Reconcile's copy of the status, which may be an old one out
\* of a lagging cache, the URL it calls and the task behind that URL tell the same of
\* the request's life, and what it will write follows what is stored then.
THEOREM ExchangeInvariance == Spec => []ExchangeInv
<1>1. QED
  BY InitGood, StepGood, PTL DEF Spec

\* SetReadyCondition keeps one Ready condition, beside that of the approver, and each
\* decoded answer leaves a status of the declared form, for any chains and addresses.
THEOREM ExchangeTypes == Spec => []TypeOK
<1>1. ExchangeInv => TypeOK
  BY DEF ExchangeInv, TasksGood, StatusGood, VersionsGood, CallGood, Calls, TypeOK
<1>2. QED
  BY <1>1, ExchangeInvariance, PTL

\* Wherever createNewRequestAndAuth sends a call, the issuer has named that address,
\* or it let essendi XC name it by leaving ignoreHostInApiResponse unset.
THEOREM NoCallElsewhere == Spec => []CallsGoWhereTheIssuerSaid
<1>1. ExchangeInv => CallsGoWhereTheIssuerSaid
  BY DEF ExchangeInv, CallGood, Named, CallsGoWhereTheIssuerSaid
<1>2. QED
  BY <1>1, ExchangeInvariance, PTL

\* What is stored as Issued after FetchCertificate is the chain of a task that was issued,
\* with the first root in it, as extractCA finds it, for chains of any length and order.
THEOREM IssuedComesWithItsRoot == Spec => []IssuedWithItsRoot
<1>1. ASSUME ExchangeInv PROVE IssuedWithItsRoot
  <2>1. status.certificate.bundle \in Bundles \cup {<<>>}
    BY <1>1 DEF ExchangeInv, StatusGood, StatusOK
  <2>2. LET bundle == status.certificate.bundle IN
        /\ ExtractCA(bundle) = 0 <=> \A i \in DOMAIN bundle : bundle[i] # "root"
        /\ ExtractCA(bundle) # 0 =>
             /\ bundle[ExtractCA(bundle)] = "root"
             /\ \A i \in 1 .. ExtractCA(bundle) - 1 : bundle[i] # "root"
    BY <2>1, AuthorityIsARoot
  <2>3. QED
    BY <1>1, <2>2 DEF ExchangeInv, CertificateGood, IssuedWithItsRoot
<1>2. QED
  BY <1>1, ExchangeInvariance, PTL

\* Each step of the exchange is one step of the request's life, or none.
LEMMA StepFollows ==
    ASSUME ExchangeInv, [Next]_vars
    PROVE  Follows(status, status', tasks)
<1>1. CASE Approve
  <2>1. /\ RecordedIn(status') = RecordedIn(status) /\ StageIn(status') = StageIn(status)
        /\ status'.certificate = status.certificate
    BY <1>1, ApprovalTells DEF Approve, Stores, ExchangeInv
  <2>2. QED
    BY <2>1 DEF Follows
<1>2. CASE UpdateStatus
  BY <1>2, UpdateStatusGood
<1>3. CASE ~Approve /\ ~UpdateStatus
  <2>1. status' = status
    BY <1>3 DEF Next, vars, EditIssuer, Deliver, Progress, Initialise, RequestToken, Reads,
                CallGoesOn, GetRefreshToken, SubmitCertificateRequest, Poll,
                FetchCertificate, CallFails, Answer
  <2>2. QED
    BY <2>1 DEF Follows
<1>4. QED
  BY <1>1, <1>2, <1>3

\* The scan over the messages of all conditions finds the task that was stored first
\* until that task decides the request, whatever answers and conditions come between.
THEOREM OneTaskDecides == Spec => OneTaskIsFollowed
<1>1. ASSUME ExchangeInv, ExchangeInv', [Next]_vars, Recorded # 0
      PROVE  \/ Recorded' = Recorded
             \/ Decided' /\ status'.certificate.task \in {0, Recorded}
  <2>1. Follows(status, status', tasks)
    BY <1>1, StepFollows
  <2>2. Recorded = RecordedIn(status) /\ Recorded' = RecordedIn(status')
    BY DEF Recorded
  <2>3. Decided' <=> DecidedIn(status')
    BY DEF Decided
  <2>4. StageIn(status') \in {"issued", "failed"} => DecidedIn(status')
    BY <1>1 DEF ExchangeInv, CertificateGood, StageIn, DecidedIn
  <2>5. StageIn(status) = "undecided" => RecordedIn(status) = 0
    BY DEF StageIn, RecordedIn
  <2>6. QED
    BY <1>1, <2>1, <2>2, <2>3, <2>4, <2>5 DEF Follows
<1>2. QED
  BY <1>1, ExchangeInvariance, PTL DEF Spec, OneTaskIsFollowed, vars

\* submitCertificateRequest may be reached though a task is recorded, or the request is
\* decided, since Reconcile looks only at a copy from a cache that lags: but then the
\* copy is not the stored version, and the update that would record the second task
\* is refused.
THEOREM OneTaskIsRecorded == Spec => SecondTaskIsRefused
<1>1. ASSUME ExchangeInv, [Next]_vars, Len(tasks') > Len(tasks), Recorded # 0 \/ Decided
      PROVE  call.conflict
  <2> SUFFICES ASSUME ~call.conflict PROVE FALSE
    OBVIOUS
  <2>1. ~(\E t \in DOMAIN tasks : Progress(t))
    <3>1. ASSUME NEW t \in DOMAIN tasks, NEW s, tasks' = [tasks EXCEPT ![t] = s]
          PROVE  Len(tasks') = Len(tasks)
      BY <1>1, <3>1 DEF ExchangeInv, TasksGood
    <3>2. Len(tasks) \in Nat
      BY <1>1 DEF ExchangeInv, TasksGood
    <3>3. QED
      BY <1>1, <3>1, <3>2 DEF Progress
  <2>2. SubmitCertificateRequest
    <3>1. Len(tasks) \in Nat
      BY <1>1 DEF ExchangeInv, TasksGood
    <3>2. tasks' # tasks
      BY <1>1, <3>1
    <3>3. QED
      BY <1>1, <2>1, <3>2
      DEF Next, vars, Approve, EditIssuer, Deliver, Initialise, RequestToken, Reads,
          CallGoesOn, GetRefreshToken, Poll, PollAnswered, FetchCertificate, UpdateStatus,
          CallFails, Answer
  <2>3. StageIn(call.copy) = "undecided" /\ call.copy = status
    BY <1>1, <2>2 DEF SubmitCertificateRequest, Answer, ExchangeInv, CallGood
  <2>4. StageIn(status) = "undecided"
    BY <2>3
  <2>5. QED
    BY <1>1, <2>4 DEF StageIn, Recorded, RecordedIn, Decided
<1>2. QED
  BY <1>1, ExchangeInvariance, PTL DEF Spec, SecondTaskIsRefused, vars

-----------------------------------------------------------------------------
(* The refinement.                                                           *)

LEMMA TakenOfTasks ==
    ASSUME TasksGood(tasks)
    PROVE  /\ DOMAIN Taken = 1 .. Len(tasks) /\ Len(Taken) = Len(tasks) /\ Len(tasks) \in Nat
           /\ \A t \in 1 .. Len(tasks) : Taken[t] = [cr |-> "request", state |-> tasks[t]]
<1>1. tasks \in Seq(TaskStates)
  BY DEF TasksGood
<1>2. Taken \in Seq({[cr |-> "request", state |-> s] : s \in TaskStates})
  BY <1>1 DEF Taken
<1>3. DOMAIN Taken = 1 .. Len(tasks) /\ Len(tasks) \in Nat
  BY <1>1 DEF Taken
<1>4. Len(Taken) = Len(tasks)
  BY <1>2, <1>3
<1>5. QED
  BY <1>3, <1>4 DEF Taken

\* A step that leaves the tasks alone.
LEMMA StatusStep ==
    ASSUME TasksGood(tasks), UNCHANGED tasks, Follows(status, status', tasks)
    PROVE  [Lifecycle!Next]_<<Life, Taken>>
<1> DEFINE st == status
           w == status'
<1>1. Taken' = Taken
  BY DEF Taken
<1>2. /\ Life["request"] = Told(st) /\ Life' = [c \in {"request"} |-> Told(w)]
      /\ Life = [c \in {"request"} |-> Told(st)]
  BY DEF Life
<1>3. ASSUME NEW stage, NEW order, NEW certificate,
             Told(w) = [approval |-> "none", stage |-> stage, order |-> order,
                        certificate |-> certificate]
      PROVE  Lifecycle!Moves("request", stage, order, certificate)
  BY <1>1, <1>2, <1>3 DEF Lifecycle!Moves, Told
<1>4. CASE /\ StageIn(w) = StageIn(st) /\ RecordedIn(w) = RecordedIn(st)
           /\ w.certificate.task = st.certificate.task
  BY <1>1, <1>2, <1>4 DEF Told
<1>5. CASE /\ StageIn(st) = "undecided" /\ StageIn(w) = "ordered"
           /\ RecordedIn(w) \in 1 .. Len(tasks) /\ w.certificate.task = 0
  <2>1. Lifecycle!Follow("request", RecordedIn(w))
    BY <1>2, <1>3, <1>5, TakenOfTasks DEF Lifecycle!Follow, Lifecycle!Eligible, Told
  <2>2. QED
    BY <1>5, <2>1, TakenOfTasks DEF Lifecycle!Next
<1>6. CASE /\ StageIn(st) = "ordered" /\ StageIn(w) = "signed"
           /\ RecordedIn(w) = RecordedIn(st) /\ RecordedIn(st) \in 1 .. Len(tasks)
           /\ tasks[RecordedIn(st)] = "ISSUED" /\ w.certificate.task = 0
  <2>1. Lifecycle!Sign("request")
    BY <1>2, <1>3, <1>6, TakenOfTasks DEF Lifecycle!Sign, Told
  <2>2. QED
    BY <2>1 DEF Lifecycle!Next
<1>7. CASE /\ StageIn(st) = "signed" /\ StageIn(w) = "issued" /\ RecordedIn(w) = 0
           /\ w.certificate.task = RecordedIn(st)
  <2>1. Lifecycle!Issue("request")
    BY <1>2, <1>3, <1>7 DEF Lifecycle!Issue, Told
  <2>2. QED
    BY <2>1 DEF Lifecycle!Next
<1>8. CASE /\ StageIn(st) = "ordered" /\ StageIn(w) = "failed" /\ RecordedIn(w) = 0
           /\ RecordedIn(st) \in 1 .. Len(tasks)
           /\ tasks[RecordedIn(st)] \in RejectedStates /\ w.certificate.task = 0
  <2>1. Lifecycle!Reject("request")
    BY <1>2, <1>3, <1>8, TakenOfTasks DEF Lifecycle!Reject, Told
  <2>2. QED
    BY <2>1 DEF Lifecycle!Next
<1>9. QED
  BY <1>4, <1>5, <1>6, <1>7, <1>8 DEF Follows

LEMMA ProgressMaps ==
    ASSUME ExchangeInv, NEW t \in DOMAIN tasks, Progress(t)
    PROVE  Lifecycle!Progress(t) /\ t \in 1 .. Len(Taken)
<1>1. PICK s \in TaskStates \ {"PROCESSING", tasks[t]} : tasks' = [tasks EXCEPT ![t] = s]
  BY DEF Progress
<1>2. UNCHANGED Life
  BY DEF Progress, Life
<1>3. /\ DOMAIN tasks = 1 .. Len(tasks) /\ Len(Taken) = Len(tasks)
      /\ Taken[t] = [cr |-> "request", state |-> tasks[t]]
  BY TakenOfTasks DEF ExchangeInv, TasksGood
<1>4. Taken' = [Taken EXCEPT ![t].state = s]
  BY <1>1 DEF Taken
<1>5. tasks[t] \in {"PROCESSING", "APPROVED"}
  BY DEF Progress
<1>6. Lifecycle!TaskStates = TaskStates
  BY DEF Lifecycle!TaskStates, TaskStates
<1>7. t \in 1 .. Len(Taken) /\ Taken[t].state = tasks[t]
  BY <1>3
<1>8. Lifecycle!Progress(t)
  BY <1>1, <1>2, <1>4, <1>5, <1>6, <1>7 DEF Lifecycle!Progress
<1>9. QED
  BY <1>7, <1>8

LEMMA SubmitMaps ==
    ASSUME ExchangeInv, SubmitCertificateRequest
    PROVE  Lifecycle!Take("request")
<1> DEFINE n == Len(tasks)
<1>1. tasks' = Append(tasks, "PROCESSING") /\ UNCHANGED status
  BY DEF SubmitCertificateRequest, Answer
<1>2. tasks \in Seq(TaskStates) /\ n \in Nat /\ DOMAIN tasks = 1 .. n
  BY DEF ExchangeInv, TasksGood
<1>3. UNCHANGED Life
  BY <1>1 DEF Life
<1>4. /\ DOMAIN tasks' = 1 .. n + 1 /\ tasks'[n + 1] = "PROCESSING"
      /\ \A t \in 1 .. n : tasks'[t] = tasks[t]
  BY <1>1, <1>2
<1>5. /\ Len(Taken) = n /\ DOMAIN Taken = 1 .. n
      /\ \A t \in 1 .. n : Taken[t] = [cr |-> "request", state |-> tasks[t]]
  BY TakenOfTasks DEF ExchangeInv
<1>6. Taken' = [t \in 1 .. n + 1 |-> [cr |-> "request", state |-> tasks'[t]]]
  BY <1>4 DEF Taken
<1> DEFINE new == [cr |-> "request", state |-> "PROCESSING"]
<1>7. /\ Append(Taken, new) \in Seq({[cr |-> "request", state |-> s] : s \in TaskStates})
      /\ Len(Append(Taken, new)) = n + 1 /\ Append(Taken, new)[n + 1] = new
      /\ \A t \in 1 .. n : Append(Taken, new)[t] = Taken[t]
  <2>1. /\ Taken \in Seq({[cr |-> "request", state |-> s] : s \in TaskStates})
        /\ new \in {[cr |-> "request", state |-> s] : s \in TaskStates}
    BY <1>2 DEF Taken, TaskStates
  <2> HIDE DEF new
  <2>2. QED
    BY <1>5, <2>1
<1>8. Taken' = Append(Taken, new)
  <2>1. Taken' \in Seq({[cr |-> "request", state |-> s] : s \in TaskStates})
    <3>1. tasks' \in Seq(TaskStates)
      BY <1>1, <1>2 DEF TaskStates
    <3>2. QED
      BY <3>1 DEF Taken
  <2>2. /\ Len(Taken') = n + 1 /\ Taken'[n + 1] = new
        /\ \A t \in 1 .. n : Taken'[t] = Taken[t]
    <3>1. DOMAIN Taken' = 1 .. n + 1 /\ Len(Taken') = n + 1
      BY <1>2, <1>6, <2>1
    <3>2. n + 1 \in 1 .. n + 1 /\ \A t \in 1 .. n : t \in 1 .. n + 1
      BY <1>2
    <3> HIDE DEF n
    <3>3. QED
      BY <1>4, <1>5, <1>6, <3>1, <3>2
  <2> HIDE DEF new
  <2>3. QED
    BY <1>7, <2>1, <2>2, SeqEqual
<1>9. QED
  BY <1>3, <1>8 DEF Lifecycle!Take, Lifecycle!Eligible

LEMMA StepMaps ==
    ASSUME ExchangeInv, [Next]_vars
    PROVE  [Lifecycle!Next]_<<Life, Taken>>
<1>1. CASE \E t \in DOMAIN tasks : Progress(t)
  BY <1>1, ProgressMaps DEF Lifecycle!Next
<1>2. CASE SubmitCertificateRequest
  BY <1>2, SubmitMaps DEF Lifecycle!Next
<1>3. CASE ~SubmitCertificateRequest /\ ~(\E t \in DOMAIN tasks : Progress(t))
  <2>1. UNCHANGED tasks
    BY <1>3 DEF Next, vars, Approve, EditIssuer, Deliver, Initialise, RequestToken, Reads,
                CallGoesOn, GetRefreshToken, Poll, PollAnswered, FetchCertificate,
                UpdateStatus, CallFails, Answer
  <2>2. QED
    BY <2>1, StepFollows, StatusStep DEF ExchangeInv
<1>4. QED
  BY <1>1, <1>2, <1>3

\* The exchange over HTTP, seen through the scans over the messages, is the life of a
\* request: the order with essendi XC, its task's end and the certificate of that task.
THEOREM ExchangeFollowsLifecycle == Spec => ImplementsLifecycle
<1>1. Init => Lifecycle!Init
  <2> SUFFICES ASSUME Init PROVE Lifecycle!Init
    OBVIOUS
  <2>1. ExchangeInv
    BY InitGood
  <2>2. /\ ~HasType(status, "Ready") /\ StatusGood(status, tasks, settings)
        /\ status.certificate.task = 0
    BY <2>1 DEF Init, NewStatus, Approval, HasType, ExchangeInv
  <2>3. StageIn(status) = "undecided" /\ RecordedIn(status) = 0
    BY <2>2, NoReadyTells DEF StageIn
  <2>4. Taken = <<>>
    BY DEF Taken, Init
  <2>5. QED
    BY <2>2, <2>3, <2>4 DEF Lifecycle!Init, Life, Told
<1>2. ExchangeInv /\ [Next]_vars => [Lifecycle!Next]_<<Life, Taken>>
  BY StepMaps
<1>3. QED
  BY <1>1, <1>2, ExchangeInvariance, PTL DEF Spec, ImplementsLifecycle, Lifecycle!Spec

LP == INSTANCE CertificateRequestLifecycle_proofs WITH
    Requests <- {"request"},
    IssuerRef <- [c \in {"request"} |-> "Issuer"],
    CheckApprovedCondition <- FALSE,
    RefusalText <- FALSE,
    orders <- Taken,
    request <- Life

\* Lifecycle and LP are instances of one definition.
LEMMA SameLifecycle == Lifecycle!Spec => LP!Spec
<1>1. Lifecycle!Init => LP!Init
  BY DEF Lifecycle!Init, LP!Init
<1>2. \A c, s, o, k : Lifecycle!Moves(c, s, o, k) <=> LP!Moves(c, s, o, k)
  BY DEF Lifecycle!Moves, LP!Moves
<1>3. \A c : Lifecycle!Eligible(c) <=> LP!Eligible(c)
  BY DEF Lifecycle!Eligible, LP!Eligible
<1>4. ASSUME NEW c \in {"request"}, NEW a \in {"approved", "denied"}, Lifecycle!Decide(c, a)
      PROVE  LP!Next
  BY <1>4 DEF Lifecycle!Decide, LP!Decide, LP!Next
<1>5. ASSUME NEW c \in {"request"}, Lifecycle!Take(c)
      PROVE  LP!Next
  BY <1>3, <1>5 DEF Lifecycle!Take, LP!Take, LP!Next
<1>6. ASSUME NEW c \in {"request"}, NEW o \in 1 .. Len(Taken), Lifecycle!Follow(c, o)
      PROVE  LP!Next
  BY <1>2, <1>3, <1>6 DEF Lifecycle!Follow, LP!Follow, LP!Next
<1>7. ASSUME NEW c \in {"request"},
             \/ Lifecycle!Sign(c) \/ Lifecycle!Issue(c) \/ Lifecycle!Reject(c)
             \/ Lifecycle!RejectKind(c) \/ Lifecycle!MarkDenied(c)
             \/ Lifecycle!Forget(c) \/ Lifecycle!Remove(c)
      PROVE  LP!Next
  BY <1>2, <1>7
  DEF Lifecycle!Sign, Lifecycle!Issue, Lifecycle!Reject, Lifecycle!RejectKind,
      Lifecycle!MarkDenied, Lifecycle!Forget, Lifecycle!Remove, Lifecycle!Open,
      LP!Sign, LP!Issue, LP!Reject, LP!RejectKind, LP!MarkDenied, LP!Forget, LP!Remove,
      LP!Open, LP!Next
<1>8. ASSUME NEW o \in 1 .. Len(Taken), Lifecycle!Progress(o)
      PROVE  LP!Next
  BY <1>8 DEF Lifecycle!Progress, Lifecycle!TaskStates, LP!Progress, LP!TaskStates, LP!Next
<1>9. [Lifecycle!Next]_<<Life, Taken>> => [LP!Next]_<<Life, Taken>>
  BY <1>4, <1>5, <1>6, <1>7, <1>8 DEF Lifecycle!Next
<1>10. QED
  BY <1>1, <1>9, PTL DEF Lifecycle!Spec, LP!Spec

\* Failed is written only when RequestTaskStatus told of a task of the request
\* that ended without a certificate: no 404, unreadable body or missing Location does it.
THEOREM ExchangeOutcomesEarned == Spec => []Lifecycle!OutcomesAreEarned
<1>1. LP!LifecycleAssumption
  BY ExchangeAssumption DEF LP!LifecycleAssumption
<1>2. LP!Spec => []LP!OutcomesAreEarned
  BY <1>1, LP!OutcomesEarned
<1>3. LP!OutcomesAreEarned => Lifecycle!OutcomesAreEarned
  BY DEF LP!OutcomesAreEarned, LP!OwnTask, LP!Eligible,
         Lifecycle!OutcomesAreEarned, Lifecycle!OwnTask, Lifecycle!Eligible
<1>4. QED
  BY <1>2, <1>3, ExchangeFollowsLifecycle, SameLifecycle, PTL DEF ImplementsLifecycle

\* What the messages tell of a decision or of a certificate, they keep telling.
THEOREM ExchangeOutcomesKept == Spec => Lifecycle!OutcomesStay
<1>1. LP!LifecycleAssumption
  BY ExchangeAssumption DEF LP!LifecycleAssumption
<1>2. LP!Spec => LP!OutcomesStay
  BY <1>1, LP!OutcomesKept
<1>3. QED
  BY <1>2, ExchangeFollowsLifecycle, SameLifecycle, PTL
  DEF ImplementsLifecycle, LP!OutcomesStay, Lifecycle!OutcomesStay

=============================================================================
