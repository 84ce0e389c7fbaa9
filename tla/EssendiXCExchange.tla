-------------------------- MODULE EssendiXCExchange --------------------------
(***************************************************************************)
(* The HTTP exchange with essendi XC for one request                         *)
(* (internal/issuer/signer/signer.go): where each call goes, how its answer   *)
(* is decoded, and how the task's URL is kept in the message of a condition   *)
(* and found there again (internal/issuer/util/util.go).                      *)
(*                                                                            *)
(* essendi XC is behind a proxy.  It knows itself by an address that the      *)
(* program cannot reach and puts that into the URLs it hands out;             *)
(* ignoreHostInApiResponse is the setting made for this case.                 *)
(*                                                                            *)
(* Reconcile reads the request and the issuer from caches that lag behind     *)
(* what is stored, and writes the whole status when it returns.               *)
(***************************************************************************)
EXTENDS Naturals, Sequences, FiniteSetsExt

CONSTANTS
    Addresses,       \* scheme and host of the urls an issuer may name; all reachable
    Backend,         \* the address essendi XC knows itself by; not reachable
    RejectedStates,  \* how essendi XC may end a task without a certificate
    Bundles,         \* the certificate chains essendi XC may deliver
    MaxTasks,        \* bound: tasks essendi XC accepts
    MaxEdits         \* bound: edits of the issuer

Blocks == {"leaf", "intermediate", "root", "key", "garbled"}

ASSUME ExchangeAssumption ==
    /\ Backend \notin Addresses
    /\ RejectedStates \subseteq {"DECLINED", "CANCELED", "FAILED_IN_REVIEW"}
    /\ Bundles \subseteq Seq(Blocks)
    /\ MaxTasks \in Nat
    /\ MaxEdits \in Nat

VARIABLES
    status,    \* the stored status of the request
    behind,    \* the statuses before it that the cache has yet to leave, oldest first
    call,      \* the Reconcile call in progress
    tasks,     \* the states of the tasks at essendi XC
    issuer,    \* the issuer's spec
    settings   \* the specs the issuer has had

vars == <<status, behind, call, tasks, issuer, settings>>

-----------------------------------------------------------------------------
(* URLs and messages.                                                        *)

\* resource: the path below the address, with the task it is about.
Resource == [of : {"token", "request", "task", "certificate"}, task : 0 .. MaxTasks]
URL == [address : Addresses \cup {Backend}, resource : Resource]

At(address, of, task) ==
    [address |-> address, resource |-> [of |-> of, task |-> task]]

NoURL == At(Backend, "token", 0)

\* A message is a text, a colon and a URL, or a text of another kind.
Condition == [type : {"Approved", "Ready"},
              reason : {"approver", "Pending", "Failed", "Issued"},
              text : {"other", "submitted", "processing", "approved", "signed"},
              url : URL]

\* certificate: the task it was fetched from and its bundle; ca: the position in
\* the bundle of what is in status.ca, 0 when that is unset.
NewStatus == [conditions |-> <<>>, certificate |-> [task |-> 0, bundle |-> <<>>], ca |-> 0]

TaskStates == {"PROCESSING", "APPROVED", "ISSUED"} \cup RejectedStates

\* Mutation: the address is only replaced in the first answer.
RewriteTaskOnly(url, spec) ==
    IF spec.ignoreHost /\ url.resource.of = "task"
    THEN [url EXCEPT !.address = spec.address] ELSE url

\* The expression ^http[s]?://.*?/ matches scheme and host up to the first slash.
Rewrite(url, spec) ==
    IF spec.ignoreHost THEN [url EXCEPT !.address = spec.address] ELSE url

\* The first condition with such a message, whoever wrote it; 0 when none has.
FirstWith(conds, texts) ==
    LET hits == {i \in DOMAIN conds : conds[i].text \in texts} IN
    IF hits = {} THEN 0 ELSE Min(hits)

\* Mutation: a task in progress is not recognised.
SubmittedOrApproved(conds) == FirstWith(conds, {"submitted", "approved"})

GetSubmittedCondition(conds) == FirstWith(conds, {"submitted", "processing", "approved"})
GetSignedCondition(conds) == FirstWith(conds, {"signed"})

Shows(conds, text) ==
    /\ GetSubmittedCondition(conds) # 0
    /\ conds[GetSubmittedCondition(conds)].text = text

\* Mutation: the Ready condition is appended each time.
ReportAppends(st, reason, text, url) ==
    [st EXCEPT !.conditions =
        Append(@, [type |-> "Ready", reason |-> reason, text |-> text, url |-> url])]

\* The Ready condition is replaced in its place, or appended.
Report(st, reason, text, url) ==
    LET new == [type |-> "Ready", reason |-> reason, text |-> text, url |-> url]
        old == {i \in DOMAIN st.conditions : st.conditions[i].type = "Ready"} IN
    [st EXCEPT !.conditions = IF old = {} THEN Append(@, new) ELSE [@ EXCEPT ![Min(old)] = new]]

HasType(st, type) == \E i \in DOMAIN st.conditions : st.conditions[i].type = type
HasReason(st, reason) == \E i \in DOMAIN st.conditions : st.conditions[i].reason = reason

DecidedIn(st) == HasReason(st, "Issued") \/ HasReason(st, "Failed")
Decided == DecidedIn(status)

\* The status in the cache of the manager.
Cached == IF behind = <<>> THEN status ELSE Head(behind)

\* A status that says the same is no new version.
Stores(new) ==
    /\ status' = new
    /\ behind' = IF new = status THEN behind ELSE Append(behind, status)

\* copy: the status as it was read, and as it will be written; spec: the issuer as
\* it was read; conflict: the stored status is newer than the one that was read.
NoCall == [pc |-> "idle", url |-> NoURL, copy |-> NewStatus, conflict |-> FALSE,
           spec |-> [address |-> Backend, ignoreHost |-> FALSE]]

Approval == [type |-> "Approved", reason |-> "approver", text |-> "other", url |-> NoURL]

Specs == [address : Addresses, ignoreHost : BOOLEAN]

Init ==
    /\ status \in {NewStatus, [NewStatus EXCEPT !.conditions = <<Approval>>]}
    /\ behind = <<>>
    /\ call = NoCall
    /\ tasks = <<>>
    /\ issuer \in Specs
    /\ settings = {issuer}

-----------------------------------------------------------------------------
(* The environment.                                                          *)

\* The approver's condition may come after the Ready condition, and during a call.
Approve ==
    /\ ~HasType(status, "Approved")
    /\ Stores([status EXCEPT !.conditions = Append(@, Approval)])
    /\ call' = [call EXCEPT !.conflict = call.pc # "idle"]
    /\ UNCHANGED <<tasks, issuer, settings>>

EditIssuer ==
    /\ Cardinality(settings) <= MaxEdits
    /\ issuer' \in Specs \ settings
    /\ settings' = settings \cup {issuer'}
    /\ UNCHANGED <<status, behind, call, tasks>>

Progress(t) ==
    /\ tasks[t] \in {"PROCESSING", "APPROVED"}
    /\ \E s \in TaskStates \ {"PROCESSING", tasks[t]} : tasks' = [tasks EXCEPT ![t] = s]
    /\ UNCHANGED <<status, behind, call, issuer, settings>>

\* The watch brings the cache one version on.
Deliver ==
    /\ behind # <<>>
    /\ behind' = Tail(behind)
    /\ UNCHANGED <<status, call, tasks, issuer, settings>>

-----------------------------------------------------------------------------
(* Reconcile up to the call about the task.                                  *)

\* The early returns were passed with what the cache holds, which may be old.
Reads(pc, url, copy, spec) ==
    /\ call.pc = "idle"
    /\ call' = [pc |-> pc, url |-> url, copy |-> copy, conflict |-> behind # <<>>, spec |-> spec]
    /\ UNCHANGED <<status, behind, tasks, issuer, settings>>

Initialise ==
    /\ ~HasType(Cached, "Ready")
    /\ Reads("update", NoURL, Report(Cached, "Pending", "other", NoURL), NoCall.spec)

\* Each call of Reconcile asks for an access token first.
RequestToken ==
    /\ HasType(Cached, "Ready")
    /\ ~DecidedIn(Cached)
    /\ \E spec \in settings : Reads("http", At(spec.address, "token", 0), Cached, spec)

\* An answer comes only from where somebody listens.
Answer(of) ==
    /\ call.pc = "http"
    /\ call.url.resource.of = of
    /\ call.url.address \in Addresses
    /\ UNCHANGED <<status, behind, issuer, settings>>

\* Mutation: a task that is signed is not recognised.
DestinationIfSubmitted ==
    LET submitted == GetSubmittedCondition(call.copy.conditions) IN
    IF submitted # 0 THEN call.copy.conditions[submitted].url
    ELSE At(call.spec.address, "request", 0)

\* Where the next call goes: to the URL in the message, when it has one.
Destination ==
    LET signed == GetSignedCondition(call.copy.conditions)
        submitted == GetSubmittedCondition(call.copy.conditions) IN
    IF signed # 0 THEN call.copy.conditions[signed].url
    ELSE IF submitted # 0 THEN call.copy.conditions[submitted].url
    ELSE At(call.spec.address, "request", 0)

GetRefreshToken ==
    /\ Answer("token")
    /\ call' = [call EXCEPT !.url = Destination]
    /\ UNCHANGED tasks

-----------------------------------------------------------------------------
(* The answers to the calls about the task.                                  *)

Returns(copy) == call' = [call EXCEPT !.pc = "update", !.copy = copy]
Reports(reason, text, url) == Returns(Report(call.copy, reason, text, url))
ReportsNothing == Returns(call.copy)

\* The deferred status update; the API server refuses that of an old version.
UpdateStatus ==
    /\ call.pc = "update"
    /\ Stores(IF call.conflict THEN status ELSE call.copy)
    /\ call' = NoCall
    /\ UNCHANGED <<tasks, issuer, settings>>

\* No answer, an error code, a token denied, an answer that cannot be read or
\* lacks what is needed (a panic, where the certificate is missing), a status
\* update that fails, a restart.
CallFails ==
    /\ call.pc # "idle"
    /\ call' = NoCall
    /\ UNCHANGED <<status, behind, tasks, issuer, settings>>

\* essendi XC takes a task; its answer may lack the Location.
SubmitCertificateRequest ==
    /\ Answer("request")
    /\ Len(tasks) < MaxTasks
    /\ tasks' = Append(tasks, "PROCESSING")
    /\ \/ ReportsNothing
       \/ Reports("Pending", "submitted",
                  Rewrite(At(Backend, "task", Len(tasks) + 1), call.spec))

\* body: a JSON object of strings, another JSON value, or no JSON at all.
PollReplies(t) ==
    {[code |-> IF tasks[t] = "ISSUED" THEN 303 ELSE 200, body |-> body, status |-> tasks[t],
      location |-> tasks[t] = "ISSUED" /\ located] :
        body \in {"strings", "other", "text"}, located \in BOOLEAN}
    \cup {[code |-> code, body |-> "strings", status |-> tasks[t], location |-> FALSE] :
        code \in {200, 500}}

\* A map of strings is read from the body; when that fails, there is no status.
Status(reply) == IF reply.body = "strings" THEN reply.status ELSE ""

\* The address of the certificate, and the status of the task.
RequestTaskStatus(reply) ==
    IF reply.code # 303 THEN [resource |-> NoURL, status |-> Status(reply)]
    ELSE IF ~reply.location THEN [resource |-> NoURL, status |-> ""]
    ELSE [resource |-> Rewrite(At(Backend, "certificate", call.url.resource.task), call.spec),
          status |-> Status(reply)]

\* Mutation: whatever is not pending is taken for rejected.
RejectedUnlessPending(reply) ==
    LET result == RequestTaskStatus(reply) IN
    /\ \/ /\ result.resource # NoURL
          /\ Reports("Pending", "signed", result.resource)
       \/ /\ result.resource = NoURL
          /\ IF result.status \in {"PROCESSING", "APPROVED"} THEN ReportsNothing
             ELSE Reports("Failed", "other", NoURL)
    /\ UNCHANGED tasks

PollAnswered(reply) ==
    LET result == RequestTaskStatus(reply)
        news == CASE result.status = "PROCESSING" -> "processing"
                  [] result.status = "APPROVED" -> "approved"
                  [] OTHER -> "none" IN
    /\ \/ /\ result.resource # NoURL
          /\ Reports("Pending", "signed", result.resource)
       \/ /\ result.resource = NoURL
          /\ result.status \in RejectedStates
          /\ Reports("Failed", "other", NoURL)
       \/ /\ result.resource = NoURL
          /\ result.status \notin RejectedStates
          /\ IF news = "none" \/ Shows(call.copy.conditions, news) THEN ReportsNothing
             ELSE Reports("Pending", news, call.url)
    /\ UNCHANGED tasks

Poll ==
    /\ Answer("task")
    /\ \E reply \in PollReplies(call.url.resource.task) : PollAnswered(reply)

\* An answer with everything in it.
PollUseful ==
    /\ Answer("task")
    /\ \E reply \in PollReplies(call.url.resource.task) :
          /\ reply.body = "strings"
          /\ reply.status = "ISSUED" => reply.location
          /\ PollAnswered(reply)

\* Mutation: the search goes on after a root was found.
LastRoot(bundle) ==
    LET roots == {i \in DOMAIN bundle : bundle[i] = "root"} IN
    IF roots = {} THEN 0 ELSE Max(roots)

\* Blocks that are no certificates, or cannot be parsed, are passed over.
ExtractCA(bundle) ==
    LET roots == {i \in DOMAIN bundle : bundle[i] = "root"} IN
    IF roots = {} THEN 0 ELSE Min(roots)

FetchCertificate ==
    /\ Answer("certificate")
    /\ \E bundle \in Bundles :
          Returns([Report(call.copy, "Issued", "other", NoURL) EXCEPT
                     !.certificate = [task |-> call.url.resource.task, bundle |-> bundle],
                     !.ca = IF ExtractCA(bundle) # 0 THEN ExtractCA(bundle) ELSE @])
    /\ UNCHANGED tasks

-----------------------------------------------------------------------------
CallGoesOn ==
    \/ GetRefreshToken \/ SubmitCertificateRequest \/ Poll \/ FetchCertificate
    \/ UpdateStatus \/ CallFails

Next ==
    \/ Approve \/ EditIssuer \/ Deliver
    \/ \E t \in DOMAIN tasks : Progress(t)
    \/ Initialise \/ RequestToken \/ CallGoesOn

Spec == Init /\ [][Next]_vars

(***************************************************************************)
(* Fairness.  Reconcile is called again after each failure, and the watch    *)
(* goes on.  Each kind of call may fail any number of times, but not every   *)
(* time; essendi XC ends each task.                                          *)
(***************************************************************************)
Fairness ==
    /\ WF_vars(Deliver)
    /\ WF_vars(Initialise)
    /\ WF_vars(RequestToken)
    /\ WF_vars(CallGoesOn)
    /\ SF_vars(GetRefreshToken)
    /\ SF_vars(PollUseful)
    /\ SF_vars(FetchCertificate)
    /\ SF_vars(call.copy # status /\ ~call.conflict /\ UpdateStatus)
    /\ \A t \in 1 .. MaxTasks : WF_vars(t \in DOMAIN tasks /\ Progress(t))

FairSpec == Spec /\ Fairness

-----------------------------------------------------------------------------
(* Properties.                                                               *)

\* The status, stored or in hand, is well formed, with each condition at most once.
StatusOK(st) ==
    /\ st \in [conditions : Seq(Condition), ca : Nat,
               certificate : [task : 0 .. MaxTasks, bundle : Bundles \cup {<<>>}]]
    /\ \A i, j \in DOMAIN st.conditions :
          st.conditions[i].type = st.conditions[j].type => i = j

TypeOK ==
    /\ StatusOK(status) /\ StatusOK(call.copy)
    /\ DOMAIN behind = 1 .. Len(behind)
    /\ \A i \in DOMAIN behind : StatusOK(behind[i])
    /\ call.pc \in {"idle", "http", "update"} /\ call.url \in URL
    /\ call.conflict \in BOOLEAN
    /\ call.spec \in Specs \cup {NoCall.spec}
    /\ tasks \in Seq(TaskStates)
    /\ issuer \in settings /\ settings \subseteq Specs

\* The task whose URL the scan over all conditions finds.
RecordedIn(st) ==
    LET signed == GetSignedCondition(st.conditions)
        submitted == GetSubmittedCondition(st.conditions) IN
    IF signed # 0 THEN st.conditions[signed].url.resource.task
    ELSE IF submitted # 0 THEN st.conditions[submitted].url.resource.task ELSE 0

Recorded == RecordedIn(status)

\* From one message to the next, with conditions of others between them, the
\* request follows the task whose URL was stored first, and that decides it.
OneTaskIsFollowed ==
    [][Recorded # 0 => \/ Recorded' = Recorded
                       \/ Decided' /\ status'.certificate.task \in {0, Recorded}]_vars

\* A second task is placed while one is recorded, in whatever message of whichever
\* condition, or after the request was decided, only by a call that read an older
\* status in its cache, so that its update will be refused.
SecondTaskIsRefused ==
    [][Len(tasks') > Len(tasks) /\ (Recorded # 0 \/ Decided) => call.conflict]_vars

\* Calls go to an address the issuer has named, or to one that essendi XC named
\* and a setting of the issuer let pass: also those to a stored URL, which an edit
\* of the issuer does not redirect.
CallsGoWhereTheIssuerSaid ==
    call.pc = "http" =>
        \/ call.url.address \in {s.address : s \in settings}
        \/ call.url.address = Backend /\ \E s \in settings : ~s.ignoreHost

\* What is stored as Issued is the certificate of a task that was issued, and
\* status.ca the first root that came with it, the others being passed over.
IssuedWithItsRoot ==
    LET task == status.certificate.task
        bundle == status.certificate.bundle IN
    /\ task # 0 <=> HasReason(status, "Issued")
    /\ task # 0 =>
          /\ tasks[task] = "ISSUED"
          /\ status.ca = 0 <=> \A i \in DOMAIN bundle : bundle[i] # "root"
          /\ status.ca # 0 => /\ bundle[status.ca] = "root"
                              /\ \A i \in 1 .. status.ca - 1 : bundle[i] # "root"

\* "if set to true, the issuer will ignore the host in the API response. This is
\* useful when using a load balancer or reverse proxy" (README.md:48): with the
\* setting on, a request whose task is recorded is decided, though no URL that
\* essendi XC names can be reached.
WorksBehindProxy ==
    [](issuer.ignoreHost) => (Recorded # 0 ~> Decided)

\* The stage of the request's life that a status tells of.
StageIn(st) ==
    IF st.certificate.task # 0 THEN "issued"
    ELSE IF DecidedIn(st) THEN "failed"
    ELSE IF GetSignedCondition(st.conditions) # 0 THEN "signed"
    ELSE IF GetSubmittedCondition(st.conditions) # 0 THEN "ordered"
    ELSE "undecided"

Told(st) == [approval |-> "none", stage |-> StageIn(st), order |-> RecordedIn(st),
             certificate |-> st.certificate.task]

Life == [c \in {"request"} |-> Told(status)]
Taken == [t \in DOMAIN tasks |-> [cr |-> "request", state |-> tasks[t]]]

\* The exchange is one of those the request controller's model allows.
Lifecycle == INSTANCE CertificateRequestLifecycle WITH
    Requests <- {"request"},
    IssuerRef <- [c \in {"request"} |-> "Issuer"],
    CheckApprovedCondition <- FALSE,
    RefusalText <- FALSE,
    orders <- Taken,
    request <- Life

ImplementsLifecycle == Lifecycle!Spec

=============================================================================
