--------------------------- MODULE DataProtection ---------------------------
(***************************************************************************)
(* The data-protection practice of examples/use_cases: a world whose @action *)
(* methods take an engagement from pitch to contract, and privacy          *)
(* policies, data subjects, requests and breaches through their lives.     *)
(*                                                                         *)
(* World shows that a call takes effect whole or not at all, so here one   *)
(* call is one step: show_when and the body's own checks are its guard,    *)
(* and a call that raises (unknown id, wrong status) is no step, every     *)
(* body raising before it assigns.  A uuid is the record's position; dates *)
(* are kept as whether they are set, the one a caller passes as whether it *)
(* has a time zone; texts are left out.                                    *)
(***************************************************************************)
EXTENDS Naturals, Sequences

CONSTANTS Emails,      \* e-mail addresses of individuals
          Versions,    \* version strings of privacy policies
          MaxRecords   \* bound: policies, subjects, requests and breaches in all

ASSUME MaxRecordsNat == MaxRecords \in Nat

VARIABLES status,      \* EngagementStatus
          client,      \* a Client is on record
          contract,    \* a Contract is on record
          policies,    \* privacy_policies
          subjects,    \* data_subjects
          requests,    \* data_subject_requests
          breaches     \* data_breaches

engagement == <<status, client, contract>>
vars == <<status, client, contract, policies, subjects, requests, breaches>>

-----------------------------------------------------------------------------
(* The models of models.py, their defaults, and the look-ups.              *)

Policy == [version : Versions, status : {"draft", "approved", "published"}]
Subject == [email : Emails, erased : BOOLEAN]
Unregistered == 0        \* the subject_id of a request no subject matches
Open == {"submitted", "in_progress"}
Closed == {"completed", "refused"}
Request == [subject : Nat, email : Emails, type : {"erasure", "access"},
            status : Open \cup Closed, deleted : BOOLEAN]
Severity == {"low", "medium", "high"}
Breach == [severity : Severity \cup {"none"}, notifiable : BOOLEAN,
           status : {"reported", "assessed", "ico_notified",
                     "subjects_notified", "resolved"},
           ico : BOOLEAN, told : BOOLEAN,
           aware : BOOLEAN]    \* discovered_at has a time zone

\* next((x for x in seq if P(x)), None): the first position, 0 for None.
First(S) == IF S = {} THEN 0 ELSE CHOOSE i \in S : \A j \in S : i <= j

\* Mutant: the newest draft of the version is taken.
_get_policy_Last(v) ==
    LET found == {i \in DOMAIN policies : policies[i].version = v}
    IN  IF found = {} THEN 0 ELSE CHOOSE i \in found : \A j \in found : i >= j

_get_policy(v) == First({i \in DOMAIN policies : policies[i].version = v})

SubjectOf(e) == First({i \in DOMAIN subjects : subjects[i].email = e})

\* b.is_notifiable and b.ico_notified_at is None
IcoDue(b) == b.notifiable /\ ~b.ico
\* b.severity == HIGH and b.subjects_notified_at is None
SubjectsDue(b) == b.severity = "high" /\ ~b.told

Room == Len(policies) + Len(subjects) + Len(requests) + Len(breaches) < MaxRecords

-----------------------------------------------------------------------------
(* Phase 1: engagement.                                                    *)

Init ==
    /\ status = "pitch"
    /\ client = FALSE
    /\ contract = FALSE
    /\ policies = <<>>
    /\ subjects = <<>>
    /\ requests = <<>>
    /\ breaches = <<>>

submit_pitch ==
    /\ status = "pitch"
    /\ client' = TRUE
    /\ status' = "pitch"
    /\ UNCHANGED <<contract, policies, subjects, requests, breaches>>

\* Mutant: the check for a client on record is left to show_when.
win_pitch_NoClient ==
    /\ status = "pitch"
    /\ contract' = TRUE
    /\ status' = "contracted"
    /\ UNCHANGED <<client, policies, subjects, requests, breaches>>

win_pitch ==
    /\ status = "pitch"
    /\ client
    /\ contract' = TRUE
    /\ status' = "contracted"
    /\ UNCHANGED <<client, policies, subjects, requests, breaches>>

lose_pitch ==
    /\ status = "pitch"
    /\ status' = "closed"
    /\ UNCHANGED <<client, contract, policies, subjects, requests, breaches>>

(* Phase 2: privacy policies.                                              *)

draft_privacy_policy(v) ==
    /\ status = "contracted"
    /\ Room
    /\ policies' = Append(policies, [version |-> v, status |-> "draft"])
    /\ UNCHANGED <<engagement, subjects, requests, breaches>>

\* No show_when: the body's own checks are the only guard.
approve_privacy_policy(v) ==
    LET p == _get_policy(v) IN
    /\ p # 0
    /\ policies[p].status = "draft"
    /\ policies' = [policies EXCEPT ![p].status = "approved"]
    /\ UNCHANGED <<engagement, subjects, requests, breaches>>

publish_privacy_policy(v) ==
    LET p == _get_policy(v) IN
    /\ p # 0
    /\ policies[p].status = "approved"
    /\ policies' = [policies EXCEPT ![p].status = "published"]
    /\ UNCHANGED <<engagement, subjects, requests, breaches>>

(* Phases 3 and 4: data subjects and their requests.                       *)

\* An address may be registered again; nothing compares it with the others.
register_data_subject(e) ==
    /\ status = "contracted"
    /\ Room
    /\ subjects' = Append(subjects, [email |-> e, erased |-> FALSE])
    /\ UNCHANGED <<engagement, policies, requests, breaches>>

submit_dsr(e, t) ==
    /\ status = "contracted"
    /\ Room
    /\ requests' = Append(requests,
           [subject |-> SubjectOf(e), email |-> e, type |-> t,
            status |-> "submitted", deleted |-> FALSE])
    /\ UNCHANGED <<engagement, policies, subjects, breaches>>

\* Mutant: the request's own status is left to show_when.
acknowledge_dsr_AnyStatus(r) ==
    /\ \E q \in DOMAIN requests : requests[q].status = "submitted"
    /\ r \in DOMAIN requests
    /\ requests' = [requests EXCEPT ![r].status = "in_progress"]
    /\ UNCHANGED <<engagement, policies, subjects, breaches>>

\* show_when asks for SOME submitted request, the body for this one.
acknowledge_dsr(r) ==
    /\ \E q \in DOMAIN requests : requests[q].status = "submitted"
    /\ r \in DOMAIN requests
    /\ requests[r].status = "submitted"
    /\ requests' = [requests EXCEPT ![r].status = "in_progress"]
    /\ UNCHANGED <<engagement, policies, subjects, breaches>>

\* Mutant: data deleted for a request of any type erases the subject.
complete_dsr_AnyType(r, data_deleted) ==
    /\ \E q \in DOMAIN requests : requests[q].status \in Open
    /\ r \in DOMAIN requests
    /\ requests[r].status \in Open
    /\ requests' = [requests EXCEPT ![r].status = "completed",
                                    ![r].deleted = data_deleted]
    /\ subjects' = IF data_deleted /\ requests[r].subject \in DOMAIN subjects
                   THEN [subjects EXCEPT ![requests[r].subject].erased = TRUE]
                   ELSE subjects
    /\ UNCHANGED <<engagement, policies, breaches>>

complete_dsr(r, data_deleted) ==
    /\ \E q \in DOMAIN requests : requests[q].status \in Open
    /\ r \in DOMAIN requests
    /\ requests[r].status \in Open
    /\ requests' = [requests EXCEPT ![r].status = "completed",
                                    ![r].deleted = data_deleted]
    /\ subjects' = IF /\ data_deleted
                      /\ requests[r].type = "erasure"
                      /\ requests[r].subject \in DOMAIN subjects
                   THEN [subjects EXCEPT ![requests[r].subject].erased = TRUE]
                   ELSE subjects
    /\ UNCHANGED <<engagement, policies, breaches>>

\* Some open request shows the action; the body refuses whichever is named.
refuse_dsr(r) ==
    /\ \E q \in DOMAIN requests : requests[q].status \in Open
    /\ r \in DOMAIN requests
    /\ requests' = [requests EXCEPT ![r].status = "refused"]
    /\ UNCHANGED <<engagement, policies, subjects, breaches>>

(* Phase 5: breaches.                                                      *)

report_breach(aware) ==
    /\ status = "contracted"
    /\ Room
    /\ breaches' = Append(breaches,
           [severity |-> "none", notifiable |-> FALSE, status |-> "reported",
            ico |-> FALSE, told |-> FALSE, aware |-> aware])
    /\ UNCHANGED <<engagement, policies, subjects, requests>>

\* Mutant: the verdict is recorded, the status is not advanced.
assess_breach_NoStatus(b, severity, notifiable) ==
    /\ \E c \in DOMAIN breaches : breaches[c].status = "reported"
    /\ b \in DOMAIN breaches
    /\ breaches' = [breaches EXCEPT
           ![b].severity = severity, ![b].notifiable = notifiable]
    /\ UNCHANGED <<engagement, policies, subjects, requests>>

\* Some reported breach shows the action; the body assesses whichever is named,
\* an assessed or resolved one too.
assess_breach(b, severity, notifiable) ==
    /\ \E c \in DOMAIN breaches : breaches[c].status = "reported"
    /\ b \in DOMAIN breaches
    /\ breaches' = [breaches EXCEPT
           ![b].severity = severity, ![b].notifiable = notifiable,
           ![b].status = "assessed"]
    /\ UNCHANGED <<engagement, policies, subjects, requests>>

\* The hours since the discovery are taken from the time of day in UTC: with
\* a discovered_at that has no time zone the subtraction raises.
notify_ico(b) ==
    /\ \E c \in DOMAIN breaches : IcoDue(breaches[c])
    /\ b \in DOMAIN breaches
    /\ breaches[b].status # "reported"
    /\ breaches[b].aware
    /\ breaches' = [breaches EXCEPT ![b].ico = TRUE, ![b].status = "ico_notified"]
    /\ UNCHANGED <<engagement, policies, subjects, requests>>

\* Mutant: show_when alone decides that the severity is high.
notify_affected_subjects_AnySeverity(b) ==
    /\ \E c \in DOMAIN breaches : SubjectsDue(breaches[c])
    /\ b \in DOMAIN breaches
    /\ breaches' = [breaches EXCEPT ![b].told = TRUE,
                                    ![b].status = "subjects_notified"]
    /\ UNCHANGED <<engagement, policies, subjects, requests>>

notify_affected_subjects(b) ==
    /\ \E c \in DOMAIN breaches : SubjectsDue(breaches[c])
    /\ b \in DOMAIN breaches
    /\ breaches[b].severity = "high"
    /\ breaches' = [breaches EXCEPT ![b].told = TRUE,
                                    ![b].status = "subjects_notified"]
    /\ UNCHANGED <<engagement, policies, subjects, requests>>

\* Of what the law asks for, only the ICO's notification is looked at.
resolve_breach(b) ==
    /\ \E c \in DOMAIN breaches : breaches[c].status # "resolved"
    /\ b \in DOMAIN breaches
    /\ ~IcoDue(breaches[b])
    /\ breaches' = [breaches EXCEPT ![b].status = "resolved"]
    /\ UNCHANGED <<engagement, policies, subjects, requests>>

-----------------------------------------------------------------------------
Engagement == submit_pitch \/ win_pitch \/ lose_pitch

Policies == \E v \in Versions : \/ draft_privacy_policy(v)
                                \/ approve_privacy_policy(v)
                                \/ publish_privacy_policy(v)

Individuals ==
    \/ \E e \in Emails : \/ register_data_subject(e)
                         \/ \E t \in {"erasure", "access"} : submit_dsr(e, t)
    \/ \E r \in DOMAIN requests :
          \/ acknowledge_dsr(r)
          \/ \E d \in BOOLEAN : complete_dsr(r, d)
          \/ refuse_dsr(r)

Breaches ==
    \/ \E aware \in BOOLEAN : report_breach(aware)
    \/ \E b \in DOMAIN breaches :
          \/ \E s \in Severity, n \in BOOLEAN : assess_breach(b, s, n)
          \/ notify_ico(b)
          \/ notify_affected_subjects(b)
          \/ resolve_breach(b)

Next == Engagement \/ Policies \/ Individuals \/ Breaches

Spec == Init /\ [][Next]_vars

-----------------------------------------------------------------------------
(* Correctness.                                                            *)

\* Every record has its fields' types, and nothing is on record for a client
\* who is not contracted, so a lost pitch leaves no action to call.
TypeOK ==
    /\ status \in {"pitch", "contracted", "closed"}
    /\ client \in BOOLEAN
    /\ contract = (status = "contracted")
    /\ contract => client
    /\ policies \in Seq(Policy)
    /\ subjects \in Seq(Subject)
    /\ requests \in Seq(Request)
    /\ breaches \in Seq(Breach)
    /\ policies \o subjects \o requests \o breaches # <<>> => contract

\* "Multiple draft versions may exist simultaneously": of the policies drafted
\* under one version string only the first can ever be approved or published,
\* so no two texts of a version are in force.
OneTextPerVersion ==
    \A i, j \in DOMAIN policies :
        i < j /\ policies[i].version = policies[j].version
          => policies[j].status = "draft"

\* "The corresponding DataSubject record is automatically marked as erased": a
\* subject is erased exactly when an erasure request bound to it was completed
\* with its data deleted, whatever was refused, registered again or asked for
\* since, and only the first record of an address is ever bound.
ErasureTraceable ==
    \A i \in DOMAIN subjects :
        /\ subjects[i].erased <=>
             \E r \in DOMAIN requests :
                 /\ requests[r].subject = i
                 /\ requests[r].type = "erasure"
                 /\ requests[r].deleted
                 /\ requests[r].status \in Closed
        /\ subjects[i].erased => SubjectOf(subjects[i].email) = i

\* A breach's status agrees with the dates beside it, although three actions
\* overwrite it in any order: untouched while reported, never assessed without
\* a severity, no notification named that was not made, and never resolved while
\* the ICO is to be notified, though resolved breaches may be assessed again.
StatusTruthful ==
    \A i \in DOMAIN breaches : LET b == breaches[i] IN
        /\ b.status = "reported" => b.severity = "none" /\ ~b.ico /\ ~b.told
        /\ b.status = "assessed" => b.severity # "none"
        /\ b.status = "ico_notified" => b.ico
        /\ b.status = "subjects_notified" => b.told /\ b.severity = "high"
        /\ b.status = "resolved" => ~IcoDue(b)
        /\ b.told => b.severity # "none"

\* No gate hides an action from the record that is due for it: who owes a
\* notification can make it, whatever was resolved or assessed again meanwhile;
\* every open request can be completed.  Only a breach whose discovery has no
\* time zone, which report_breach accepts, can never be notified to the ICO
\* (nor, by StatusTruthful, resolved, unless assessed again as not notifiable).
DutiesCanBeMet ==
    /\ \A b \in DOMAIN breaches :
          /\ IcoDue(breaches[b]) => (ENABLED notify_ico(b) <=> breaches[b].aware)
          /\ SubjectsDue(breaches[b]) => ENABLED notify_affected_subjects(b)
    /\ \A r \in DOMAIN requests :
          requests[r].status \in Open => ENABLED complete_dsr(r, TRUE)

\* A request that was closed is never open again, though it may turn from
\* completed to refused.
ClosedForGood ==
    [][\A r \in DOMAIN requests :
         requests[r].status \in Closed => requests'[r].status \in Closed]_vars
=============================================================================
