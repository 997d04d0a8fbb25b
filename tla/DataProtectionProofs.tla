------------------------ MODULE DataProtectionProofs ------------------------
(* Proofs about DataProtection, for any addresses, versions and bound.     *)
EXTENDS DataProtection, SequenceTheorems, WellFoundedInduction, TLAPS

-----------------------------------------------------------------------------
(* Look-ups and the two ways a table changes.                              *)

\* A set of positions that is not empty has a least one.
LEMMA LeastExists ==
    ASSUME NEW S, S \subseteq Nat, S # {}
    PROVE  \E m \in S : \A k \in S : m <= k
<1> DEFINE R == OpToRel(<, Nat)
<1>1. IsWellFoundedOn(R, Nat)
  BY NatLessThanWellFounded
<1>2. \A x, y \in Nat : <<y, x>> \in R <=> y < x
  BY DEF OpToRel
<1> HIDE DEF R
<1>3. PICK m \in S : \A k \in S : ~ (<<k, m>> \in R)
  BY <1>1, WFMin
<1>4. ASSUME NEW k \in S PROVE m <= k
  <2>1. k \in Nat /\ m \in Nat
    OBVIOUS
  <2>2. ~ (k < m)
    BY <1>2, <1>3, <2>1
  <2> QED
    BY <2>1, <2>2
<1> QED
  BY <1>4

\* A look-up finds the first record that fits, and 0 only when none does.
LEMMA FirstIsLeast ==
    ASSUME NEW S, S \subseteq Nat \ {0}
    PROVE  /\ First(S) # 0 => First(S) \in S /\ \A k \in S : First(S) <= k
           /\ First(S) = 0 <=> S = {}
<1>1. CASE S = {}
  BY <1>1 DEF First
<1>2. CASE S # {}
  <2>1. \E m \in S : \A k \in S : m <= k
    BY <1>2, LeastExists
  <2>2. First(S) = CHOOSE m \in S : \A k \in S : m <= k
    BY <1>2 DEF First
  <2>3. First(S) \in S /\ \A k \in S : First(S) <= k
    BY <2>1, <2>2
  <2> QED
    BY <1>2, <2>3
<1> QED
  BY <1>1, <1>2

\* A record appended leaves the others as they are.
LEMMA Added ==
    ASSUME NEW S, NEW s \in Seq(S), NEW x \in S, NEW t, t = Append(s, x)
    PROVE  /\ t \in Seq(S) /\ t # <<>>
           /\ Len(s) \in Nat /\ Len(t) = Len(s) + 1
           /\ DOMAIN s = 1..Len(s) /\ DOMAIN t = 1..Len(t)
           /\ t[Len(t)] = x /\ \A i \in 1..Len(s) : t[i] = s[i]
  BY AppendProperties, LenProperties

\* Table t is table s with x for its record k.
Put(s, k, x, t) ==
    /\ Len(s) \in Nat /\ Len(t) = Len(s) /\ s # <<>>
    /\ DOMAIN s = 1..Len(s) /\ DOMAIN t = DOMAIN s /\ k \in DOMAIN s
    /\ t[k] = x
    /\ \A i \in DOMAIN s : i # k => t[i] = s[i]

LEMMA Replaced ==
    ASSUME NEW S, NEW s \in Seq(S), NEW k \in DOMAIN s, NEW x \in S,
           NEW t, t = [s EXCEPT ![k] = x]
    PROVE  t \in Seq(S) /\ Put(s, k, x, t)
<1>1. DOMAIN s = 1..Len(s) /\ Len(s) \in Nat /\ k \in 1..Len(s)
  BY LenProperties
<1>2. t \in Seq(S) /\ Len(t) = Len(s)
  BY <1>1, ExceptSeq
<1>3. DOMAIN t = 1..Len(t)
  BY <1>2, LenProperties
<1> QED
  BY <1>1, <1>2, <1>3, EmptySeq DEF Put

\* Changing a record twice is changing it once.
LEMMA ReplacedAgain ==
    ASSUME NEW s, NEW k, NEW x, NEW t, NEW y, NEW u, Put(s, k, x, t), Put(t, k, y, u)
    PROVE  Put(s, k, y, u)
  BY DEF Put

\* Nothing is on record exactly when each table is empty.
LEMMA NothingOnRecord ==
    ASSUME NEW p \in Seq(Policy), NEW s \in Seq(Subject),
           NEW r \in Seq(Request), NEW b \in Seq(Breach)
    PROVE  p \o s \o r \o b = <<>> <=> p = <<>> /\ s = <<>> /\ r = <<>> /\ b = <<>>
<1> DEFINE U == Policy \cup Subject \cup Request \cup Breach
<1>1. p \in Seq(U) /\ s \in Seq(U) /\ r \in Seq(U) /\ b \in Seq(U)
  BY SeqMonotonic
<1> HIDE DEF U
<1>2. p \o s \in Seq(U) /\ (p \o s) \o r \in Seq(U)
  BY <1>1, ConcatProperties
<1> QED
  BY <1>1, <1>2, ConcatEqualIffEmpty

\* One field of a record set.
LEMMA PolicySet ==
    ASSUME NEW s \in Seq(Policy), NEW k \in DOMAIN s,
           NEW v \in {"draft", "approved", "published"},
           NEW t, t = [s EXCEPT ![k].status = v]
    PROVE  t \in Seq(Policy) /\ Put(s, k, [version |-> s[k].version, status |-> v], t)
<1> DEFINE x == [version |-> s[k].version, status |-> v]
<1>1. s[k] \in Policy
  BY LenProperties, ElementOfSeq
<1>2. [s[k] EXCEPT !.status = v] = x /\ x \in Policy
  BY <1>1 DEF Policy
<1>3. t = [s EXCEPT ![k] = x]
  BY <1>2
<1> QED
  BY <1>2, <1>3, Replaced

LEMMA ErasedSet ==
    ASSUME NEW s \in Seq(Subject), NEW k \in DOMAIN s, NEW d \in BOOLEAN,
           NEW t, t = [s EXCEPT ![k].erased = d]
    PROVE  t \in Seq(Subject) /\ Put(s, k, [email |-> s[k].email, erased |-> d], t)
<1> DEFINE x == [email |-> s[k].email, erased |-> d]
<1>1. s[k] \in Subject
  BY LenProperties, ElementOfSeq
<1>2. [s[k] EXCEPT !.erased = d] = x /\ x \in Subject
  BY <1>1 DEF Subject
<1>3. t = [s EXCEPT ![k] = x]
  BY <1>2
<1> QED
  BY <1>2, <1>3, Replaced

\* A request of which status and deleted are set.
Turned(q, v, d) == [subject |-> q.subject, email |-> q.email, type |-> q.type,
                    status |-> v, deleted |-> d]

LEMMA RequestStatusSet ==
    ASSUME NEW s \in Seq(Request), NEW k \in DOMAIN s, NEW v \in Open \cup Closed,
           NEW t, t = [s EXCEPT ![k].status = v]
    PROVE  t \in Seq(Request) /\ Put(s, k, Turned(s[k], v, s[k].deleted), t)
<1> DEFINE x == Turned(s[k], v, s[k].deleted)
<1>1. s[k] \in Request
  BY LenProperties, ElementOfSeq
<1>2. [s[k] EXCEPT !.status = v] = x /\ x \in Request
  BY <1>1 DEF Request, Turned
<1> HIDE DEF x
<1>3. t = [s EXCEPT ![k] = x]
  BY <1>2
<1>4. t \in Seq(Request) /\ Put(s, k, x, t)
  BY <1>2, <1>3, Replaced
<1> QED
  BY <1>4 DEF x

LEMMA RequestDeletedSet ==
    ASSUME NEW s \in Seq(Request), NEW k \in DOMAIN s, NEW d \in BOOLEAN,
           NEW t, t = [s EXCEPT ![k].deleted = d]
    PROVE  t \in Seq(Request) /\ Put(s, k, Turned(s[k], s[k].status, d), t)
<1> DEFINE x == Turned(s[k], s[k].status, d)
<1>1. s[k] \in Request
  BY LenProperties, ElementOfSeq
<1>2. [s[k] EXCEPT !.deleted = d] = x /\ x \in Request
  BY <1>1 DEF Request, Turned
<1> HIDE DEF x
<1>3. t = [s EXCEPT ![k] = x]
  BY <1>2
<1>4. t \in Seq(Request) /\ Put(s, k, x, t)
  BY <1>2, <1>3, Replaced
<1> QED
  BY <1>4 DEF x

LEMMA RequestSet ==
    ASSUME NEW s \in Seq(Request), NEW k \in DOMAIN s, NEW v \in Open \cup Closed,
           NEW d \in BOOLEAN,
           NEW t, t = [s EXCEPT ![k].status = v, ![k].deleted = d]
    PROVE  t \in Seq(Request) /\ Put(s, k, Turned(s[k], v, d), t)
<1> DEFINE u == [s EXCEPT ![k].status = v]
<1>1. t = [u EXCEPT ![k].deleted = d]
  OBVIOUS
<1>2. u \in Seq(Request) /\ Put(s, k, Turned(s[k], v, s[k].deleted), u)
  BY RequestStatusSet
<1> HIDE DEF u
<1>3. k \in DOMAIN u /\ u[k] = Turned(s[k], v, s[k].deleted)
  BY <1>2 DEF Put
<1>4. t \in Seq(Request) /\ Put(u, k, Turned(u[k], u[k].status, d), t)
  BY <1>1, <1>2, <1>3, RequestDeletedSet
<1>5. Turned(u[k], u[k].status, d) = Turned(s[k], v, d)
  BY <1>3 DEF Turned
<1> QED
  BY <1>2, <1>4, <1>5, ReplacedAgain

\* A breach with the severity, verdict, status and dates given, and as reported.
Case(v, n, st, i, t, a) ==
    [severity |-> v, notifiable |-> n, status |-> st, ico |-> i, told |-> t,
     aware |-> a]
Reported(a) == Case("none", FALSE, "reported", FALSE, FALSE, a)

Status == {"reported", "assessed", "ico_notified", "subjects_notified", "resolved"}

LEMMA BreachStatusSet ==
    ASSUME NEW s \in Seq(Breach), NEW k \in DOMAIN s, NEW v \in Status,
           NEW t, t = [s EXCEPT ![k].status = v]
    PROVE  /\ t \in Seq(Breach)
           /\ Put(s, k, Case(s[k].severity, s[k].notifiable, v, s[k].ico, s[k].told,
                             s[k].aware), t)
<1> DEFINE x == Case(s[k].severity, s[k].notifiable, v, s[k].ico, s[k].told, s[k].aware)
<1>1. s[k] \in Breach
  BY LenProperties, ElementOfSeq
<1>2. [s[k] EXCEPT !.status = v] = x /\ x \in Breach
  BY <1>1 DEF Breach, Case, Status
<1> HIDE DEF x
<1>3. t = [s EXCEPT ![k] = x]
  BY <1>2
<1>4. t \in Seq(Breach) /\ Put(s, k, x, t)
  BY <1>2, <1>3, Replaced
<1> QED
  BY <1>4 DEF x

LEMMA BreachAssessed ==
    ASSUME NEW s \in Seq(Breach), NEW k \in DOMAIN s,
           NEW v \in Severity, NEW n \in BOOLEAN,
           NEW t, t = [s EXCEPT ![k].severity = v, ![k].notifiable = n,
                                ![k].status = "assessed"]
    PROVE  /\ t \in Seq(Breach)
           /\ Put(s, k, Case(v, n, "assessed", s[k].ico, s[k].told, s[k].aware), t)
<1> DEFINE q1 == Case(v, s[k].notifiable, s[k].status, s[k].ico, s[k].told, s[k].aware)
           q2 == Case(v, n, s[k].status, s[k].ico, s[k].told, s[k].aware)
           q3 == Case(v, n, "assessed", s[k].ico, s[k].told, s[k].aware)
           u1 == [s EXCEPT ![k].severity = v]
           u2 == [u1 EXCEPT ![k].notifiable = n]
<1>1. s[k] \in Breach
  BY LenProperties, ElementOfSeq
<1>2. /\ q1 \in Breach /\ q2 \in Breach /\ q3 \in Breach
      /\ [s[k] EXCEPT !.severity = v] = q1
  BY <1>1 DEF Breach, Case
<1>3. [q1 EXCEPT !.notifiable = n] = q2 /\ [q2 EXCEPT !.status = "assessed"] = q3
  BY DEF Case
<1>4. t = [u2 EXCEPT ![k].status = "assessed"]
  OBVIOUS
<1> HIDE DEF q1, q2, q3
<1>5. u1 = [s EXCEPT ![k] = q1]
  BY <1>2
<1>6. u1 \in Seq(Breach) /\ Put(s, k, q1, u1)
  BY <1>2, <1>5, Replaced
<1> HIDE DEF u1
<1>7. k \in DOMAIN u1 /\ u2 = [u1 EXCEPT ![k] = q2]
  BY <1>3, <1>6 DEF Put
<1>8. u2 \in Seq(Breach) /\ Put(u1, k, q2, u2)
  BY <1>2, <1>6, <1>7, Replaced
<1> HIDE DEF u2
<1>9. k \in DOMAIN u2 /\ t = [u2 EXCEPT ![k] = q3]
  BY <1>3, <1>4, <1>8 DEF Put
<1>10. t \in Seq(Breach) /\ Put(u2, k, q3, t)
  BY <1>2, <1>8, <1>9, Replaced
<1>11. Put(s, k, q2, u2)
  BY <1>6, <1>8, ReplacedAgain
<1>12. Put(s, k, q3, t)
  BY <1>10, <1>11, ReplacedAgain
<1> QED
  BY <1>10, <1>12 DEF q3

LEMMA BreachIcoNotified ==
    ASSUME NEW s \in Seq(Breach), NEW k \in DOMAIN s, NEW d \in BOOLEAN,
           NEW t, t = [s EXCEPT ![k].ico = d, ![k].status = "ico_notified"]
    PROVE  /\ t \in Seq(Breach)
           /\ Put(s, k, Case(s[k].severity, s[k].notifiable, "ico_notified",
                             d, s[k].told, s[k].aware), t)
<1> DEFINE q1 == Case(s[k].severity, s[k].notifiable, s[k].status, d, s[k].told, s[k].aware)
           q2 == Case(s[k].severity, s[k].notifiable, "ico_notified", d, s[k].told, s[k].aware)
           u1 == [s EXCEPT ![k].ico = d]
<1>1. s[k] \in Breach
  BY LenProperties, ElementOfSeq
<1>2. /\ q1 \in Breach /\ q2 \in Breach
      /\ [s[k] EXCEPT !.ico = d] = q1
  BY <1>1 DEF Breach, Case
<1>3. [q1 EXCEPT !.status = "ico_notified"] = q2
  BY DEF Case
<1>4. t = [u1 EXCEPT ![k].status = "ico_notified"]
  OBVIOUS
<1> HIDE DEF q1, q2
<1>5. u1 = [s EXCEPT ![k] = q1]
  BY <1>2
<1>6. u1 \in Seq(Breach) /\ Put(s, k, q1, u1)
  BY <1>2, <1>5, Replaced
<1> HIDE DEF u1
<1>7. k \in DOMAIN u1 /\ t = [u1 EXCEPT ![k] = q2]
  BY <1>3, <1>4, <1>6 DEF Put
<1>8. t \in Seq(Breach) /\ Put(u1, k, q2, t)
  BY <1>2, <1>6, <1>7, Replaced
<1>9. Put(s, k, q2, t)
  BY <1>6, <1>8, ReplacedAgain
<1> QED
  BY <1>8, <1>9 DEF q2

LEMMA BreachSubjectsNotified ==
    ASSUME NEW s \in Seq(Breach), NEW k \in DOMAIN s, NEW d \in BOOLEAN,
           NEW t, t = [s EXCEPT ![k].told = d, ![k].status = "subjects_notified"]
    PROVE  /\ t \in Seq(Breach)
           /\ Put(s, k, Case(s[k].severity, s[k].notifiable, "subjects_notified",
                             s[k].ico, d, s[k].aware), t)
<1> DEFINE q1 == Case(s[k].severity, s[k].notifiable, s[k].status, s[k].ico, d, s[k].aware)
           q2 == Case(s[k].severity, s[k].notifiable, "subjects_notified", s[k].ico, d, s[k].aware)
           u1 == [s EXCEPT ![k].told = d]
<1>1. s[k] \in Breach
  BY LenProperties, ElementOfSeq
<1>2. /\ q1 \in Breach /\ q2 \in Breach
      /\ [s[k] EXCEPT !.told = d] = q1
  BY <1>1 DEF Breach, Case
<1>3. [q1 EXCEPT !.status = "subjects_notified"] = q2
  BY DEF Case
<1>4. t = [u1 EXCEPT ![k].status = "subjects_notified"]
  OBVIOUS
<1> HIDE DEF q1, q2
<1>5. u1 = [s EXCEPT ![k] = q1]
  BY <1>2
<1>6. u1 \in Seq(Breach) /\ Put(s, k, q1, u1)
  BY <1>2, <1>5, Replaced
<1> HIDE DEF u1
<1>7. k \in DOMAIN u1 /\ t = [u1 EXCEPT ![k] = q2]
  BY <1>3, <1>4, <1>6 DEF Put
<1>8. t \in Seq(Breach) /\ Put(u1, k, q2, t)
  BY <1>2, <1>6, <1>7, Replaced
<1>9. Put(s, k, q2, t)
  BY <1>6, <1>8, ReplacedAgain
<1> QED
  BY <1>8, <1>9 DEF q2

-----------------------------------------------------------------------------
(* What the look-ups find.                                                 *)

LEMMA PolicyFound ==
    ASSUME policies \in Seq(Policy), NEW v, _get_policy(v) # 0
    PROVE  /\ _get_policy(v) \in DOMAIN policies
           /\ policies[_get_policy(v)].version = v
           /\ \A i \in DOMAIN policies : policies[i].version = v => _get_policy(v) <= i
<1> DEFINE S == {i \in DOMAIN policies : policies[i].version = v}
<1>1. S \subseteq Nat \ {0}
  BY LenProperties
<1>2. First(S) # 0 => First(S) \in S /\ \A i \in S : First(S) <= i
  BY <1>1, FirstIsLeast
<1>3. _get_policy(v) = First(S)
  BY DEF _get_policy
<1> QED
  BY <1>2, <1>3

\* No record before the i-th has its address.
Earliest(s, i) == \A j \in 1..i - 1 : s[j].email # s[i].email

LEMMA SubjectFound ==
    ASSUME subjects \in Seq(Subject), NEW e
    PROVE  /\ SubjectOf(e) \in 0..Len(subjects)
           /\ SubjectOf(e) # 0 => Earliest(subjects, SubjectOf(e))
<1> DEFINE S == {i \in DOMAIN subjects : subjects[i].email = e}
<1>1. DOMAIN subjects = 1..Len(subjects) /\ Len(subjects) \in Nat
  BY LenProperties
<1>2. S \subseteq Nat \ {0} /\ S \subseteq 1..Len(subjects)
  BY <1>1
<1>3. First(S) # 0 => First(S) \in S /\ \A i \in S : First(S) <= i
  BY <1>2, FirstIsLeast
<1>4. SubjectOf(e) = First(S)
  BY DEF SubjectOf
<1>5. ASSUME NEW k, k = First(S), k # 0 PROVE k \in 1..Len(subjects) /\ Earliest(subjects, k)
  <2>1. k \in S /\ \A i \in S : k <= i
    BY <1>3, <1>5
  <2> QED
    BY <1>1, <2>1 DEF Earliest
<1> QED
  BY <1>1, <1>4, <1>5

LEMMA EarliestFound ==
    ASSUME subjects \in Seq(Subject), NEW i \in DOMAIN subjects, Earliest(subjects, i)
    PROVE  SubjectOf(subjects[i].email) = i
<1> DEFINE S == {j \in DOMAIN subjects : subjects[j].email = subjects[i].email}
<1>1. DOMAIN subjects = 1..Len(subjects) /\ Len(subjects) \in Nat
  BY LenProperties
<1>2. S \subseteq Nat \ {0} /\ i \in S /\ \A j \in S : i <= j
  BY <1>1 DEF Earliest
<1>3. First(S) \in S /\ \A j \in S : First(S) <= j
  BY <1>2, FirstIsLeast
<1> HIDE DEF S
<1>4. First(S) <= i /\ i <= First(S) /\ First(S) \in Nat /\ i \in Nat
  BY <1>2, <1>3
<1>5. First(S) = i
  BY <1>4
<1> QED
  BY <1>5 DEF SubjectOf, S

-----------------------------------------------------------------------------
(* What a step does to each table.                                         *)

\* A policy is drafted at the end, or the first of its version turned.
LEMMA PolicyEffect ==
    ASSUME TypeOK, Policies
    PROVE  /\ UNCHANGED <<status, client, contract, subjects, requests, breaches>>
           /\ \/ /\ status = "contracted"
                 /\ \E x \in Policy : x.status = "draft" /\ policies' = Append(policies, x)
              \/ /\ policies' \in Seq(Policy)
                 /\ \E k, x : /\ Put(policies, k, x, policies')
                              /\ x.version = policies[k].version
                              /\ k = _get_policy(x.version)
<1> PICK v \in Versions : \/ draft_privacy_policy(v)
                          \/ approve_privacy_policy(v)
                          \/ publish_privacy_policy(v)
  BY DEF Policies
<1> DEFINE p == _get_policy(v)
<1>1. CASE draft_privacy_policy(v)
  <2> DEFINE x == [version |-> v, status |-> "draft"]
  <2>1. x \in Policy /\ x.status = "draft"
    BY DEF Policy
  <2>2. status = "contracted" /\ policies' = Append(policies, x)
    BY <1>1 DEF draft_privacy_policy
  <2>3. UNCHANGED <<status, client, contract, subjects, requests, breaches>>
    BY <1>1 DEF draft_privacy_policy, engagement
  <2> QED
    BY <2>1, <2>2, <2>3
<1>2. ASSUME NEW st \in {"approved", "published"}, p # 0,
             policies' = [policies EXCEPT ![p].status = st]
      PROVE  /\ policies' \in Seq(Policy)
             /\ \E k, x : /\ Put(policies, k, x, policies')
                          /\ x.version = policies[k].version
                          /\ k = _get_policy(x.version)
  <2> DEFINE x == [version |-> policies[p].version, status |-> st]
  <2>1. policies \in Seq(Policy)
    BY DEF TypeOK
  <2>2. p \in DOMAIN policies /\ policies[p].version = v
    BY <1>2, <2>1, PolicyFound
  <2>3. policies' \in Seq(Policy) /\ Put(policies, p, x, policies')
    BY <1>2, <2>1, <2>2, PolicySet
  <2>4. x.version = policies[p].version /\ p = _get_policy(x.version)
    BY <2>2
  <2> QED
    BY <2>3, <2>4
<1>3. CASE approve_privacy_policy(v)
  BY <1>2, <1>3 DEF approve_privacy_policy, engagement
<1>4. CASE publish_privacy_policy(v)
  BY <1>2, <1>4 DEF publish_privacy_policy, engagement
<1> QED
  BY <1>1, <1>3, <1>4

\* A subject is registered, a request submitted or turned, and with it the
\* subject it is bound to may be marked as erased.
Bound(e, t) == [subject |-> SubjectOf(e), email |-> e, type |-> t,
                status |-> "submitted", deleted |-> FALSE]

Registered ==
    /\ status = "contracted" /\ requests' = requests
    /\ \E e \in Emails : subjects' = Append(subjects, [email |-> e, erased |-> FALSE])

Submitted ==
    /\ status = "contracted" /\ subjects' = subjects
    /\ \E e \in Emails, t \in {"erasure", "access"} :
          requests' = Append(requests, Bound(e, t))

Kept(r, v) ==
    /\ \/ requests[r].status = "submitted" /\ v = "in_progress"
       \/ v = "refused"
    /\ Put(requests, r, Turned(requests[r], v, requests[r].deleted), requests')
    /\ subjects' = subjects

Completed(r, d) ==
    /\ requests[r].status \in Open
    /\ Put(requests, r, Turned(requests[r], "completed", d), requests')
    /\ \/ /\ d /\ requests[r].type = "erasure" /\ requests[r].subject \in DOMAIN subjects
          /\ subjects' \in Seq(Subject)
          /\ Put(subjects, requests[r].subject,
                 [email |-> subjects[requests[r].subject].email, erased |-> TRUE], subjects')
       \/ /\ ~(d /\ requests[r].type = "erasure" /\ requests[r].subject \in DOMAIN subjects)
          /\ subjects' = subjects

LEMMA BoundType ==
    ASSUME subjects \in Seq(Subject), NEW e \in Emails, NEW t \in {"erasure", "access"}
    PROVE  Bound(e, t) \in Request
<1>1. SubjectOf(e) \in Nat
  BY SubjectFound, LenProperties
<1> QED
  BY <1>1 DEF Request, Bound, Open

LEMMA IndividualEffect ==
    ASSUME TypeOK, Individuals
    PROVE  /\ UNCHANGED <<status, client, contract, policies, breaches>>
           /\ \/ Registered
              \/ Submitted
              \/ /\ requests' \in Seq(Request)
                 /\ \E r \in DOMAIN requests : \/ \E v : Kept(r, v)
                                               \/ \E d \in BOOLEAN : Completed(r, d)
<1> USE DEF engagement
<1>1. requests \in Seq(Request) /\ subjects \in Seq(Subject)
  BY DEF TypeOK
<1>2. ASSUME NEW e \in Emails, register_data_subject(e)
      PROVE  Registered /\ UNCHANGED <<status, client, contract, policies, breaches>>
  BY <1>2 DEF register_data_subject, Registered
<1>3. ASSUME NEW e \in Emails, NEW t \in {"erasure", "access"}, submit_dsr(e, t)
      PROVE  Submitted /\ UNCHANGED <<status, client, contract, policies, breaches>>
  BY <1>3 DEF submit_dsr, Submitted, Bound
<1>4. ASSUME NEW r \in DOMAIN requests, acknowledge_dsr(r)
      PROVE  /\ requests' \in Seq(Request) /\ Kept(r, "in_progress")
             /\ UNCHANGED <<status, client, contract, policies, breaches>>
  <2>1. /\ requests[r].status = "submitted"
        /\ requests' = [requests EXCEPT ![r].status = "in_progress"]
        /\ UNCHANGED <<status, client, contract, policies, subjects, breaches>>
    BY <1>4 DEF acknowledge_dsr
  <2>2. "in_progress" \in Open \cup Closed
    BY DEF Open
  <2>3. /\ requests' \in Seq(Request)
        /\ Put(requests, r, Turned(requests[r], "in_progress", requests[r].deleted), requests')
    BY <1>1, <2>1, <2>2, RequestStatusSet
  <2> QED
    BY <2>1, <2>3 DEF Kept
<1>5. ASSUME NEW r \in DOMAIN requests, refuse_dsr(r)
      PROVE  /\ requests' \in Seq(Request) /\ Kept(r, "refused")
             /\ UNCHANGED <<status, client, contract, policies, breaches>>
  <2>1. /\ requests' = [requests EXCEPT ![r].status = "refused"]
        /\ UNCHANGED <<status, client, contract, policies, subjects, breaches>>
    BY <1>5 DEF refuse_dsr
  <2>2. "refused" \in Open \cup Closed
    BY DEF Closed
  <2>3. /\ requests' \in Seq(Request)
        /\ Put(requests, r, Turned(requests[r], "refused", requests[r].deleted), requests')
    BY <1>1, <2>1, <2>2, RequestStatusSet
  <2> QED
    BY <2>1, <2>3 DEF Kept
<1>6. ASSUME NEW r \in DOMAIN requests, NEW d \in BOOLEAN, complete_dsr(r, d)
      PROVE  /\ requests' \in Seq(Request) /\ Completed(r, d)
             /\ UNCHANGED <<status, client, contract, policies, breaches>>
  <2> DEFINE k == requests[r].subject
             Erasing == d /\ requests[r].type = "erasure" /\ k \in DOMAIN subjects
  <2>1. /\ requests[r].status \in Open
        /\ requests' = [requests EXCEPT ![r].status = "completed", ![r].deleted = d]
        /\ UNCHANGED <<status, client, contract, policies, breaches>>
    BY <1>6 DEF complete_dsr
  <2>2. subjects' = IF Erasing THEN [subjects EXCEPT ![k].erased = TRUE] ELSE subjects
    BY <1>6 DEF complete_dsr
  <2>3. "completed" \in Open \cup Closed
    BY DEF Closed
  <2>4. /\ requests' \in Seq(Request)
        /\ Put(requests, r, Turned(requests[r], "completed", d), requests')
    BY <1>1, <2>1, <2>3, RequestSet
  <2>5. CASE Erasing
    <3>1. k \in DOMAIN subjects /\ subjects' = [subjects EXCEPT ![k].erased = TRUE]
      BY <2>2, <2>5
    <3>2. /\ subjects' \in Seq(Subject)
          /\ Put(subjects, k, [email |-> subjects[k].email, erased |-> TRUE], subjects')
      BY <1>1, <3>1, ErasedSet
    <3> QED
      BY <2>1, <2>4, <2>5, <3>2 DEF Completed
  <2>6. CASE ~Erasing
    BY <2>1, <2>2, <2>4, <2>6 DEF Completed
  <2> QED
    BY <2>5, <2>6
<1> QED
  BY <1>2, <1>3, <1>4, <1>5, <1>6 DEF Individuals

\* A breach is reported at the end, or one given a new case.
Assessed(b, s, n) ==
    Put(breaches, b, Case(s, n, "assessed", breaches[b].ico, breaches[b].told,
                          breaches[b].aware), breaches')

Notified(b) ==
    /\ breaches[b].status # "reported"
    /\ Put(breaches, b, Case(breaches[b].severity, breaches[b].notifiable,
                             "ico_notified", TRUE, breaches[b].told,
                             breaches[b].aware), breaches')

Told(b) ==
    /\ breaches[b].severity = "high"
    /\ Put(breaches, b, Case(breaches[b].severity, breaches[b].notifiable,
                             "subjects_notified", breaches[b].ico, TRUE,
                             breaches[b].aware), breaches')

Resolved(b) ==
    /\ ~ IcoDue(breaches[b])
    /\ Put(breaches, b, Case(breaches[b].severity, breaches[b].notifiable, "resolved",
                             breaches[b].ico, breaches[b].told,
                             breaches[b].aware), breaches')

LEMMA BreachEffect ==
    ASSUME TypeOK, Breaches
    PROVE  /\ UNCHANGED <<status, client, contract, policies, subjects, requests>>
           /\ \/ /\ status = "contracted"
                 /\ \E a \in BOOLEAN : breaches' = Append(breaches, Reported(a))
              \/ /\ breaches' \in Seq(Breach)
                 /\ \E b \in DOMAIN breaches :
                       \/ \E s \in Severity, n \in BOOLEAN : Assessed(b, s, n)
                       \/ Notified(b) \/ Told(b) \/ Resolved(b)
<1> USE DEF engagement
<1>1. breaches \in Seq(Breach)
  BY DEF TypeOK
<1>2. ASSUME NEW a \in BOOLEAN, report_breach(a)
      PROVE  /\ UNCHANGED <<status, client, contract, policies, subjects, requests>>
             /\ status = "contracted" /\ breaches' = Append(breaches, Reported(a))
  BY <1>2 DEF report_breach, Reported, Case
<1>3. ASSUME NEW b \in DOMAIN breaches, NEW s \in Severity, NEW n \in BOOLEAN,
             assess_breach(b, s, n)
      PROVE  /\ breaches' \in Seq(Breach) /\ Assessed(b, s, n)
             /\ UNCHANGED <<status, client, contract, policies, subjects, requests>>
  <2>1. /\ breaches' = [breaches EXCEPT ![b].severity = s, ![b].notifiable = n,
                                         ![b].status = "assessed"]
        /\ UNCHANGED <<status, client, contract, policies, subjects, requests>>
    BY <1>3 DEF assess_breach
  <2> QED
    BY <1>1, <2>1, BreachAssessed DEF Assessed
<1>4. ASSUME NEW b \in DOMAIN breaches, notify_ico(b)
      PROVE  /\ breaches' \in Seq(Breach) /\ Notified(b)
             /\ UNCHANGED <<status, client, contract, policies, subjects, requests>>
  <2>1. /\ breaches' = [breaches EXCEPT ![b].ico = TRUE, ![b].status = "ico_notified"]
        /\ breaches[b].status # "reported"
        /\ UNCHANGED <<status, client, contract, policies, subjects, requests>>
    BY <1>4 DEF notify_ico
  <2> QED
    BY <1>1, <2>1, BreachIcoNotified DEF Notified
<1>5. ASSUME NEW b \in DOMAIN breaches, notify_affected_subjects(b)
      PROVE  /\ breaches' \in Seq(Breach) /\ Told(b)
             /\ UNCHANGED <<status, client, contract, policies, subjects, requests>>
  <2>1. /\ breaches' = [breaches EXCEPT ![b].told = TRUE, ![b].status = "subjects_notified"]
        /\ breaches[b].severity = "high"
        /\ UNCHANGED <<status, client, contract, policies, subjects, requests>>
    BY <1>5 DEF notify_affected_subjects
  <2> QED
    BY <1>1, <2>1, BreachSubjectsNotified DEF Told
<1>6. ASSUME NEW b \in DOMAIN breaches, resolve_breach(b)
      PROVE  /\ breaches' \in Seq(Breach) /\ Resolved(b)
             /\ UNCHANGED <<status, client, contract, policies, subjects, requests>>
  <2>1. /\ breaches' = [breaches EXCEPT ![b].status = "resolved"]
        /\ ~ IcoDue(breaches[b]) /\ "resolved" \in Status
        /\ UNCHANGED <<status, client, contract, policies, subjects, requests>>
    BY <1>6 DEF resolve_breach, Status
  <2> QED
    BY <1>1, <2>1, BreachStatusSet DEF Resolved
<1> QED
  BY <1>2, <1>3, <1>4, <1>5, <1>6 DEF Breaches

\* The engagement moves and every table stays.
LEMMA EngagementEffect ==
    ASSUME TypeOK, Engagement
    PROVE  /\ UNCHANGED <<policies, subjects, requests, breaches>>
           /\ status' \in {"pitch", "contracted", "closed"} /\ client' \in BOOLEAN
           /\ contract' = (status' = "contracted")
           /\ contract' => client'
           /\ contract => contract'
  BY DEF TypeOK, Engagement, submit_pitch, win_pitch, lose_pitch

-----------------------------------------------------------------------------
(* Type correctness.                                                       *)

EmptyTables == policies = <<>> /\ subjects = <<>> /\ requests = <<>> /\ breaches = <<>>

Tables == /\ policies \in Seq(Policy) /\ subjects \in Seq(Subject)
          /\ requests \in Seq(Request) /\ breaches \in Seq(Breach)

\* TypeOK in the form the steps keep it.
TypeParts ==
    /\ status \in {"pitch", "contracted", "closed"} /\ client \in BOOLEAN
    /\ contract = (status = "contracted")
    /\ contract => client
    /\ Tables
    /\ EmptyTables \/ contract

LEMMA TypeUnfolded == (TypeOK <=> TypeParts) /\ (TypeOK <=> TypeParts)'
<1>1. TypeOK <=> TypeParts
  <2>1. Tables => (policies \o subjects \o requests \o breaches # <<>> <=> ~EmptyTables)
    BY NothingOnRecord DEF Tables, EmptyTables
  <2> QED
    BY <2>1 DEF TypeOK, TypeParts, Tables
<1>2. (TypeOK <=> TypeParts)'
  <2>1. Tables' => (policies' \o subjects' \o requests' \o breaches' # <<>> <=> ~EmptyTables')
    BY NothingOnRecord DEF Tables, EmptyTables
  <2> QED
    BY <2>1 DEF TypeOK, TypeParts, Tables
<1> QED
  BY <1>1, <1>2

\* Every step keeps the types, and adds to a table only under a contract.
LEMMA TypeStep == TypeOK /\ [Next]_vars => TypeOK'
<1> SUFFICES ASSUME TypeOK, [Next]_vars PROVE TypeOK'
  OBVIOUS
<1>1. TypeParts
  BY TypeUnfolded
<1>2. ASSUME UNCHANGED <<status, client, contract>>, Tables', (EmptyTables \/ contract)'
      PROVE  TypeOK'
  BY <1>1, <1>2, TypeUnfolded DEF TypeParts
<1>3. CASE UNCHANGED vars
  <2>1. Tables' /\ (EmptyTables \/ contract)' /\ UNCHANGED <<status, client, contract>>
    BY <1>1, <1>3 DEF vars, TypeParts, Tables, EmptyTables
  <2> QED
    BY <1>2, <2>1
<1>4. CASE Engagement
  <2>1. Tables' /\ (EmptyTables \/ contract)'
    BY <1>1, <1>4, EngagementEffect DEF TypeParts, Tables, EmptyTables
  <2> QED
    BY <1>4, <2>1, EngagementEffect, TypeUnfolded DEF TypeParts
<1>5. CASE Policies
  <2>1. UNCHANGED <<status, client, contract, subjects, requests, breaches>>
    BY <1>5, PolicyEffect
  <2>2. policies' \in Seq(Policy) /\ (policies # <<>> \/ contract)
    <3>1. CASE status = "contracted" /\ \E x \in Policy : policies' = Append(policies, x)
      BY <1>1, <3>1, Added DEF TypeParts, Tables
    <3>2. CASE /\ policies' \in Seq(Policy)
               /\ \E k, x : Put(policies, k, x, policies')
      BY <3>2 DEF Put
    <3> QED
      BY <1>5, <3>1, <3>2, PolicyEffect
  <2> QED
    BY <1>1, <1>2, <2>1, <2>2 DEF TypeParts, Tables, EmptyTables
<1>6. CASE Individuals
  <2>1. UNCHANGED <<status, client, contract, policies, breaches>>
    BY <1>6, IndividualEffect
  <2>2. CASE Registered
    <3>1. PICK e \in Emails : subjects' = Append(subjects, [email |-> e, erased |-> FALSE])
      BY <2>2 DEF Registered
    <3>2. [email |-> e, erased |-> FALSE] \in Subject
      BY DEF Subject
    <3>3. subjects' \in Seq(Subject)
      BY <1>1, <3>1, <3>2, Added DEF TypeParts, Tables
    <3>4. requests' = requests /\ contract
      BY <1>1, <2>2 DEF TypeParts, Registered
    <3> QED
      BY <1>1, <1>2, <2>1, <3>3, <3>4 DEF TypeParts, Tables
  <2>3. CASE Submitted
    <3>1. PICK e \in Emails, t \in {"erasure", "access"} :
             requests' = Append(requests, Bound(e, t))
      BY <2>3 DEF Submitted
    <3>2. Bound(e, t) \in Request
      BY <1>1, BoundType DEF TypeParts, Tables
    <3>3. requests' \in Seq(Request)
      BY <1>1, <3>1, <3>2, Added DEF TypeParts, Tables
    <3>4. subjects' = subjects /\ contract
      BY <1>1, <2>3 DEF TypeParts, Submitted
    <3> QED
      BY <1>1, <1>2, <2>1, <3>3, <3>4 DEF TypeParts, Tables
  <2>4. ASSUME requests' \in Seq(Request), NEW r \in DOMAIN requests,
               \/ \E v : Kept(r, v)
               \/ \E d \in BOOLEAN : Completed(r, d)
        PROVE  TypeOK'
    <3>1. subjects' \in Seq(Subject)
      BY <1>1, <2>4 DEF Kept, Completed, TypeParts, Tables
    <3>2. requests # <<>>
      BY <2>4 DEF Kept, Completed, Put
    <3> QED
      BY <1>1, <1>2, <2>1, <2>4, <3>1, <3>2 DEF TypeParts, Tables, EmptyTables
  <2> QED
    BY <1>6, <2>2, <2>3, <2>4, IndividualEffect
<1>7. CASE Breaches
  <2>1. UNCHANGED <<status, client, contract, policies, subjects, requests>>
    BY <1>7, BreachEffect
  <2>2. \A a \in BOOLEAN : Reported(a) \in Breach
    BY DEF Breach, Reported, Case
  <2>3. CASE /\ status = "contracted"
             /\ \E a \in BOOLEAN : breaches' = Append(breaches, Reported(a))
    BY <1>1, <1>2, <2>1, <2>2, <2>3, Added DEF TypeParts, Tables
  <2>4. CASE breaches' \in Seq(Breach) /\ \E b \in DOMAIN breaches :
                 \/ \E s \in Severity, n \in BOOLEAN : Assessed(b, s, n)
                 \/ Notified(b) \/ Told(b) \/ Resolved(b)
    <3>1. breaches # <<>>
      BY <2>4 DEF Assessed, Notified, Told, Resolved, Put
    <3> QED
      BY <1>1, <1>2, <2>1, <2>4, <3>1 DEF TypeParts, Tables, EmptyTables
  <2> QED
    BY <1>7, <2>3, <2>4, BreachEffect
<1> QED
  BY <1>3, <1>4, <1>5, <1>6, <1>7 DEF Next

\* Every record has its fields' types, and nothing is on record for a client
\* who is not contracted.
THEOREM TypeCorrect == Spec => []TypeOK
<1>1. Init => TypeOK
  BY TypeUnfolded, EmptySeq DEF Init, TypeParts, Tables, EmptyTables
<1>2. TypeOK /\ [Next]_vars => TypeOK'
  BY TypeStep
<1> QED
  BY <1>1, <1>2, PTL DEF Spec

-----------------------------------------------------------------------------
(* Policies.                                                               *)

\* Every step keeps it: a look-up never finds a policy that an older one of its
\* version hides, so only the first of a version is ever turned.
LEMMA OneTextStep == TypeOK /\ OneTextPerVersion /\ [Next]_vars => OneTextPerVersion'
<1> SUFFICES ASSUME TypeOK, OneTextPerVersion, [Next]_vars PROVE OneTextPerVersion'
  OBVIOUS
<1>1. policies \in Seq(Policy) /\ Len(policies) \in Nat /\ DOMAIN policies = 1..Len(policies)
  BY LenProperties DEF TypeOK
<1>2. CASE policies' = policies
  BY <1>2 DEF OneTextPerVersion
<1>3. CASE Policies
  <2>1. ASSUME NEW x \in Policy, x.status = "draft", policies' = Append(policies, x)
        PROVE  OneTextPerVersion'
    <3>1. /\ Len(policies') = Len(policies) + 1 /\ DOMAIN policies' = 1..Len(policies')
          /\ policies'[Len(policies')].status = "draft"
          /\ \A i \in 1..Len(policies) : policies'[i] = policies[i]
      BY <1>1, <2>1, Added
    <3>2. SUFFICES ASSUME NEW i \in 1..Len(policies'), NEW j \in 1..Len(policies'), i < j,
                          policies'[i].version = policies'[j].version
                   PROVE  policies'[j].status = "draft"
      BY <3>1 DEF OneTextPerVersion
    <3>3. CASE j = Len(policies')
      BY <3>1, <3>3
    <3>4. CASE j \in 1..Len(policies)
      <4>1. i \in 1..Len(policies)
        BY <1>1, <3>2, <3>4
      <4> QED
        BY <1>1, <3>1, <3>2, <3>4, <4>1 DEF OneTextPerVersion
    <3> QED
      BY <1>1, <3>1, <3>3, <3>4
  <2>2. ASSUME NEW k, NEW x, Put(policies, k, x, policies'),
               x.version = policies[k].version, k = _get_policy(x.version)
        PROVE  OneTextPerVersion'
    <3>1. /\ k \in 1..Len(policies) /\ DOMAIN policies' = 1..Len(policies)
          /\ policies'[k] = x /\ \A i \in 1..Len(policies) : i # k => policies'[i] = policies[i]
      BY <1>1, <2>2 DEF Put
    <3>2. \A i \in 1..Len(policies) : policies[i].version = policies[k].version => k <= i
      <4>1. _get_policy(x.version) # 0
        BY <2>2, <3>1
      <4> QED
        BY <1>1, <2>2, <4>1, PolicyFound
    <3>3. SUFFICES ASSUME NEW i \in 1..Len(policies), NEW j \in 1..Len(policies), i < j,
                          policies'[i].version = policies'[j].version
                   PROVE  policies'[j].status = "draft"
      BY <3>1 DEF OneTextPerVersion
    <3>4. policies[i].version = policies[j].version
      BY <2>2, <3>1, <3>3
    <3>5. j # k
      BY <1>1, <3>2, <3>3, <3>4
    <3> QED
      BY <1>1, <3>1, <3>3, <3>4, <3>5 DEF OneTextPerVersion
  <2> QED
    BY <1>3, <2>1, <2>2, PolicyEffect
<1> QED
  BY <1>2, <1>3, EngagementEffect, IndividualEffect, BreachEffect DEF Next, vars

\* Of the policies drafted under one version string only the first can ever be
\* approved or published.
THEOREM OneTextOfAVersion == Spec => []OneTextPerVersion
<1>1. Init => OneTextPerVersion
  BY DEF Init, OneTextPerVersion
<1>2. TypeOK /\ OneTextPerVersion /\ [Next]_vars => OneTextPerVersion'
  BY OneTextStep
<1> QED
  BY <1>1, <1>2, TypeCorrect, PTL DEF Spec

-----------------------------------------------------------------------------
(* Requests and erasure.                                                   *)

\* Every step keeps a closed request closed.
LEMMA ClosedStep ==
    TypeOK /\ [Next]_vars =>
       [\A r \in DOMAIN requests :
           requests[r].status \in Closed => requests'[r].status \in Closed]_vars
<1> SUFFICES ASSUME TypeOK, Next, NEW r \in DOMAIN requests, requests[r].status \in Closed
             PROVE  requests'[r].status \in Closed
  OBVIOUS
<1>1. requests \in Seq(Request) /\ DOMAIN requests = 1..Len(requests)
  BY LenProperties DEF TypeOK
<1>2. CASE requests' = requests
  BY <1>2
<1>3. CASE Individuals
  <2>1. CASE Registered
    BY <1>2, <2>1 DEF Registered
  <2>2. CASE Submitted
    <3>1. PICK e \in Emails, t \in {"erasure", "access"} :
             requests' = Append(requests, Bound(e, t))
      BY <2>2 DEF Submitted
    <3>2. requests'[r] = requests[r]
      <4>1. Bound(e, t) \in Request
        BY BoundType DEF TypeOK
      <4> QED
        BY <1>1, <3>1, <4>1, Added
    <3> QED
      BY <3>2
  <2>3. ASSUME NEW q \in DOMAIN requests, NEW v, Kept(q, v)
        PROVE  requests'[r].status \in Closed
    <3>1. CASE r # q
      BY <2>3, <3>1 DEF Kept, Put
    <3>2. CASE r = q
      <4>1. requests'[r].status = v
        BY <2>3, <3>2 DEF Kept, Put, Turned
      <4>2. v = "refused"
        BY <2>3, <3>2 DEF Kept, Closed
      <4> QED
        BY <4>1, <4>2 DEF Closed
    <3> QED
      BY <3>1, <3>2
  <2>4. ASSUME NEW q \in DOMAIN requests, NEW d \in BOOLEAN, Completed(q, d)
        PROVE  requests'[r].status \in Closed
    <3>1. CASE r # q
      BY <2>4, <3>1 DEF Completed, Put
    <3>2. CASE r = q
      BY <2>4, <3>2 DEF Completed, Open, Closed
    <3> QED
      BY <3>1, <3>2
  <2> QED
    BY <1>3, <2>1, <2>2, <2>3, <2>4, IndividualEffect
<1> QED
  BY <1>2, <1>3, EngagementEffect, PolicyEffect, BreachEffect DEF Next

\* A request that was closed is never open again.
THEOREM RequestsStayClosed == Spec => ClosedForGood
<1>1. TypeOK /\ [Next]_vars =>
         [\A r \in DOMAIN requests :
             requests[r].status \in Closed => requests'[r].status \in Closed]_vars
  BY ClosedStep
<1> QED
  BY <1>1, TypeCorrect, PTL DEF Spec, ClosedForGood

\* Request q, completed with its data deleted, erased subject i.
Erases(q, i) == q.subject = i /\ q.type = "erasure" /\ q.deleted

\* A request is bound to the first record of its address or to none, and data
\* was deleted only for a closed one: without it a request still open, or one
\* bound to a later record, could be completed out of step with the marks.
ErasureInv ==
    /\ TypeOK
    /\ \A r \in DOMAIN requests :
          /\ requests[r].subject \in 0..Len(subjects)
          /\ requests[r].subject # 0 => Earliest(subjects, requests[r].subject)
          /\ requests[r].deleted => requests[r].status \in Closed
    /\ \A i \in DOMAIN subjects :
          subjects[i].erased <=> \E r \in DOMAIN requests : Erases(requests[r], i)

LEMMA ErasureStep == ErasureInv /\ [Next]_vars => ErasureInv'
<1> SUFFICES ASSUME ErasureInv, [Next]_vars PROVE ErasureInv'
  OBVIOUS
<1>1. TypeOK' /\ TypeOK
  BY TypeStep DEF ErasureInv
<1>2. /\ requests \in Seq(Request) /\ subjects \in Seq(Subject)
      /\ Len(requests) \in Nat /\ DOMAIN requests = 1..Len(requests)
      /\ Len(subjects) \in Nat /\ DOMAIN subjects = 1..Len(subjects)
  BY <1>1, LenProperties DEF TypeOK
<1>3. CASE subjects' = subjects /\ requests' = requests
  BY <1>1, <1>3 DEF ErasureInv, Earliest
<1>4. ASSUME Registered PROVE ErasureInv'
  <2>1. PICK e \in Emails : subjects' = Append(subjects, [email |-> e, erased |-> FALSE])
    BY <1>4 DEF Registered
  <2> DEFINE x == [email |-> e, erased |-> FALSE]
  <2>2. x \in Subject
    BY DEF Subject
  <2>3. x.erased = FALSE
    OBVIOUS
  <2> HIDE DEF x
  <2>4. /\ Len(subjects') = Len(subjects) + 1 /\ DOMAIN subjects' = 1..Len(subjects')
        /\ subjects'[Len(subjects')] = x
        /\ \A i \in 1..Len(subjects) : subjects'[i] = subjects[i]
    BY <1>2, <2>1, <2>2, Added DEF x
  <2>5. requests' = requests
    BY <1>4 DEF Registered
  <2>6. ASSUME NEW r \in DOMAIN requests'
        PROVE  /\ requests'[r].subject \in 0..Len(subjects')
               /\ requests'[r].subject # 0 => Earliest(subjects', requests'[r].subject)
               /\ requests'[r].deleted => requests'[r].status \in Closed
    <3>1. /\ requests[r].subject \in 0..Len(subjects)
          /\ requests[r].subject # 0 => Earliest(subjects, requests[r].subject)
          /\ requests[r].deleted => requests[r].status \in Closed
      BY <2>5, <2>6 DEF ErasureInv
    <3>2. ASSUME NEW i \in 1..Len(subjects), Earliest(subjects, i) PROVE Earliest(subjects', i)
      BY <1>2, <2>4, <3>2 DEF Earliest
    <3>3. requests[r].subject # 0 => requests[r].subject \in 1..Len(subjects)
      BY <1>2, <3>1
    <3> QED
      BY <1>2, <2>4, <2>5, <3>1, <3>2, <3>3
  <2>7. ASSUME NEW i \in DOMAIN subjects'
        PROVE  subjects'[i].erased <=> \E r \in DOMAIN requests' : Erases(requests'[r], i)
    <3>1. CASE i \in 1..Len(subjects)
      BY <1>2, <2>4, <2>5, <3>1 DEF ErasureInv
    <3>2. CASE i = Len(subjects')
      <4>1. \A r \in DOMAIN requests : requests[r].subject # i
        BY <1>2, <2>4, <3>2 DEF ErasureInv
      <4> QED
        BY <2>3, <2>4, <2>5, <3>2, <4>1 DEF Erases
    <3> QED
      BY <1>2, <2>4, <3>1, <3>2
  <2> QED
    BY <1>1, <2>6, <2>7 DEF ErasureInv
<1>5. ASSUME Submitted PROVE ErasureInv'
  <2>1. PICK e \in Emails, t \in {"erasure", "access"} :
           requests' = Append(requests, Bound(e, t))
    BY <1>5 DEF Submitted
  <2>2. /\ SubjectOf(e) \in 0..Len(subjects) /\ SubjectOf(e) \in Nat
        /\ SubjectOf(e) # 0 => Earliest(subjects, SubjectOf(e))
    BY <1>2, SubjectFound
  <2>3. Bound(e, t) \in Request
    BY <1>2, BoundType
  <2>4. Bound(e, t).subject = SubjectOf(e) /\ Bound(e, t).deleted = FALSE
    BY DEF Bound
  <2>5. /\ Len(requests') = Len(requests) + 1 /\ DOMAIN requests' = 1..Len(requests')
        /\ requests'[Len(requests')] = Bound(e, t)
        /\ \A r \in 1..Len(requests) : requests'[r] = requests[r]
    BY <1>2, <2>1, <2>3, Added
  <2>6. subjects' = subjects
    BY <1>5 DEF Submitted
  <2>7. \A r \in DOMAIN requests' : r \in DOMAIN requests \/ r = Len(requests')
    BY <1>2, <2>5
  <2>8. ASSUME NEW r \in DOMAIN requests'
        PROVE  /\ requests'[r].subject \in 0..Len(subjects)
               /\ requests'[r].subject # 0 => Earliest(subjects, requests'[r].subject)
               /\ requests'[r].deleted => requests'[r].status \in Closed
    <3>1. CASE r \in DOMAIN requests
      BY <1>2, <2>5, <3>1 DEF ErasureInv
    <3>2. CASE r = Len(requests')
      BY <2>2, <2>4, <2>5, <3>2
    <3> QED
      BY <2>7, <3>1, <3>2
  <2>9. ASSUME NEW i \in DOMAIN subjects
        PROVE  subjects[i].erased <=> \E r \in DOMAIN requests' : Erases(requests'[r], i)
    <3>1. ~ Erases(requests'[Len(requests')], i)
      BY <2>4, <2>5 DEF Erases
    <3>2. \A r \in DOMAIN requests : r \in DOMAIN requests' /\ requests'[r] = requests[r]
      BY <1>2, <2>5
    <3> QED
      BY <2>7, <3>1, <3>2 DEF ErasureInv
  <2> QED
    BY <1>1, <2>6, <2>8, <2>9 DEF ErasureInv
<1>6. ASSUME NEW r \in DOMAIN requests, NEW v, Kept(r, v) PROVE ErasureInv'
  <2>1. /\ DOMAIN requests' = DOMAIN requests /\ subjects' = subjects
        /\ requests'[r] = Turned(requests[r], v, requests[r].deleted)
        /\ \A q \in DOMAIN requests : q # r => requests'[q] = requests[q]
    BY <1>6 DEF Kept, Put
  <2>2. /\ requests'[r].subject = requests[r].subject /\ requests'[r].type = requests[r].type
        /\ requests'[r].deleted = requests[r].deleted /\ requests'[r].status = v
    BY <2>1 DEF Turned
  <2>3. requests[r].deleted => v \in Closed
    <3>1. requests[r].deleted => requests[r].status \in Closed
      BY DEF ErasureInv
    <3> QED
      BY <1>6, <3>1 DEF Kept, Closed
  <2>4. \A q \in DOMAIN requests, i \in DOMAIN subjects :
           Erases(requests'[q], i) <=> Erases(requests[q], i)
    BY <2>1, <2>2 DEF Erases
  <2>5. ASSUME NEW q \in DOMAIN requests
        PROVE  /\ requests'[q].subject \in 0..Len(subjects)
               /\ requests'[q].subject # 0 => Earliest(subjects, requests'[q].subject)
               /\ requests'[q].deleted => requests'[q].status \in Closed
    <3>1. CASE q = r
      BY <2>2, <2>3, <3>1 DEF ErasureInv
    <3>2. CASE q # r
      BY <2>1, <3>2 DEF ErasureInv
    <3> QED
      BY <3>1, <3>2
  <2>6. \A i \in DOMAIN subjects :
           subjects[i].erased <=> \E q \in DOMAIN requests : Erases(requests'[q], i)
    BY <2>4 DEF ErasureInv
  <2> QED
    BY <1>1, <2>1, <2>5, <2>6 DEF ErasureInv
<1>7. ASSUME NEW r \in DOMAIN requests, NEW d \in BOOLEAN, Completed(r, d)
      PROVE  ErasureInv'
  <2> DEFINE k == requests[r].subject
  <2>1. /\ DOMAIN requests' = DOMAIN requests
        /\ requests'[r] = Turned(requests[r], "completed", d)
        /\ \A q \in DOMAIN requests : q # r => requests'[q] = requests[q]
    BY <1>7 DEF Completed, Put
  <2>2. /\ requests'[r].subject = k /\ requests'[r].type = requests[r].type
        /\ requests'[r].deleted = d /\ requests'[r].status = "completed"
    BY <2>1 DEF Turned
  <2>3. ~ requests[r].deleted /\ k \in 0..Len(subjects)
    BY <1>7 DEF Completed, ErasureInv, Open, Closed
  <2>4. /\ Len(subjects') = Len(subjects) /\ DOMAIN subjects' = DOMAIN subjects
        /\ \A i \in DOMAIN subjects : subjects'[i].email = subjects[i].email
    BY <1>7 DEF Completed, Put
  <2>5. ASSUME NEW i \in 1..Len(subjects), Earliest(subjects, i)
        PROVE  Earliest(subjects', i)
    <3>1. \A j \in 1..i - 1 : j \in DOMAIN subjects
      BY <1>2
    <3> QED
      BY <1>2, <2>4, <2>5, <3>1 DEF Earliest
  <2>6. ASSUME NEW q \in DOMAIN requests
        PROVE  /\ requests'[q].subject \in 0..Len(subjects')
               /\ requests'[q].subject # 0 => Earliest(subjects', requests'[q].subject)
               /\ requests'[q].deleted => requests'[q].status \in Closed
    <3>1. /\ requests[q].subject \in 0..Len(subjects)
          /\ requests[q].subject # 0 => Earliest(subjects, requests[q].subject)
          /\ requests[q].deleted => requests[q].status \in Closed
      BY DEF ErasureInv
    <3>2. requests'[q].subject = requests[q].subject
      BY <2>1, <2>2
    <3>3. requests'[q].deleted => requests'[q].status \in Closed
      BY <2>1, <2>2, <3>1 DEF Closed
    <3>4. requests[q].subject # 0 => requests[q].subject \in 1..Len(subjects)
      BY <1>2, <3>1
    <3> QED
      BY <2>4, <2>5, <3>1, <3>2, <3>3, <3>4
  <2>7. ASSUME NEW i \in DOMAIN subjects
        PROVE  subjects'[i].erased <=> \E q \in DOMAIN requests : Erases(requests'[q], i)
    <3>1. subjects[i].erased <=> \E q \in DOMAIN requests : Erases(requests[q], i)
      BY DEF ErasureInv
    <3>2. ~ Erases(requests[r], i)
      BY <2>3 DEF Erases
    <3>3. Erases(requests'[r], i) <=> k = i /\ requests[r].type = "erasure" /\ d
      BY <2>2 DEF Erases
    <3>4. CASE Erases(requests'[r], i)
      <4>1. subjects'[i] = [email |-> subjects[i].email, erased |-> TRUE]
        BY <1>7, <3>3, <3>4 DEF Completed, Put
      <4> QED
        BY <3>4, <4>1
    <3>5. CASE ~ Erases(requests'[r], i)
      <4>1. subjects'[i] = subjects[i]
        BY <1>7, <3>3, <3>5 DEF Completed, Put
      <4>2. \A q \in DOMAIN requests : Erases(requests'[q], i) <=> Erases(requests[q], i)
        BY <2>1, <3>2, <3>5
      <4> QED
        BY <3>1, <4>1, <4>2
    <3> QED
      BY <3>4, <3>5
  <2> QED
    BY <1>1, <2>1, <2>4, <2>6, <2>7 DEF ErasureInv
<1>8. CASE Individuals
  BY <1>1, <1>4, <1>5, <1>6, <1>7, <1>8, IndividualEffect
<1> QED
  BY <1>1, <1>3, <1>8, EngagementEffect, PolicyEffect, BreachEffect DEF Next, vars

\* A subject is erased exactly when an erasure request bound to it was completed
\* with its data deleted, and only the first record of an address is ever bound.
THEOREM ErasureIsTraceable == Spec => []ErasureTraceable
<1>1. Init => ErasureInv
  <2>1. Init => TypeOK
    BY TypeUnfolded, EmptySeq DEF Init, TypeParts, Tables, EmptyTables
  <2> QED
    BY <2>1 DEF Init, ErasureInv
<1>2. ErasureInv /\ [Next]_vars => ErasureInv'
  BY ErasureStep
<1>3. ErasureInv => ErasureTraceable
  <2> SUFFICES ASSUME ErasureInv, NEW i \in DOMAIN subjects
               PROVE  /\ subjects[i].erased <=>
                            \E r \in DOMAIN requests :
                               /\ requests[r].subject = i
                               /\ requests[r].type = "erasure"
                               /\ requests[r].deleted
                               /\ requests[r].status \in Closed
                      /\ subjects[i].erased => SubjectOf(subjects[i].email) = i
    BY DEF ErasureTraceable
  <2>1. subjects[i].erased <=> \E r \in DOMAIN requests : Erases(requests[r], i)
    BY DEF ErasureInv
  <2>2. \A r \in DOMAIN requests : requests[r].deleted => requests[r].status \in Closed
    BY DEF ErasureInv
  <2>3. subjects \in Seq(Subject) /\ i # 0
    BY LenProperties DEF ErasureInv, TypeOK
  <2>4. subjects[i].erased => Earliest(subjects, i)
    BY <2>1, <2>3 DEF ErasureInv, Erases
  <2>5. subjects[i].erased => SubjectOf(subjects[i].email) = i
    BY <2>3, <2>4, EarliestFound
  <2> QED
    BY <2>1, <2>2, <2>5 DEF Erases
<1> QED
  BY <1>1, <1>2, <1>3, PTL DEF Spec

-----------------------------------------------------------------------------
(* Breaches.                                                               *)

\* What StatusTruthful says of one breach, and that it takes an assessment to
\* make one notifiable.
Truthful(b) ==
    /\ b.status = "resolved" => ~IcoDue(b)
    /\ b.status = "reported" => b.severity = "none" /\ ~b.ico /\ ~b.told /\ ~b.notifiable
    /\ b.status = "assessed" => b.severity # "none"
    /\ b.status = "ico_notified" => b.ico
    /\ b.status = "subjects_notified" => b.told /\ b.severity = "high"
    /\ b.told => b.severity # "none"

BreachInv == \A b \in DOMAIN breaches : Truthful(breaches[b])

LEMMA BreachStep == TypeOK /\ BreachInv /\ [Next]_vars => BreachInv'
<1> SUFFICES ASSUME TypeOK, BreachInv, [Next]_vars PROVE BreachInv'
  OBVIOUS
<1>1. /\ breaches \in Seq(Breach) /\ Len(breaches) \in Nat
      /\ DOMAIN breaches = 1..Len(breaches)
  BY LenProperties DEF TypeOK
<1>2. CASE breaches' = breaches
  BY <1>2 DEF BreachInv
<1>3. ASSUME NEW a \in BOOLEAN, breaches' = Append(breaches, Reported(a)) PROVE BreachInv'
  <2> DEFINE x == Reported(a)
  <2>1. x \in Breach /\ Truthful(x)
    BY DEF Breach, Reported, Case, Truthful, IcoDue
  <2> HIDE DEF x
  <2>2. /\ Len(breaches') = Len(breaches) + 1 /\ DOMAIN breaches' = 1..Len(breaches')
        /\ breaches'[Len(breaches')] = x
        /\ \A i \in 1..Len(breaches) : breaches'[i] = breaches[i]
    <3>1. breaches' = Append(breaches, x)
      BY <1>3 DEF x
    <3> QED
      BY <1>1, <2>1, <3>1, Added
  <2>3. \A i \in DOMAIN breaches' : i \in DOMAIN breaches \/ i = Len(breaches')
    BY <1>1, <2>2
  <2> QED
    BY <1>1, <2>1, <2>2, <2>3 DEF BreachInv
<1>4. ASSUME NEW b \in DOMAIN breaches, NEW x, Put(breaches, b, x, breaches'), Truthful(x)
      PROVE  BreachInv'
  BY <1>4 DEF Put, BreachInv
<1>5. ASSUME NEW b \in DOMAIN breaches PROVE Truthful(breaches[b]) /\ breaches[b] \in Breach
  BY <1>1, ElementOfSeq DEF BreachInv
<1>6. ASSUME NEW b \in DOMAIN breaches, NEW s \in Severity, NEW n \in BOOLEAN,
             Assessed(b, s, n)
      PROVE  BreachInv'
  <2>1. Truthful(Case(s, n, "assessed", breaches[b].ico, breaches[b].told,
                      breaches[b].aware))
    BY DEF Truthful, Case, Severity, IcoDue
  <2> QED
    BY <1>4, <1>6, <2>1 DEF Assessed
<1>7. ASSUME NEW b \in DOMAIN breaches, Notified(b) PROVE BreachInv'
  <2>1. Truthful(Case(breaches[b].severity, breaches[b].notifiable, "ico_notified",
                      TRUE, breaches[b].told, breaches[b].aware))
    BY <1>5, <1>7 DEF Truthful, Case, Notified
  <2> QED
    BY <1>4, <1>7, <2>1 DEF Notified
<1>8. ASSUME NEW b \in DOMAIN breaches, Told(b) PROVE BreachInv'
  <2>1. Truthful(Case(breaches[b].severity, breaches[b].notifiable, "subjects_notified",
                      breaches[b].ico, TRUE, breaches[b].aware))
    BY <1>5, <1>8 DEF Truthful, Case, Told
  <2> QED
    BY <1>4, <1>8, <2>1 DEF Told
<1>9. ASSUME NEW b \in DOMAIN breaches, Resolved(b) PROVE BreachInv'
  <2>1. Truthful(Case(breaches[b].severity, breaches[b].notifiable, "resolved",
                      breaches[b].ico, breaches[b].told, breaches[b].aware))
    BY <1>5, <1>9 DEF Truthful, Case, Resolved, IcoDue
  <2> QED
    BY <1>4, <1>9, <2>1 DEF Resolved
<1>10. CASE Breaches
  BY <1>3, <1>6, <1>7, <1>8, <1>9, <1>10, BreachEffect
<1> QED
  BY <1>2, <1>10, EngagementEffect, PolicyEffect, IndividualEffect DEF Next, vars

LEMMA BreachesTruthful == Spec => []BreachInv
<1>1. Init => BreachInv
  BY DEF Init, BreachInv
<1>2. TypeOK /\ BreachInv /\ [Next]_vars => BreachInv'
  BY BreachStep
<1> QED
  BY <1>1, <1>2, TypeCorrect, PTL DEF Spec

\* A breach's status agrees with the dates and the severity beside it, and no
\* notifiable breach is resolved without the ICO notified.
THEOREM StatusIsTruthful == Spec => []StatusTruthful
<1>1. BreachInv => StatusTruthful
  BY DEF BreachInv, StatusTruthful, Truthful
<1> QED
  BY <1>1, BreachesTruthful, PTL

\* The guards of the actions that DutiesCanBeMet asks to be enabled.
IcoUnbarred(b) ==
    /\ \E c \in DOMAIN breaches : IcoDue(breaches[c])
    /\ b \in DOMAIN breaches /\ breaches[b].status # "reported"
    /\ breaches[b].aware
SubjectsUnbarred(b) ==
    /\ \E c \in DOMAIN breaches : SubjectsDue(breaches[c])
    /\ b \in DOMAIN breaches /\ breaches[b].severity = "high"
CompletionUnbarred(r) ==
    /\ \E q \in DOMAIN requests : requests[q].status \in Open
    /\ r \in DOMAIN requests /\ requests[r].status \in Open

\* No guard bars a notification from the breach that owes it, or completion
\* from an open request: what is notifiable was assessed, whatever was resolved
\* or assessed again since.  The ICO's alone needs a discovery with a time zone.
THEOREM DutiesAreUnbarred ==
    Spec => [](/\ \A b \in DOMAIN breaches :
                     /\ IcoDue(breaches[b]) => (IcoUnbarred(b) <=> breaches[b].aware)
                     /\ SubjectsDue(breaches[b]) => SubjectsUnbarred(b)
               /\ \A r \in DOMAIN requests :
                     requests[r].status \in Open => CompletionUnbarred(r))
<1> DEFINE Unbarred ==
      /\ \A b \in DOMAIN breaches :
            /\ IcoDue(breaches[b]) => (IcoUnbarred(b) <=> breaches[b].aware)
            /\ SubjectsDue(breaches[b]) => SubjectsUnbarred(b)
      /\ \A r \in DOMAIN requests :
            requests[r].status \in Open => CompletionUnbarred(r)
<1>1. BreachInv => Unbarred
  BY DEF BreachInv, Truthful, IcoDue, SubjectsDue, IcoUnbarred, SubjectsUnbarred,
     CompletionUnbarred
<1> QED
  BY <1>1, BreachesTruthful, PTL
=============================================================================
