---------------------------- MODULE DurableProofs -----------------------------
(* What follows from DurableProject's promise alone, for any seeds in which *)
(* no action that is allowed once occurs twice.                             *)
EXTENDS DurableProject, SequenceTheorems, TLAPS

\* What a project starts with are actions, each at most as often as allowed.
SeedsAllowed ==
    /\ Seeds \in Seq(Exec)
    /\ \A i \in 1..Len(Seeds) : Seeds[i].action \in Actions
    /\ \A i, j \in 1..Len(Seeds) :
          Seeds[i].action = Seeds[j].action /\ Seeds[i].action \in Once => i = j
    /\ Once \subseteq Actions

\* A history is a sequence, of whatever has been noted in it.
IsHistory == history \in Seq({history[i] : i \in 1..Len(history)})

DurableInv == forced \/ (IsHistory /\ OnlyOnce /\ PublishedIsPast /\ OneAuthor)

\* One more event changes neither the events there are nor their effects.
LEMMA HistoryGrows ==
    ASSUME IsHistory, NEW e, history' = Append(history, e)
    PROVE  /\ Len(history) \in Nat /\ Len(history') = Len(history) + 1
           /\ history'[Len(history')] = e
           /\ \A i \in 1..Len(history) : history'[i] = history[i]
           /\ \A n \in 0..Len(history) : CommittedBy(n)' = CommittedBy(n)
           /\ e.action \in Actions => Committed' = Committed \cup {e}
           /\ e.action \notin Actions => Committed' = Committed
           /\ IsHistory'
<1> DEFINE S == {history[i] : i \in 1..Len(history)}
<1>1. history \in Seq(S \cup {e}) /\ Len(history) \in Nat
  <2>1. history \in Seq(S) /\ S \subseteq S \cup {e}
    BY DEF IsHistory
  <2> QED
    BY <2>1
<1>2. /\ Len(history') = Len(history) + 1 /\ history'[Len(history')] = e
      /\ \A i \in 1..Len(history) : history'[i] = history[i]
      /\ history' \in Seq(S \cup {e})
  BY <1>1, AppendProperties
<1>3. ASSUME NEW n \in 0..Len(history) PROVE CommittedBy(n)' = CommittedBy(n)
  <2>1. {history'[i] : i \in 1..n} = {history[i] : i \in 1..n}
    BY <1>1, <1>2
  <2> QED
    BY <2>1 DEF CommittedBy
<1>4. {history'[i] : i \in 1..Len(history')} = {history[i] : i \in 1..Len(history)} \cup {e}
  <2>1. 1..Len(history') = 1..Len(history) \cup {Len(history')}
    BY <1>1, <1>2
  <2> QED
    BY <1>1, <1>2, <2>1
<1>5. /\ e.action \in Actions => Committed' = Committed \cup {e}
      /\ e.action \notin Actions => Committed' = Committed
  BY <1>4 DEF Committed, CommittedBy
<1>6. IsHistory'
  BY <1>1, <1>2, <1>4 DEF IsHistory
<1> QED
  BY <1>1, <1>2, <1>3, <1>5, <1>6

\* What a project starts with keeps the promise.
LEMMA DurableInit ==
    ASSUME SeedsAllowed, Init PROVE DurableInv
<1>1. Seeds \in Seq(Exec) /\ Len(Seeds) \in Nat
  BY DEF SeedsAllowed
<1>2. \A i \in 1..Len(Seeds) : Seeds[i] \in {Seeds[j] : j \in 1..Len(Seeds)}
  OBVIOUS
<1>3. IsHistory
  BY <1>1, <1>2, SeqDef DEF Init, IsHistory
<1>4. OnlyOnce /\ OneAuthor
  BY DEF Init, SeedsAllowed, OnlyOnce, OneAuthor, Unpublished
<1>5. PublishedIsPast
  BY <1>1 DEF Init, PublishedIsPast, Committed
<1> QED
  BY <1>3, <1>4, <1>5 DEF DurableInv

\* Every step keeps the promise, or forces an entry.
LEMMA DurableStep ==
    ASSUME SeedsAllowed, DurableInv, [Next]_vars PROVE DurableInv'
<1> SUFFICES ASSUME ~ forced' PROVE DurableInv'
  BY DEF DurableInv
<1>1. CASE UNCHANGED vars
  BY <1>1 DEF vars, DurableInv, IsHistory, OnlyOnce, PublishedIsPast, OneAuthor, Unpublished,
     Committed, CommittedBy
<1>2. ASSUME ~ forced, Promised PROVE DurableInv'
  <2>1. /\ IsHistory /\ Len(history) \in Nat
        /\ \E n \in 0..Len(history) : published = CommittedBy(n)
        /\ \A e, f \in Unpublished : e.by = f.by
        /\ \A i, j \in 1..Len(history) :
              history[i].action = history[j].action /\ history[i].action \in Once => i = j
    BY <1>2 DEF DurableInv, IsHistory, OnlyOnce, PublishedIsPast, OneAuthor
  \* An event that is added is the only one of its kind, and its author's.
  <2>2. ASSUME NEW e, history' = Append(history, e), published' = published,
               e.action \in Once => \A i \in 1..Len(history) : history[i].action # e.action,
               e.action \in Actions => \A f \in Unpublished : f.by = e.by
        PROVE  DurableInv'
    <3>1. /\ Len(history') = Len(history) + 1 /\ history'[Len(history')] = e
          /\ \A i \in 1..Len(history) : history'[i] = history[i]
          /\ \A n \in 0..Len(history) : CommittedBy(n)' = CommittedBy(n)
          /\ e.action \in Actions => Committed' = Committed \cup {e}
          /\ e.action \notin Actions => Committed' = Committed
          /\ IsHistory'
      BY <2>1, <2>2, HistoryGrows
    <3>2. PublishedIsPast'
      BY <2>1, <2>2, <3>1 DEF PublishedIsPast
    <3>3. OneAuthor'
      BY <2>1, <2>2, <3>1 DEF OneAuthor, Unpublished
    <3>4. OnlyOnce'
      <4> SUFFICES ASSUME NEW i \in 1..Len(history'), NEW j \in 1..Len(history'),
                          history'[i].action = history'[j].action,
                          history'[i].action \in Once
                   PROVE  i = j
        BY DEF OnlyOnce
      <4>1. /\ i \in 1..Len(history) \/ i = Len(history')
            /\ j \in 1..Len(history) \/ j = Len(history')
        BY <2>1, <3>1
      <4> QED
        BY <2>1, <2>2, <3>1, <4>1
    <3> QED
      BY <3>1, <3>2, <3>3, <3>4 DEF DurableInv
  <2>3. CASE Note
    <3> DEFINE e == history'[Len(history')]
    <3>1. history' = Append(history, e) /\ published' = published /\ e.action \notin Actions
      BY <2>3 DEF Note
    <3>2. e.action \notin Once
      BY <3>1 DEF SeedsAllowed
    <3> HIDE DEF e
    <3> QED
      BY <2>2, <3>1, <3>2
  <2>4. ASSUME NEW e \in Exec, Commit(e) PROVE DurableInv'
    <3>1. ASSUME e.action \in Once, NEW i \in 1..Len(history) PROVE history[i].action # e.action
      <4>1. \A f \in Committed : f.action # e.action
        BY <2>4, <3>1 DEF Commit, Allowed
      <4>2. e.action \in Actions
        BY <2>4 DEF Commit
      <4> QED
        BY <4>1, <4>2 DEF Committed, CommittedBy
    <3> QED
      BY <2>2, <2>4, <3>1 DEF Commit
  <2>5. CASE Publish
    <3>1. history' = history /\ published' = Committed
      BY <2>5 DEF Publish
    <3>2. PublishedIsPast'
      BY <2>1, <3>1 DEF PublishedIsPast, Committed, CommittedBy
    <3>3. OneAuthor' /\ OnlyOnce' /\ IsHistory'
      BY <2>1, <3>1 DEF OneAuthor, Unpublished, Committed, CommittedBy, OnlyOnce, IsHistory
    <3> QED
      BY <3>2, <3>3 DEF DurableInv
  <2> QED
    BY <1>2, <2>3, <2>4, <2>5 DEF Promised
<1> QED
  BY <1>1, <1>2 DEF Next

\* Whoever keeps the promise commits an action that is allowed once at most
\* once, publishes nothing but pasts of the project, and leaves no two
\* authors' commits unpublished.
THEOREM PromiseKept ==
    ASSUME SeedsAllowed PROVE Spec => [](OnlyOnce /\ PublishedIsPast /\ OneAuthor)
<1>1. Init => DurableInv
  BY DurableInit
<1>2. DurableInv /\ [Next]_vars => DurableInv'
  BY DurableStep
<1>3. DurableInv => OnlyOnce /\ PublishedIsPast /\ OneAuthor
  BY DEF DurableInv, OnlyOnce, PublishedIsPast, OneAuthor
<1> QED
  BY <1>1, <1>2, <1>3, PTL DEF Spec
=============================================================================
