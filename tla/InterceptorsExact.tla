------------------------- MODULE InterceptorsExact --------------------------
(***************************************************************************)
(* Theorems about Interceptors, for any number of goroutines and           *)
(* registrations: the registry holds what is subscribed, Unsubscribe is    *)
(* settled when it returns, and a query asks exactly whom it should.       *)
(***************************************************************************)
EXTENDS Interceptors, SequenceTheorems, TLAPS

-----------------------------------------------------------------------------
(* The inductive invariant *)

\* Ids are given out in order.
IdsInOrder == \A i \in Ids : sub[i] = "none" <=> i > nextID

Sorted(s) == \A j, k \in DOMAIN s : j < k => s[j] < s[k]

\* sync.Once lets one goroutine remove an entry; the others wait for a
\* subscription that exists.
OneRemoves ==
    /\ \A p \in Procs : pc[p] = "remove" => arg[p] \in Ids /\ sub[arg[p]] = "removing"
    /\ \A p, q \in Procs :
         pc[p] = "remove" /\ pc[q] = "remove" /\ arg[p] = arg[q] => p = q
    /\ \A p \in Procs : pc[p] = "wait" => arg[p] \in Ids

\* p is in a query that has made its copy, or in a callback of one.
Asking(p) ==
    \/ pc[p] \in {"next", "callback"}
    \/ pc[p] \in {"remove", "wait"} /\ back[p] = "callback"

\* The copy of a query keeps the order, and holds whoever is still subscribed
\* and has not been asked.
CopiesAreExact ==
    \A p \in Procs :
      /\ late[p] \subseteq Gone
      /\ \A i \in early[p] : i <= nextID
      /\ Sorted(queue[p])
      /\ pc[p] = "next" => current[p] = 0
      /\ ~Asking(p) => current[p] = 0 /\ queue[p] = <<>>
      /\ Asking(p) => early[p] \cap Subscribed \subseteq asked[p] \cup ToSet(queue[p])

ExactInv ==
    /\ TypeOK /\ IdsInOrder /\ RegistryIsExact /\ OneRemoves
    /\ CopiesAreExact /\ LaterQueriesSkipIt

-----------------------------------------------------------------------------
(* Sequences *)

\* A new entry with a larger id.
LEMMA Appended ==
    ASSUME NEW s \in Seq(Ids), NEW e \in Ids, Sorted(s),
           \A k \in DOMAIN s : s[k] < e
    PROVE  /\ Append(s, e) \in Seq(Ids)
           /\ Sorted(Append(s, e))
           /\ ToSet(Append(s, e)) = ToSet(s) \cup {e}
<1>1. /\ Append(s, e) \in Seq(Ids)
      /\ Len(Append(s, e)) = Len(s) + 1 /\ DOMAIN Append(s, e) = 1..(Len(s) + 1)
      /\ \A k \in 1..Len(s) : Append(s, e)[k] = s[k]
      /\ Append(s, e)[Len(s) + 1] = e
      /\ Len(s) \in Nat /\ DOMAIN s = 1..Len(s)
  OBVIOUS
<1> DEFINE t == Append(s, e)
<1> HIDE DEF t
<1>2. Sorted(t)
  BY <1>1 DEF Sorted, t, Ids
<1>3. ToSet(t) = ToSet(s) \cup {e}
  BY <1>1 DEF ToSet, t
<1> QED
  BY <1>1, <1>2, <1>3 DEF t

\* Ids of a sorted sequence are distinct, so that cutting out the first entry
\* with an id cuts out the only one.
LEMMA Removed ==
    ASSUME entries \in Seq(Ids), Sorted(entries), NEW i \in Ids
    PROVE  /\ Without(i) \in Seq(Ids)
           /\ Sorted(Without(i))
           /\ ToSet(Without(i)) = ToSet(entries) \ {i}
<1>1. CASE i \notin ToSet(entries)
  BY <1>1 DEF Without
<1>2. CASE i \in ToSet(entries)
  <2> DEFINE First(k) == k \in DOMAIN entries /\ entries[k] = i
                           /\ \A j \in 1..(k - 1) : entries[j] # i
             index == CHOOSE k \in DOMAIN entries :
                        entries[k] = i /\ \A j \in 1..(k - 1) : entries[j] # i
             t == [k \in 1..(Len(entries) - 1) |->
                     IF k < index THEN entries[k] ELSE entries[k + 1]]
  <2>1. Len(entries) \in Nat /\ DOMAIN entries = 1..Len(entries)
        /\ \A k \in 1..Len(entries) : entries[k] \in Ids
    OBVIOUS
  <2>2. PICK n \in DOMAIN entries : entries[n] = i
    BY <1>2 DEF ToSet
  <2>3. First(n)
    BY <2>1, <2>2 DEF Sorted, Ids
  <2>4. index \in DOMAIN entries /\ entries[index] = i
    BY <2>3
  <2>5. Without(i) = t
    BY <1>2 DEF Without
  <2> HIDE DEF index
  <2>6. t \in Seq(Ids) /\ DOMAIN t = 1..(Len(entries) - 1)
    <3>1. Len(entries) - 1 \in Nat
      BY <2>1, <2>4
    <3>2. \A k \in 1..(Len(entries) - 1) : t[k] \in Ids
      BY <2>1
    <3> QED
      BY <3>1, <3>2, IsASeq
  <2>7. \A k \in 1..(Len(entries) - 1) :
          t[k] = IF k < index THEN entries[k] ELSE entries[k + 1]
    OBVIOUS
  <2> HIDE DEF t
  <2> DEFINE m(k) == IF k < index THEN k ELSE k + 1
  <2>0. ASSUME NEW k \in DOMAIN t
        PROVE  /\ m(k) \in DOMAIN entries /\ m(k) # index /\ t[k] = entries[m(k)]
    BY <2>1, <2>4, <2>6, <2>7
  <2>8. ASSUME NEW j \in DOMAIN t, NEW k \in DOMAIN t, j < k PROVE t[j] < t[k]
    <3>1. m(j) < m(k)
      BY <2>1, <2>4, <2>6, <2>8
    <3> HIDE DEF m
    <3> QED
      BY <2>0, <3>1 DEF Sorted
  <2> HIDE DEF m
  <2>9. ASSUME NEW k \in DOMAIN t PROVE t[k] \in ToSet(entries) \ {i}
    <3>1. m(k) \in 1..Len(entries) /\ index \in 1..Len(entries) /\ m(k) # index
      BY <2>0, <2>1, <2>4
    <3>2. m(k) < index \/ index < m(k)
      BY <2>1, <3>1
    <3>3. entries[m(k)] < entries[index] \/ entries[index] < entries[m(k)]
      BY <2>1, <3>1, <3>2 DEF Sorted
    <3>4. entries[m(k)] # i
      BY <2>1, <2>4, <3>1, <3>3 DEF Ids
    <3> QED
      BY <2>0, <2>1, <3>1, <3>4 DEF ToSet
  <2>10. ASSUME NEW k \in DOMAIN entries, entries[k] # i
         PROVE  \E j \in DOMAIN t : t[j] = entries[k]
    <3>1. CASE k < index
      <4>1. k \in DOMAIN t /\ t[k] = entries[k]
        BY <2>1, <2>4, <2>6, <2>7, <3>1
      <4> QED
        BY <4>1
    <3>2. CASE k > index
      <4>1. k - 1 \in DOMAIN t /\ t[k - 1] = entries[k]
        BY <2>1, <2>4, <2>6, <2>7, <3>2
      <4> QED
        BY <4>1
    <3> QED
      BY <2>1, <2>4, <2>10, <3>1, <3>2
  <2>11. ToSet(t) = ToSet(entries) \ {i}
    BY <2>9, <2>10 DEF ToSet
  <2> QED
    BY <2>5, <2>6, <2>8, <2>11 DEF Sorted
<1> QED
  BY <1>1, <1>2

\* The head of a sorted sequence comes before the others.
LEMMA Taken ==
    ASSUME NEW s \in Seq(Ids), s # <<>>, Sorted(s)
    PROVE  /\ Head(s) \in Ids /\ Tail(s) \in Seq(Ids)
           /\ Sorted(Tail(s))
           /\ \A k \in DOMAIN Tail(s) : Head(s) < Tail(s)[k]
           /\ ToSet(s) = {Head(s)} \cup ToSet(Tail(s))
<1> DEFINE t == Tail(s)
<1>1. /\ Len(s) \in Nat \ {0} /\ DOMAIN s = 1..Len(s)
      /\ \A k \in 1..Len(s) : s[k] \in Ids
      /\ Head(s) = s[1] /\ t \in Seq(Ids)
      /\ DOMAIN t = 1..(Len(s) - 1)
      /\ \A k \in 1..(Len(s) - 1) : t[k] = s[k + 1]
  OBVIOUS
<1> HIDE DEF t
<1>2. ASSUME NEW k \in DOMAIN t
      PROVE  k + 1 \in DOMAIN s /\ t[k] = s[k + 1] /\ Head(s) < t[k]
  <2>1. k + 1 \in DOMAIN s /\ 1 \in DOMAIN s /\ 1 < k + 1 /\ t[k] = s[k + 1]
    BY <1>1
  <2> QED
    BY <1>1, <2>1 DEF Sorted
<1>6. ASSUME NEW j \in DOMAIN t, NEW k \in DOMAIN t, j < k PROVE t[j] < t[k]
  <2>1. j + 1 < k + 1
    BY <1>1, <1>6
  <2> QED
    BY <1>2, <2>1 DEF Sorted
<1>3. ASSUME NEW k \in DOMAIN s PROVE s[k] = Head(s) \/ \E j \in DOMAIN t : t[j] = s[k]
  <2>1. CASE k = 1
    BY <1>1, <2>1
  <2>2. CASE k # 1
    <3>1. k - 1 \in DOMAIN t /\ t[k - 1] = s[k]
      BY <1>1, <2>2
    <3> QED
      BY <3>1
  <2> QED
    BY <2>1, <2>2
<1>4. \A j \in DOMAIN t : \E k \in DOMAIN s : s[k] = t[j]
  BY <1>1
<1>5. ToSet(s) = {Head(s)} \cup ToSet(t)
  <2>1. ASSUME NEW x \in ToSet(s) PROVE x \in {Head(s)} \cup ToSet(t)
    BY <1>3, <2>1 DEF ToSet
  <2>2. ASSUME NEW x \in ToSet(t) PROVE x \in ToSet(s)
    BY <1>4, <2>2 DEF ToSet
  <2>3. Head(s) \in ToSet(s)
    <3>1. 1 \in DOMAIN s /\ s[1] = Head(s)
      BY <1>1
    <3> QED
      BY <3>1 DEF ToSet
  <2> QED
    BY <2>1, <2>2, <2>3
<1>7. Head(s) \in Ids
  BY <1>1
<1> QED
  BY <1>1, <1>2, <1>5, <1>6, <1>7 DEF t, Sorted

-----------------------------------------------------------------------------
(* Steps *)

\* A step of goroutine p.
Step(p) ==
    \/ InterceptQueries(p)
    \/ Unsubscribe(p) \/ UnsubscribeRemove(p) \/ UnsubscribeWait(p)
    \/ Query(p) \/ QueryRefused(p) \/ CopyEntries(p) \/ Invoke(p)
    \/ PassOn(p) \/ Answer(p) \/ FallThrough(p)

\* What a registration does to the registry: its id is new and the largest.
LEMMA RegisterEffect ==
    ASSUME ExactInv, NEW p \in Procs, InterceptQueries(p)
    PROVE  /\ nextID' \in Ids /\ sub[nextID'] = "none"
           /\ entries' \in Seq(Ids) /\ Sorted(entries')
           /\ ToSet(entries') = ToSet(entries) \cup {nextID'}
<1>1. nextID' = nextID + 1 /\ nextID' \in Ids /\ nextID \in Nat /\ nextID < nextID'
  BY InterceptorsAssumption DEF InterceptQueries, ExactInv, TypeOK, Ids
<1>2. sub[nextID'] = "none"
  BY <1>1 DEF ExactInv, IdsInOrder
<1>3. entries \in Seq(Ids) /\ Sorted(entries)
  BY DEF ExactInv, TypeOK, RegistryIsExact, Sorted
<1>4. ASSUME NEW k \in DOMAIN entries PROVE entries[k] < nextID'
  <2>1. entries[k] \in ToSet(entries) /\ entries[k] \in Ids
    BY <1>3 DEF ToSet
  <2>2. sub[entries[k]] # "none"
    BY <2>1 DEF ExactInv, RegistryIsExact
  <2> QED
    BY <1>1, <2>1, <2>2 DEF ExactInv, IdsInOrder, Ids
<1> QED
  BY <1>1, <1>2, <1>3, <1>4, Appended DEF InterceptQueries

\* What a removal does to the registry.
LEMMA RemoveEffect ==
    ASSUME ExactInv, NEW p \in Procs, UnsubscribeRemove(p)
    PROVE  /\ arg[p] \in Ids /\ sub[arg[p]] = "removing"
           /\ entries' \in Seq(Ids) /\ Sorted(entries')
           /\ ToSet(entries') = ToSet(entries) \ {arg[p]}
<1>1. arg[p] \in Ids /\ sub[arg[p]] = "removing"
  BY DEF ExactInv, OneRemoves, UnsubscribeRemove
<1>2. entries \in Seq(Ids) /\ Sorted(entries)
  BY DEF ExactInv, TypeOK, RegistryIsExact, Sorted
<1> QED
  BY <1>1, <1>2, Removed DEF UnsubscribeRemove

\* What a call of an interceptor does to the copy of its query.
LEMMA InvokeEffect ==
    ASSUME ExactInv, NEW p \in Procs, Invoke(p)
    PROVE  /\ current'[p] \in Ids /\ queue'[p] \in Seq(Ids) /\ Sorted(queue'[p])
           /\ \A k \in DOMAIN queue'[p] : current'[p] < queue'[p][k]
           /\ ToSet(queue[p]) = {current'[p]} \cup ToSet(queue'[p])
           /\ asked'[p] = asked[p] \cup {current'[p]}
<1>1. queue[p] \in Seq(Ids) /\ queue[p] # <<>> /\ Sorted(queue[p])
  BY DEF ExactInv, TypeOK, CopiesAreExact, Invoke
<1>2. current'[p] = Head(queue[p]) /\ queue'[p] = Tail(queue[p])
      /\ asked'[p] = asked[p] \cup {Head(queue[p])}
  BY DEF Invoke, ExactInv, TypeOK
<1> QED
  BY <1>1, <1>2, Taken

\* Steps keep the types.
LEMMA TypesStep ==
    ASSUME ExactInv, NEW p \in Procs, Step(p)
    PROVE  TypeOK'
<1> USE InterceptorsAssumption
    DEF ExactInv, TypeOK, Ids, Gone, Subscribed
<1>1. CASE InterceptQueries(p)
  BY <1>1, RegisterEffect DEF InterceptQueries, query
<1>2. CASE Unsubscribe(p)
  <2>1. PICK i \in Ids :
          /\ arg' = [arg EXCEPT ![p] = i]
          /\ sub' = [sub EXCEPT ![i] = "removing"] \/ sub' = sub
          /\ Goto(p, "remove") \/ Goto(p, "wait")
    BY <1>2 DEF Unsubscribe
  <2>2. arg' \in [Procs -> 0..MaxSubs]
    BY <2>1
  <2>4. sub' \in [Ids -> {"none", "active", "removing", "gone"}]
    BY <2>1
  <2>5. pc' \in [Procs -> {"idle", "copy", "next", "callback", "remove", "wait"}]
    BY <2>1 DEF Goto
  <2>3. back' \in [Procs -> {"idle", "callback"}]
    BY <1>2 DEF Unsubscribe
  <2> QED
    BY <1>2, <2>2, <2>3, <2>4, <2>5 DEF Unsubscribe, query
<1>3. CASE UnsubscribeRemove(p)
  <2>1. entries' \in Seq(Ids) /\ arg[p] \in Ids
    BY <1>3, RemoveEffect
  <2>2. sub' = [sub EXCEPT ![arg[p]] = "gone"] /\ pc' = [pc EXCEPT ![p] = back[p]]
        /\ arg' = [arg EXCEPT ![p] = 0] /\ back' = [back EXCEPT ![p] = "idle"]
        /\ UNCHANGED <<nextID, query>>
    BY <1>3 DEF UnsubscribeRemove, Goto
  <2> QED
    BY <2>1, <2>2 DEF query
<1>4. CASE UnsubscribeWait(p)
  BY <1>4 DEF UnsubscribeWait, query, Goto
<1>5. CASE Query(p)
  BY <1>5 DEF Query, Goto
<1>6. CASE QueryRefused(p)
  BY <1>6 DEF QueryRefused, Done, Goto
<1>7. CASE CopyEntries(p)
  BY <1>7 DEF CopyEntries, Goto
<1>8. CASE Invoke(p)
  BY <1>8, InvokeEffect DEF Invoke, Goto
<1>9. CASE PassOn(p)
  BY <1>9 DEF PassOn, Goto
<1>10. CASE Answer(p)
  BY <1>10 DEF Answer, Done, Goto
<1>11. CASE FallThrough(p)
  BY <1>11 DEF FallThrough, Done, Goto
<1> QED
  BY <1>1, <1>2, <1>3, <1>4, <1>5, <1>6, <1>7, <1>8, <1>9, <1>10, <1>11
     DEF Step

\* An id is given out once, and sub follows.
LEMMA IdsStep ==
    ASSUME ExactInv, NEW p \in Procs, Step(p)
    PROVE  IdsInOrder'
<1> USE InterceptorsAssumption
    DEF ExactInv, TypeOK, IdsInOrder, Ids
<1>1. CASE InterceptQueries(p)
  BY <1>1, RegisterEffect DEF InterceptQueries, query
<1>2. CASE Unsubscribe(p)
  BY <1>2 DEF Unsubscribe, query, Goto
<1>3. CASE UnsubscribeRemove(p)
  BY <1>3, RemoveEffect DEF UnsubscribeRemove, query, Goto
<1>4. CASE UnsubscribeWait(p)
  BY <1>4 DEF UnsubscribeWait, query, Goto
<1>5. CASE Query(p)
  BY <1>5 DEF Query, Goto
<1>6. CASE QueryRefused(p)
  BY <1>6 DEF QueryRefused, Done, Goto
<1>7. CASE CopyEntries(p)
  BY <1>7 DEF CopyEntries, Goto
<1>8. CASE Invoke(p)
  BY <1>8, InvokeEffect DEF Invoke, Goto
<1>9. CASE PassOn(p)
  BY <1>9 DEF PassOn, Goto
<1>10. CASE Answer(p)
  BY <1>10 DEF Answer, Done, Goto
<1>11. CASE FallThrough(p)
  BY <1>11 DEF FallThrough, Done, Goto
<1> QED
  BY <1>1, <1>2, <1>3, <1>4, <1>5, <1>6, <1>7, <1>8, <1>9, <1>10, <1>11
     DEF Step

\* Registrations and removals keep the registry exact.
LEMMA RegistryStep ==
    ASSUME ExactInv, NEW p \in Procs, Step(p)
    PROVE  RegistryIsExact'
<1> USE InterceptorsAssumption
    DEF ExactInv, TypeOK, RegistryIsExact, Sorted
<1>1. CASE InterceptQueries(p)
  BY <1>1, RegisterEffect DEF InterceptQueries, query
<1>2. CASE Unsubscribe(p)
  BY <1>2 DEF Unsubscribe, query, Goto
<1>3. CASE UnsubscribeRemove(p)
  BY <1>3, RemoveEffect DEF UnsubscribeRemove, query, Goto
<1>4. CASE UnsubscribeWait(p)
  BY <1>4 DEF UnsubscribeWait, query, Goto
<1>5. CASE Query(p)
  BY <1>5 DEF Query, Goto
<1>6. CASE QueryRefused(p)
  BY <1>6 DEF QueryRefused, Done, Goto
<1>7. CASE CopyEntries(p)
  BY <1>7 DEF CopyEntries, Goto
<1>8. CASE Invoke(p)
  BY <1>8, InvokeEffect DEF Invoke, Goto
<1>9. CASE PassOn(p)
  BY <1>9 DEF PassOn, Goto
<1>10. CASE Answer(p)
  BY <1>10 DEF Answer, Done, Goto
<1>11. CASE FallThrough(p)
  BY <1>11 DEF FallThrough, Done, Goto
<1> QED
  BY <1>1, <1>2, <1>3, <1>4, <1>5, <1>6, <1>7, <1>8, <1>9, <1>10, <1>11
     DEF Step

\* An active subscription has no remover yet; one that is removed is left alone.
LEMMA RemovesStep ==
    ASSUME ExactInv, NEW p \in Procs, Step(p)
    PROVE  OneRemoves'
<1> USE InterceptorsAssumption
    DEF ExactInv, TypeOK, OneRemoves, Ids
<1>1. CASE InterceptQueries(p)
  BY <1>1, RegisterEffect DEF InterceptQueries, query
<1>2. CASE Unsubscribe(p)
  BY <1>2 DEF Unsubscribe, query, Goto
<1>3. CASE UnsubscribeRemove(p)
  BY <1>3, RemoveEffect DEF UnsubscribeRemove, query, Goto
<1>4. CASE UnsubscribeWait(p)
  BY <1>4 DEF UnsubscribeWait, query, Goto
<1>5. CASE Query(p)
  BY <1>5 DEF Query, Goto
<1>6. CASE QueryRefused(p)
  BY <1>6 DEF QueryRefused, Done, Goto
<1>7. CASE CopyEntries(p)
  BY <1>7 DEF CopyEntries, Goto
<1>8. CASE Invoke(p)
  BY <1>8, InvokeEffect DEF Invoke, Goto
<1>9. CASE PassOn(p)
  BY <1>9 DEF PassOn, Goto
<1>10. CASE Answer(p)
  BY <1>10 DEF Answer, Done, Goto
<1>11. CASE FallThrough(p)
  BY <1>11 DEF FallThrough, Done, Goto
<1> QED
  BY <1>1, <1>2, <1>3, <1>4, <1>5, <1>6, <1>7, <1>8, <1>9, <1>10, <1>11
     DEF Step

\* A copy is made of the exact registry and worked off from the front.
LEMMA CopiesStep ==
    ASSUME ExactInv, NEW p \in Procs, Step(p)
    PROVE  CopiesAreExact'
<1> USE InterceptorsAssumption
    DEF ExactInv, TypeOK, IdsInOrder, RegistryIsExact, CopiesAreExact, Asking, Sorted, Gone, Subscribed
<1>1. CASE InterceptQueries(p)
  <2>1. nextID' \in Ids /\ sub[nextID'] = "none" /\ nextID' = nextID + 1
    BY <1>1, RegisterEffect DEF InterceptQueries
  <2>2. sub' = [sub EXCEPT ![nextID'] = "active"] /\ UNCHANGED <<pc, back, arg, query>>
    BY <1>1 DEF InterceptQueries
  <2>3. Gone' = Gone /\ Subscribed' = Subscribed \cup {nextID'}
    BY <2>1, <2>2
  <2>4. \A q \in Procs : \A i \in early[q] : i <= nextID' /\ i # nextID'
    BY <2>1 DEF Ids
  <2> QED
    BY <2>2, <2>3, <2>4 DEF query
<1>2. CASE Unsubscribe(p)
  BY <1>2 DEF Unsubscribe, query, Goto
<1>3. CASE UnsubscribeRemove(p)
  BY <1>3, RemoveEffect DEF UnsubscribeRemove, query, Goto
<1>4. CASE UnsubscribeWait(p)
  BY <1>4 DEF UnsubscribeWait, query, Goto
<1>5. CASE Query(p)
  <2>1. \A i \in Subscribed : i <= nextID
    BY DEF Ids
  <2> HIDE DEF Subscribed, Gone
  <2>2. Gone' = Gone /\ Subscribed' = Subscribed
    BY <1>5 DEF Query, Gone, Subscribed
  <2> QED
    BY <1>5, <2>1, <2>2 DEF Query, Goto
<1>6. CASE QueryRefused(p)
  BY <1>6 DEF QueryRefused, Done, Goto
<1>7. CASE CopyEntries(p)
  BY <1>7 DEF CopyEntries, Goto
<1>8. CASE Invoke(p)
  <2>1. /\ Sorted(queue'[p])
        /\ ToSet(queue[p]) = {current'[p]} \cup ToSet(queue'[p])
        /\ asked'[p] = asked[p] \cup {current'[p]}
    BY <1>8, InvokeEffect
  <2>2. Gone' = Gone /\ Subscribed' = Subscribed /\ pc[p] = "next" /\ pc'[p] = "callback"
    BY <1>8 DEF Invoke, Goto
  <2>3. \A q \in Procs \ {p} :
          /\ pc'[q] = pc[q] /\ back'[q] = back[q] /\ queue'[q] = queue[q]
          /\ current'[q] = current[q] /\ asked'[q] = asked[q]
    BY <1>8 DEF Invoke, Goto
  <2> HIDE DEF Gone, Subscribed, Sorted
  <2> QED
    BY <1>8, <2>1, <2>2, <2>3 DEF Invoke
<1>9. CASE PassOn(p)
  BY <1>9 DEF PassOn, Goto
<1>10. CASE Answer(p)
  BY <1>10 DEF Answer, Done, Goto
<1>11. CASE FallThrough(p)
  BY <1>11 DEF FallThrough, Done, Goto
<1> QED
  BY <1>1, <1>2, <1>3, <1>4, <1>5, <1>6, <1>7, <1>8, <1>9, <1>10, <1>11
     DEF Step

\* What is gone when a query starts is in no copy it makes.
LEMMA LaterStep ==
    ASSUME ExactInv, NEW p \in Procs, Step(p)
    PROVE  LaterQueriesSkipIt'
<1> USE InterceptorsAssumption
    DEF ExactInv, TypeOK, RegistryIsExact, CopiesAreExact, LaterQueriesSkipIt, Asking, Sorted, Gone, Subscribed, Ids
<1>1. CASE InterceptQueries(p)
  BY <1>1, RegisterEffect DEF InterceptQueries, query
<1>2. CASE Unsubscribe(p)
  BY <1>2 DEF Unsubscribe, query, Goto
<1>3. CASE UnsubscribeRemove(p)
  BY <1>3, RemoveEffect DEF UnsubscribeRemove, query, Goto
<1>4. CASE UnsubscribeWait(p)
  BY <1>4 DEF UnsubscribeWait, query, Goto
<1>5. CASE Query(p)
  <2>1. current[p] = 0 /\ queue[p] = <<>>
    BY <1>5 DEF Query
  <2>2. 0 \notin Gone /\ ToSet(<<>>) = {}
    BY DEF ToSet
  <2> HIDE DEF Gone
  <2> QED
    BY <1>5, <2>1, <2>2 DEF Query
<1>6. CASE QueryRefused(p)
  BY <1>6 DEF QueryRefused, Done, Goto
<1>7. CASE CopyEntries(p)
  <2>1. current[p] = 0 /\ ToSet(entries) \cap late[p] = {}
    BY <1>7 DEF CopyEntries
  <2>2. \A k \in DOMAIN entries : 0 < entries[k]
    <3>1. \A k \in DOMAIN entries : entries[k] \in 1..MaxSubs
      OBVIOUS
    <3> QED
      BY <3>1
  <2>3. queue' = [queue EXCEPT ![p] = entries] /\ UNCHANGED <<current, late>>
    BY <1>7 DEF CopyEntries
  <2> HIDE DEF Gone
  <2> QED
    BY <2>1, <2>2, <2>3
<1>8. CASE Invoke(p)
  BY <1>8, InvokeEffect DEF Invoke, Goto
<1>9. CASE PassOn(p)
  BY <1>9 DEF PassOn, Goto
<1>10. CASE Answer(p)
  BY <1>10 DEF Answer, Done, Goto
<1>11. CASE FallThrough(p)
  BY <1>11 DEF FallThrough, Done, Goto
<1> QED
  BY <1>1, <1>2, <1>3, <1>4, <1>5, <1>6, <1>7, <1>8, <1>9, <1>10, <1>11
     DEF Step

-----------------------------------------------------------------------------
(* Theorems *)

\* The parts together are inductive.
THEOREM ExactInvariant == Spec => []ExactInv
<1>1. Init => ExactInv
  <2> SUFFICES ASSUME Init PROVE ExactInv
    OBVIOUS
  <2>1. ToSet(<<>>) = {} /\ Sorted(<<>>)
    BY DEF ToSet, Sorted
  <2>2. TypeOK /\ IdsInOrder /\ OneRemoves
    BY InterceptorsAssumption DEF Init, TypeOK, IdsInOrder, OneRemoves, Ids
  <2>3. RegistryIsExact
    BY <2>1 DEF Init, RegistryIsExact
  <2>4. CopiesAreExact /\ LaterQueriesSkipIt
    BY <2>1 DEF Init, CopiesAreExact, LaterQueriesSkipIt, Asking
  <2> QED
    BY <2>2, <2>3, <2>4 DEF ExactInv
<1>2. ExactInv /\ [Next]_vars => ExactInv'
  <2> SUFFICES ASSUME ExactInv, [Next]_vars PROVE ExactInv'
    OBVIOUS
  <2>1. ASSUME NEW p \in Procs, Step(p) PROVE ExactInv'
    BY <2>1, TypesStep, IdsStep, RegistryStep, RemovesStep, CopiesStep, LaterStep
    DEF ExactInv
  <2>2. CASE UNCHANGED vars
    BY <2>2 DEF vars, ExactInv, TypeOK, IdsInOrder, RegistryIsExact, OneRemoves,
       CopiesAreExact, LaterQueriesSkipIt, Asking, Gone, Subscribed
  <2> QED
    BY <2>1, <2>2 DEF Next, Step
<1> QED
  BY <1>1, <1>2, PTL DEF Spec

\* Every variable keeps its type.
THEOREM TypeCorrect == Spec => []TypeOK
BY ExactInvariant, PTL DEF ExactInv

\* The registry holds exactly the subscriptions not yet removed, in the order of
\* their registration.
THEOREM RegistryExactness == Spec => []RegistryIsExact
BY ExactInvariant, PTL DEF ExactInv

\* A query that starts after Unsubscribe has returned does not run the
\* interceptor, and those it runs come in the order of registration.
THEOREM RemovedStayAway == Spec => []LaterQueriesSkipIt
BY ExactInvariant, PTL DEF ExactInv

\* Whichever of several concurrent Unsubscribe calls returns, the entry is gone.
THEOREM UnsubscribeSettles == Spec => UnsubscribeIsSettled
<1> DEFINE Settled == \A p \in Procs :
             pc[p] \in {"remove", "wait"} /\ pc'[p] \notin {"remove", "wait"}
               => arg[p] \notin ToSet(entries')
<1>1. ExactInv /\ [Next]_vars => [Settled]_vars
  <2> SUFFICES ASSUME ExactInv, NEW p \in Procs, Step(p), NEW q \in Procs,
                      pc[q] \in {"remove", "wait"}, pc'[q] \notin {"remove", "wait"}
               PROVE  arg[q] \notin ToSet(entries')
    BY DEF Next, Step
  <2>1. p = q /\ (UnsubscribeRemove(p) \/ UnsubscribeWait(p))
    BY DEF Step, InterceptQueries, Unsubscribe, UnsubscribeRemove, UnsubscribeWait,
       Query, QueryRefused, CopyEntries, Invoke, PassOn, Answer, FallThrough, Done,
       Goto, ExactInv, TypeOK
  <2>2. CASE UnsubscribeRemove(p)
    BY <2>1, <2>2, RemoveEffect
  <2>3. CASE UnsubscribeWait(p)
    BY <2>1, <2>3 DEF UnsubscribeWait, ExactInv, RegistryIsExact
  <2> QED
    BY <2>1, <2>2, <2>3
<1> QED
  BY <1>1, ExactInvariant, PTL DEF Spec, UnsubscribeIsSettled

\* A query reaches the engine only after it asked everyone who was subscribed
\* when it started and still is.
THEOREM EveryoneIsAsked == Spec => NobodyIsSkipped
<1> DEFINE Complete == \A p \in Procs : pc[p] = "next" /\ pc'[p] = "idle" =>
                          early[p] \cap Subscribed \subseteq asked[p]
<1>1. ExactInv /\ [Next]_vars => [Complete]_vars
  <2> SUFFICES ASSUME ExactInv, NEW p \in Procs, Step(p), NEW q \in Procs,
                      pc[q] = "next", pc'[q] = "idle"
               PROVE  early[q] \cap Subscribed \subseteq asked[q]
    BY DEF Next, Step
  <2>1. p = q /\ FallThrough(p)
    BY DEF Step, InterceptQueries, Unsubscribe, UnsubscribeRemove, UnsubscribeWait,
       Query, QueryRefused, CopyEntries, Invoke, PassOn, Answer, FallThrough, Done,
       Goto, ExactInv, TypeOK
  <2>2. queue[q] = <<>> /\ ToSet(<<>>) = {}
    BY <2>1 DEF FallThrough, ToSet
  <2> QED
    BY <2>2 DEF ExactInv, CopiesAreExact, Asking
<1> QED
  BY <1>1, ExactInvariant, PTL DEF Spec, NobodyIsSkipped

=============================================================================
