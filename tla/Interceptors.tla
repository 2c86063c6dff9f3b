---------------------------- MODULE Interceptors ----------------------------
(***************************************************************************)
(* The query interceptors of one Schema (intercept.go): registration,      *)
(* Unsubscribe and the queries that consult them, from several goroutines. *)
(* A callback may itself register or unsubscribe.  The critical sections   *)
(* of registry.mu contain no call and are single steps.                    *)
(***************************************************************************)
EXTENDS Naturals, Sequences, SequencesExt

CONSTANTS
    Procs,    \* goroutines
    MaxSubs   \* bound on the number of registrations

ASSUME InterceptorsAssumption == MaxSubs \in Nat

Ids == 1..MaxSubs

VARIABLES
    entries,  \* registry.entries: registration ids, in order
    nextID,   \* registry.nextID
    sub,      \* Subscription of each id: its sync.Once
    pc,
    back,     \* where an Unsubscribe returns to: "idle" or "callback"
    arg,      \* the subscription being unsubscribed
    queue,    \* a query's private copy of the entries still to be consulted
    current,  \* the interceptor a query is consulting (0: none)
    asked,    \* history: the interceptors a query has consulted
    early,    \* history: ids subscribed when the query started
    late      \* history: ids whose Unsubscribe had returned by then

vars == <<entries, nextID, sub, pc, back, arg, queue, current, asked, early, late>>
query == <<queue, current, asked, early, late>>

Init ==
    /\ entries = <<>>
    /\ nextID = 0
    /\ sub = [i \in Ids |-> "none"]
    /\ pc = [p \in Procs |-> "idle"]
    /\ back = [p \in Procs |-> "idle"]
    /\ arg = [p \in Procs |-> 0]
    /\ queue = [p \in Procs |-> <<>>]
    /\ current = [p \in Procs |-> 0]
    /\ asked = [p \in Procs |-> {}]
    /\ early = [p \in Procs |-> {}]
    /\ late = [p \in Procs |-> {}]

Goto(p, label) == pc' = [pc EXCEPT ![p] = label]

-----------------------------------------------------------------------------
(* Subscriptions *)

\* Mutant: the id is taken before nextID is incremented.
InterceptQueriesEarly(p) ==
    /\ pc[p] \in {"idle", "callback"}
    /\ nextID < MaxSubs
    /\ nextID' = nextID + 1
    /\ entries' = Append(entries, nextID)
    /\ sub' = [sub EXCEPT ![nextID'] = "active"]
    /\ UNCHANGED <<pc, back, arg, query>>

InterceptQueries(p) ==
    /\ pc[p] \in {"idle", "callback"}
    /\ nextID < MaxSubs
    /\ nextID' = nextID + 1
    /\ entries' = Append(entries, nextID')
    /\ sub' = [sub EXCEPT ![nextID'] = "active"]
    /\ UNCHANGED <<pc, back, arg, query>>

\* Unsubscribe: sync.Once lets one caller in and makes the others wait for it.
Unsubscribe(p) ==
    /\ pc[p] \in {"idle", "callback"}
    /\ \E i \in Ids :
         /\ sub[i] # "none"
         /\ arg' = [arg EXCEPT ![p] = i]
         /\ IF sub[i] = "active"
              THEN /\ sub' = [sub EXCEPT ![i] = "removing"]
                   /\ Goto(p, "remove")
              ELSE /\ Goto(p, "wait")
                   /\ UNCHANGED sub
    /\ back' = [back EXCEPT ![p] = pc[p]]
    /\ UNCHANGED <<entries, nextID, query>>

\* Mutant: the last entry takes the place of the removed one.
WithoutSwapped(i) ==
    IF i \notin ToSet(entries) THEN entries
    ELSE LET k == CHOOSE k \in DOMAIN entries : entries[k] = i
         IN  SubSeq([entries EXCEPT ![k] = Last(entries)], 1, Len(entries) - 1)

\* Mutant: the loop compares with the wrong id and removes nothing.
WithoutNothing(i) == entries

\* The first entry with id i is cut out: the later ones are copied down by one.
Without(i) ==
    IF i \notin ToSet(entries) THEN entries
    ELSE LET index == CHOOSE k \in DOMAIN entries :
                        entries[k] = i /\ \A j \in 1..(k - 1) : entries[j] # i
         IN  [k \in 1..(Len(entries) - 1) |->
                IF k < index THEN entries[k] ELSE entries[k + 1]]

UnsubscribeRemove(p) ==
    /\ pc[p] = "remove"
    /\ entries' = Without(arg[p])
    /\ sub' = [sub EXCEPT ![arg[p]] = "gone"]
    /\ Goto(p, back[p])
    /\ arg' = [arg EXCEPT ![p] = 0]
    /\ back' = [back EXCEPT ![p] = "idle"]
    /\ UNCHANGED <<nextID, query>>

\* Mutant: a flag in place of sync.Once; the second caller does not wait.
UnsubscribeNoWait(p) ==
    /\ pc[p] = "wait"
    /\ Goto(p, back[p])
    /\ arg' = [arg EXCEPT ![p] = 0]
    /\ back' = [back EXCEPT ![p] = "idle"]
    /\ UNCHANGED <<entries, nextID, sub, query>>

UnsubscribeWait(p) ==
    /\ pc[p] = "wait"
    /\ sub[arg[p]] = "gone"
    /\ Goto(p, back[p])
    /\ arg' = [arg EXCEPT ![p] = 0]
    /\ back' = [back EXCEPT ![p] = "idle"]
    /\ UNCHANGED <<entries, nextID, sub, query>>

-----------------------------------------------------------------------------
(* Queries: runInterceptors *)

Gone == {i \in Ids : sub[i] = "gone"}
Subscribed == {i \in Ids : sub[i] = "active"}

Query(p) ==
    /\ pc[p] = "idle"
    /\ Goto(p, "copy")
    /\ early' = [early EXCEPT ![p] = Subscribed]
    /\ late' = [late EXCEPT ![p] = Gone]
    /\ UNCHANGED <<entries, nextID, sub, back, arg, queue, current, asked>>

Done(p) ==
    /\ Goto(p, "idle")
    /\ queue' = [queue EXCEPT ![p] = <<>>]
    /\ current' = [current EXCEPT ![p] = 0]
    /\ asked' = [asked EXCEPT ![p] = {}]
    /\ early' = [early EXCEPT ![p] = {}]
    /\ late' = [late EXCEPT ![p] = {}]

\* A canceled context or a closed DB ends the query before any interceptor runs.
QueryRefused(p) ==
    /\ pc[p] = "copy"
    /\ Done(p)
    /\ UNCHANGED <<entries, nextID, sub, back, arg>>

\* The copy of the entries under registry.mu.RLock.
CopyEntries(p) ==
    /\ pc[p] = "copy"
    /\ queue' = [queue EXCEPT ![p] = entries]
    /\ Goto(p, "next")
    /\ UNCHANGED <<entries, nextID, sub, back, arg, current, asked, early, late>>

\* The next interceptor of the copy is called, with no lock held.
Invoke(p) ==
    /\ pc[p] = "next"
    /\ queue[p] # <<>>
    /\ current' = [current EXCEPT ![p] = Head(queue[p])]
    /\ queue' = [queue EXCEPT ![p] = Tail(@)]
    /\ asked' = [asked EXCEPT ![p] = @ \cup {Head(queue[p])}]
    /\ Goto(p, "callback")
    /\ UNCHANGED <<entries, nextID, sub, back, arg, early, late>>

\* Mutant: break where the code says continue.
PassOnBreaks(p) ==
    /\ pc[p] = "callback"
    /\ current' = [current EXCEPT ![p] = 0]
    /\ queue' = [queue EXCEPT ![p] = <<>>]
    /\ Goto(p, "next")
    /\ UNCHANGED <<entries, nextID, sub, back, arg, asked, early, late>>

\* It returns handled = false: the next one is asked.
PassOn(p) ==
    /\ pc[p] = "callback"
    /\ current' = [current EXCEPT ![p] = 0]
    /\ Goto(p, "next")
    /\ UNCHANGED <<entries, nextID, sub, back, arg, queue, asked, early, late>>

\* It returns a result or an error: the query is answered.
Answer(p) ==
    /\ pc[p] = "callback"
    /\ Done(p)
    /\ UNCHANGED <<entries, nextID, sub, back, arg>>

\* No interceptor handled the query: it goes on to the engine.
FallThrough(p) ==
    /\ pc[p] = "next"
    /\ queue[p] = <<>>
    /\ Done(p)
    /\ UNCHANGED <<entries, nextID, sub, back, arg>>

-----------------------------------------------------------------------------
Next == \E p \in Procs :
    \/ InterceptQueries(p)
    \/ Unsubscribe(p) \/ UnsubscribeRemove(p) \/ UnsubscribeWait(p)
    \/ Query(p) \/ QueryRefused(p) \/ CopyEntries(p) \/ Invoke(p)
    \/ PassOn(p) \/ Answer(p) \/ FallThrough(p)

Spec == Init /\ [][Next]_vars

-----------------------------------------------------------------------------
(* Properties *)

\* Every variable has its type.
TypeOK ==
    /\ entries \in Seq(Ids)
    /\ nextID \in 0..MaxSubs
    /\ sub \in [Ids -> {"none", "active", "removing", "gone"}]
    /\ pc \in [Procs -> {"idle", "copy", "next", "callback", "remove", "wait"}]
    /\ back \in [Procs -> {"idle", "callback"}]
    /\ arg \in [Procs -> 0..MaxSubs]
    /\ queue \in [Procs -> Seq(Ids)]
    /\ current \in [Procs -> 0..MaxSubs]
    /\ asked \in [Procs -> SUBSET Ids]
    /\ early \in [Procs -> SUBSET Ids]
    /\ late \in [Procs -> SUBSET Ids]

\* The registry holds exactly the subscriptions not yet removed, in registration
\* order, whatever the order in which others were removed.
RegistryIsExact ==
    /\ ToSet(entries) = {i \in Ids : sub[i] \in {"active", "removing"}}
    /\ \A j, k \in DOMAIN entries : j < k => entries[j] < entries[k]

\* Unsubscribe may be called more than once and concurrently: whichever call
\* returns, the interceptor is no longer registered.
UnsubscribeIsSettled ==
    [][\A p \in Procs :
           pc[p] \in {"remove", "wait"} /\ pc'[p] \notin {"remove", "wait"}
             => arg[p] \notin ToSet(entries')]_vars

\* A query that starts after Unsubscribe has returned never runs the
\* interceptor, and interceptors run in registration order.
LaterQueriesSkipIt ==
    \A p \in Procs :
        /\ current[p] \notin late[p]
        /\ ToSet(queue[p]) \cap late[p] = {}
        /\ \A k \in DOMAIN queue[p] : current[p] < queue[p][k]

\* A query reaches the engine only when every interceptor registered before it
\* started, and not unsubscribed since, was asked and passed.
NobodyIsSkipped ==
    [][\A p \in Procs : pc[p] = "next" /\ pc'[p] = "idle" =>
           early[p] \cap Subscribed \subseteq asked[p]]_vars

=============================================================================
