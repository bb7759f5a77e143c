-------------------------- MODULE TokenStoreProofs --------------------------
(***************************************************************************)
(* Proofs about TokenStore, for every value of its constants.              *)
(***************************************************************************)
EXTENDS TokenStore, TLAPS

(* The inductive invariant: each entry belongs to the user its id was      *)
(* issued to, what a request holds was issued to its user, and what a      *)
(* client has seen finished was issued and is out of the map.              *)

EntriesMatchIssuer == \A i \in Id : store[i] # None => store[i].user = issuer[i]

TasksMatchIssuer ==
  \A r \in Req :
    /\ task[r].pc # "idle" => task[r].user \in User
    /\ task[r].pc = "idle" => task[r] = Idle
    /\ task[r].via # None => task[r].user = issuer[task[r].via]
    /\ task[r].pc = "revoking" => /\ task[r].target \in Id
                                  /\ task[r].user = issuer[task[r].target]

FinishedInv == \A i \in finished : store[i] = None /\ issuer[i] # None

LifetimeInv == \A i \in Id : store[i] # None =>
                 store[i].expires - store[i].created \in MinTtl..MaxTtl

IInv == TypeOK /\ EntriesMatchIssuer /\ TasksMatchIssuer /\ FinishedInv /\ LifetimeInv

-----------------------------------------------------------------------------

\* ttl.clamp(60, MAX_TTL_SECS) lands between its two bounds for every
\* ttl_seconds a caller can send.
LEMMA ClampBounds ==
  ASSUME NEW ttl \in Int
  PROVE  /\ Clamp(ttl) \in MinTtl..MaxTtl
         /\ Clamp(ttl) \in Int
BY TtlAssumption DEF Clamp

LEMMA InitInv == Init => IInv
BY NoneAssumption, EntryAssumption, TimeAssumption
   DEF Init, IInv, TypeOK, EntriesMatchIssuer, TasksMatchIssuer, FinishedInv,
       LifetimeInv, Idle, Task

\* Dropping entries from the map keeps what the invariant says of the map.
LEMMA WithoutKeeps ==
  ASSUME IInv, NEW S \in SUBSET Id, store' = Without(S), UNCHANGED issuer
  PROVE  /\ store' \in [Id -> TokenEntry \cup {None}]
         /\ EntriesMatchIssuer'
         /\ LifetimeInv'
         /\ \A i \in Id : store'[i] = IF i \in S THEN None ELSE store[i]
BY DEF IInv, TypeOK, EntriesMatchIssuer, LifetimeInv, Without

LEMMA CreateKeeps ==
  ASSUME IInv, NEW u \in User, NEW ttl \in AskedTtl, CreateToken(u, ttl)
  PROVE  IInv'
<1>1. PICK i \in FreshIds :
        /\ store' = [store EXCEPT ![i] = [user |-> u, created |-> now,
                                          expires |-> now + Clamp(ttl)]]
        /\ issuer' = [issuer EXCEPT ![i] = u]
        /\ UNCHANGED <<now, task, finished>>
  BY DEF CreateToken
<1>2. i \in Id /\ issuer[i] = None
  BY DEF FreshIds
<1>3. /\ Clamp(ttl) \in MinTtl..MaxTtl
      /\ Clamp(ttl) \in Int
      /\ now \in Int
  BY ClampBounds, AskedAssumption, TimeAssumption DEF IInv, TypeOK
<1> DEFINE e == [user |-> u, created |-> now, expires |-> now + Clamp(ttl)]
<1>4. e \in TokenEntry /\ e # None /\ e.user = u /\ e.expires - e.created = Clamp(ttl)
  BY <1>3, EntryAssumption DEF TokenEntry
<1> HIDE DEF e
<1>5. /\ store' = [store EXCEPT ![i] = e]
      /\ issuer' = [issuer EXCEPT ![i] = u]
      /\ UNCHANGED <<now, task, finished>>
  BY <1>1 DEF e
<1>6. TypeOK'
  BY <1>2, <1>4, <1>5 DEF IInv, TypeOK
<1>7. EntriesMatchIssuer'
  BY <1>2, <1>4, <1>5 DEF IInv, TypeOK, EntriesMatchIssuer
<1>8. TasksMatchIssuer'
  <2> SUFFICES ASSUME NEW r \in Req
               PROVE  /\ task[r].via # None => task[r].user = issuer'[task[r].via]
                      /\ task[r].pc = "revoking" => task[r].user = issuer'[task[r].target]
    BY <1>5 DEF IInv, TasksMatchIssuer
  <2>1. /\ task[r].pc # "idle" => task[r].user # None
        /\ task[r].pc = "idle" => task[r].via = None
    BY NoneAssumption DEF IInv, TasksMatchIssuer, Idle
  <2>2. /\ task[r] \in Task
        /\ task[r].via # None => task[r].user = issuer[task[r].via]
        /\ task[r].pc = "revoking" => task[r].user = issuer[task[r].target]
    BY DEF IInv, TypeOK, TasksMatchIssuer
  <2>3. /\ task[r].via # None => task[r].via \in Id
        /\ task[r].pc = "revoking" => task[r].target \in Id
    BY <2>2 DEF Task, IInv, TasksMatchIssuer
  <2>4. /\ task[r].via # None => task[r].via # i
        /\ task[r].pc = "revoking" => task[r].target # i
    BY <1>2, <2>1, <2>2
  <2> QED
    BY <1>5, <2>2, <2>3, <2>4
<1>9. FinishedInv'
  BY <1>2, <1>5, NoneAssumption DEF IInv, TypeOK, FinishedInv
<1>10. LifetimeInv'
  BY <1>2, <1>3, <1>4, <1>5 DEF IInv, TypeOK, LifetimeInv
<1> QED
  BY <1>6, <1>7, <1>8, <1>9, <1>10 DEF IInv

LEMMA BearerAcceptedKeeps ==
  ASSUME IInv, NEW r \in Req, NEW i \in Id, BearerAccepted(r, i)
  PROVE  IInv'
<1>1. store[i] # None /\ store[i] \in TokenEntry /\ store[i].user \in User
  BY DEF BearerAccepted, Valid, Live, IInv, TypeOK, TokenEntry
<1>2. store[i].user = issuer[i]
  BY <1>1 DEF IInv, EntriesMatchIssuer
<1> DEFINE t == Authed(store[i].user, i)
<1>3. t = [pc |-> "authed", user |-> store[i].user, via |-> i, target |-> None]
  BY DEF Authed
<1>4. t \in Task
  BY <1>1, <1>3 DEF Task
<1>5. task' = [task EXCEPT ![r] = t] /\ UNCHANGED <<store, now, issuer, finished>>
  BY DEF BearerAccepted
<1> HIDE DEF t
<1>6. TypeOK'
  BY <1>4, <1>5 DEF IInv, TypeOK
<1>7. TasksMatchIssuer'
  BY <1>1, <1>2, <1>3, <1>5 DEF IInv, TypeOK, TasksMatchIssuer
<1> QED
  BY <1>5, <1>6, <1>7 DEF IInv, EntriesMatchIssuer, FinishedInv, LifetimeInv

\* A request that starts acting for a user through the cookie holds no token.
LEMMA SessionTask ==
  ASSUME IInv, NEW r \in Req, NEW u \in User, UNCHANGED issuer,
         task' = [task EXCEPT ![r] = Authed(u, None)]
  PROVE  task' \in [Req -> Task] /\ TasksMatchIssuer'
<1> DEFINE t == Authed(u, None)
<1>1. t = [pc |-> "authed", user |-> u, via |-> None, target |-> None]
  BY DEF Authed
<1>2. t \in Task
  BY <1>1 DEF Task
<1>3. task' = [task EXCEPT ![r] = t]
  OBVIOUS
<1> HIDE DEF t
<1> QED
  BY <1>1, <1>2, <1>3 DEF IInv, TypeOK, TasksMatchIssuer

\* A request that answers holds nothing.
LEMMA AnsweredTask ==
  ASSUME IInv, NEW r \in Req, UNCHANGED issuer, task' = [task EXCEPT ![r] = Idle]
  PROVE  task' \in [Req -> Task] /\ TasksMatchIssuer'
<1>1. Idle \in Task /\ Idle.pc = "idle" /\ Idle.via = None
  BY DEF Idle, Task
<1> QED
  BY <1>1 DEF IInv, TypeOK, TasksMatchIssuer

LEMMA BearerRefusedKeeps ==
  ASSUME IInv, NEW r \in Req, NEW i \in Id, NEW u \in User \cup {None},
         BearerRefused(r, i, u)
  PROVE  IInv'
<1>1. /\ store' = Without(DroppedByLookup(i))
      /\ DroppedByLookup(i) \in SUBSET Id
      /\ UNCHANGED <<now, issuer>>
      /\ finished' = finished \cup {i}
      /\ issuer[i] # None
  BY DEF BearerRefused, DroppedByLookup
<1>2. /\ store' \in [Id -> TokenEntry \cup {None}]
      /\ EntriesMatchIssuer'
      /\ LifetimeInv'
      /\ \A j \in Id : store'[j] = IF j \in DroppedByLookup(i) THEN None ELSE store[j]
  BY <1>1, WithoutKeeps
<1>3. task' \in [Req -> Task] /\ TasksMatchIssuer'
  <2>1. CASE u = None
    BY <1>1, <2>1 DEF BearerRefused, IInv, TypeOK, TasksMatchIssuer
  <2>2. CASE u # None
    BY <1>1, <2>2, SessionTask DEF BearerRefused
  <2> QED
    BY <2>1, <2>2
<1>4. TypeOK'
  BY <1>1, <1>2, <1>3 DEF IInv, TypeOK
<1>5. FinishedInv'
  <2>1. store'[i] = None
    BY <1>2 DEF BearerRefused, Valid, DroppedByLookup, Stale, Live
  <2> QED
    BY <2>1, <1>1, <1>2 DEF IInv, TypeOK, FinishedInv
<1> QED
  BY <1>2, <1>3, <1>4, <1>5 DEF IInv

LEMMA RevokeFindKeeps ==
  ASSUME IInv, NEW r \in Req, NEW i \in Id, RevokeFind(r, i)
  PROVE  IInv'
<1>1. /\ store' = Without(Stale)
      /\ Stale \in SUBSET Id
      /\ UNCHANGED <<now, issuer, finished>>
  BY DEF RevokeFind, DroppedByList, Stale, Live
<1>2. /\ store' \in [Id -> TokenEntry \cup {None}]
      /\ EntriesMatchIssuer'
      /\ LifetimeInv'
      /\ \A j \in Id : store'[j] = IF j \in Stale THEN None ELSE store[j]
  BY <1>1, WithoutKeeps
<1>3. task' \in [Req -> Task] /\ TasksMatchIssuer'
  <2>1. CASE i \notin OwnedBy(task[r].user)
    BY <1>1, <2>1, AnsweredTask DEF RevokeFind
  <2>2. CASE i \in OwnedBy(task[r].user)
    <3> DEFINE t == Revoking(task[r], i)
    <3>1. task[r] \in Task /\ task[r].pc = "authed"
      BY DEF IInv, TypeOK, RevokeFind
    <3>2. t = [pc |-> "revoking", user |-> task[r].user, via |-> task[r].via, target |-> i]
      BY DEF Revoking
    <3>3. t \in Task
      BY <3>1, <3>2 DEF Task
    <3>4. store[i] # None /\ store[i].user = task[r].user /\ issuer[i] = task[r].user
      BY <2>2 DEF OwnedBy, Valid, Live, IInv, EntriesMatchIssuer
    <3>5. task' = [task EXCEPT ![r] = t]
      BY <2>2 DEF RevokeFind
    <3> HIDE DEF t
    <3> QED
      BY <1>1, <3>1, <3>2, <3>3, <3>4, <3>5 DEF IInv, TypeOK, TasksMatchIssuer
  <2> QED
    BY <2>1, <2>2
<1>4. TypeOK' /\ FinishedInv'
  BY <1>1, <1>2, <1>3 DEF IInv, TypeOK, FinishedInv
<1> QED
  BY <1>2, <1>3, <1>4 DEF IInv

LEMMA RevokeRemoveKeeps ==
  ASSUME IInv, NEW r \in Req, RevokeRemove(r)
  PROVE  IInv'
<1> DEFINE i == task[r].target
<1>1. i \in Id /\ issuer[i] # None
  BY NoneAssumption DEF RevokeRemove, IInv, TypeOK, TasksMatchIssuer
<1>2. /\ store' = Without({i})
      /\ UNCHANGED <<now, issuer>>
      /\ finished' = finished \cup {i}
      /\ task' = [task EXCEPT ![r] = Idle]
  BY DEF RevokeRemove
<1> HIDE DEF i
<1>3. /\ store' \in [Id -> TokenEntry \cup {None}]
      /\ EntriesMatchIssuer'
      /\ LifetimeInv'
      /\ \A j \in Id : store'[j] = IF j \in {i} THEN None ELSE store[j]
  BY <1>1, <1>2, WithoutKeeps
<1>4. task' \in [Req -> Task] /\ TasksMatchIssuer'
  BY <1>2, AnsweredTask
<1>5. TypeOK' /\ FinishedInv'
  BY <1>1, <1>2, <1>3, <1>4 DEF IInv, TypeOK, FinishedInv
<1> QED
  BY <1>3, <1>4, <1>5 DEF IInv

LEMMA ListKeeps ==
  ASSUME IInv, NEW r \in Req, ListTokens(r)
  PROVE  IInv'
<1>1. /\ store' = Without(Stale)
      /\ Stale \in SUBSET Id
      /\ UNCHANGED <<now, issuer, finished>>
      /\ task' = [task EXCEPT ![r] = Idle]
  BY DEF ListTokens, DroppedByList, Stale, Live
<1>2. /\ store' \in [Id -> TokenEntry \cup {None}]
      /\ EntriesMatchIssuer'
      /\ LifetimeInv'
      /\ \A j \in Id : store'[j] = IF j \in Stale THEN None ELSE store[j]
  BY <1>1, WithoutKeeps
<1>3. task' \in [Req -> Task] /\ TasksMatchIssuer'
  BY <1>1, AnsweredTask
<1> QED
  BY <1>1, <1>2, <1>3 DEF IInv, TypeOK, FinishedInv

LEMMA RestartKeeps ==
  ASSUME IInv, Restart
  PROVE  IInv'
<1>1. Idle \in Task /\ Idle.pc = "idle" /\ Idle.via = None
  BY DEF Idle, Task
<1> QED
  BY <1>1 DEF Restart, IInv, TypeOK, EntriesMatchIssuer, TasksMatchIssuer, FinishedInv,
              LifetimeInv

LEMMA NextInv == IInv /\ [Next]_vars => IInv'
<1> SUFFICES ASSUME IInv, [Next]_vars PROVE IInv'
  OBVIOUS
<1>1. ASSUME NEW u \in User, NEW ttl \in AskedTtl, CreateToken(u, ttl) PROVE IInv'
  BY <1>1, CreateKeeps
<1>2. ASSUME NEW r \in Req, NEW i \in Id, BearerAccepted(r, i) PROVE IInv'
  BY <1>2, BearerAcceptedKeeps
<1>3. ASSUME NEW r \in Req, NEW i \in Id, NEW u \in User \cup {None}, BearerRefused(r, i, u)
      PROVE IInv'
  BY <1>3, BearerRefusedKeeps
<1>4. ASSUME NEW r \in Req, NEW u \in User, CookieAccepted(r, u) PROVE IInv'
  <2>1. task' \in [Req -> Task] /\ TasksMatchIssuer'
    BY <1>4, SessionTask DEF CookieAccepted
  <2> QED
    BY <1>4, <2>1
       DEF CookieAccepted, IInv, TypeOK, EntriesMatchIssuer, FinishedInv, LifetimeInv
<1>5. ASSUME NEW r \in Req, ListTokens(r) PROVE IInv'
  BY <1>5, ListKeeps
<1>6. ASSUME NEW r \in Req, NEW i \in Id, RevokeFind(r, i) PROVE IInv'
  BY <1>6, RevokeFindKeeps
<1>7. ASSUME NEW r \in Req, RevokeRemove(r) PROVE IInv'
  BY <1>7, RevokeRemoveKeeps
<1>8. ASSUME NEW r \in Req, OtherHandler(r) PROVE IInv'
  <2>1. task' \in [Req -> Task] /\ TasksMatchIssuer'
    BY <1>8, AnsweredTask DEF OtherHandler
  <2> QED
    BY <1>8, <2>1
       DEF OtherHandler, IInv, TypeOK, EntriesMatchIssuer, FinishedInv, LifetimeInv
<1>9. CASE Tick
  BY <1>9, TimeAssumption DEF Tick, IInv, TypeOK, EntriesMatchIssuer, TasksMatchIssuer,
                              FinishedInv, LifetimeInv
<1>10. CASE ClockSetBack
  BY <1>10, TimeAssumption DEF ClockSetBack, IInv, TypeOK, EntriesMatchIssuer,
                               TasksMatchIssuer, FinishedInv, LifetimeInv
<1>11. CASE Restart
  BY <1>11, RestartKeeps
<1>12. CASE UNCHANGED vars
  BY <1>12 DEF vars, IInv, TypeOK, EntriesMatchIssuer, TasksMatchIssuer, FinishedInv,
               LifetimeInv
<1> QED
  BY <1>1, <1>2, <1>3, <1>4, <1>5, <1>6, <1>7, <1>8, <1>9, <1>10, <1>11, <1>12 DEF Next

-----------------------------------------------------------------------------

\* The inductive invariant holds in every reachable state.
THEOREM Inductive == Spec => []IInv
BY InitInv, NextInv, PTL DEF Spec

\* Every state is well typed.
THEOREM TypeCorrect == Spec => []TypeOK
<1>1. IInv => TypeOK
  BY DEF IInv
<1> QED
  BY <1>1, Inductive, PTL

\* A token once refused, or revoked with a 204, is out of the map for good.
THEOREM Finality == Spec => []FinishedIsFinal
<1>1. IInv => FinishedIsFinal
  BY DEF IInv, FinishedInv, FinishedIsFinal, Live
<1> QED
  BY <1>1, Inductive, PTL

\* A request acts only for the user its token was issued to, and removes
\* only entries issued to that user.
THEOREM Identity == Spec => []ActsAsIssuer
<1>1. IInv => ActsAsIssuer
  BY DEF IInv, TasksMatchIssuer, ActsAsIssuer
<1> QED
  BY <1>1, Inductive, PTL

\* No entry's lifetime is outside MinTtl..MaxTtl, whatever was asked for.
THEOREM Lifetimes == Spec => []LifetimeCapped
<1>1. IInv => LifetimeCapped
  BY DEF IInv, LifetimeInv, LifetimeCapped, Live
<1> QED
  BY <1>1, Inductive, PTL

\* While the server stays up, an unexpired token leaves the map only in the
\* second step of a DELETE made for the user it was issued to.
THEOREM OwnerOnly == Spec => LosesTokenOnlyToOwner
<1> DEFINE Loses == \A i \in Valid : i \notin Live' =>
                      \/ Restart
                      \/ \E r \in Req : /\ RevokeRemove(r)
                                        /\ task[r].target = i
                                        /\ task[r].user = issuer[i]
<1>1. IInv /\ [Next]_vars => [Loses]_vars
  <2> SUFFICES ASSUME IInv, Next, NEW i \in Valid, i \notin Live', ~Restart
               PROVE  \E r \in Req : /\ RevokeRemove(r)
                                     /\ task[r].target = i
                                     /\ task[r].user = issuer[i]
    OBVIOUS
  <2>1. i \in Id /\ store[i] # None /\ store'[i] = None /\ i \notin Stale
    BY DEF Valid, Live
  <2>2. ASSUME NEW u \in User, NEW ttl \in AskedTtl, CreateToken(u, ttl) PROVE FALSE
    <3>1. PICK j \in FreshIds :
            store' = [store EXCEPT ![j] = [user |-> u, created |-> now,
                                           expires |-> now + Clamp(ttl)]]
      BY <2>2 DEF CreateToken
    <3>2. j # i
      BY <2>1, NoneAssumption, EntryAssumption
         DEF FreshIds, IInv, TypeOK, EntriesMatchIssuer, TokenEntry
    <3> QED
      BY <2>1, <3>1, <3>2 DEF IInv, TypeOK
  <2>3. ASSUME NEW S \in SUBSET Stale, store' = Without(S) PROVE FALSE
    BY <2>1, <2>3 DEF Without
  <2>4. ASSUME UNCHANGED store PROVE FALSE
    BY <2>1, <2>4
  <2>5. ASSUME NEW r \in Req, NEW j \in Id, NEW u \in User \cup {None}, BearerRefused(r, j, u)
        PROVE FALSE
    BY <2>3, <2>5 DEF BearerRefused, DroppedByLookup
  <2>6. ASSUME NEW r \in Req, ListTokens(r) \/ \E j \in Id : RevokeFind(r, j)
        PROVE FALSE
    BY <2>3, <2>6 DEF ListTokens, RevokeFind, DroppedByList
  <2>7. ASSUME NEW r \in Req, RevokeRemove(r)
        PROVE  task[r].target = i /\ task[r].user = issuer[i]
    <3>1. task[r].target = i
      BY <2>1, <2>7 DEF RevokeRemove, Without
    <3> QED
      BY <2>7, <3>1 DEF RevokeRemove, IInv, TasksMatchIssuer
  <2>8. CASE \E r \in Req : RevokeRemove(r)
    BY <2>7, <2>8
  <2>9. CASE \/ \E r \in Req, j \in Id : BearerAccepted(r, j)
             \/ \E r \in Req, u \in User : CookieAccepted(r, u)
             \/ \E r \in Req : OtherHandler(r)
             \/ Tick
             \/ ClockSetBack
    BY <2>4, <2>9 DEF BearerAccepted, CookieAccepted, OtherHandler, Tick, ClockSetBack
  <2> QED
    BY <2>2, <2>5, <2>6, <2>8, <2>9 DEF Next
<1> QED
  BY <1>1, Inductive, PTL DEF Spec, LosesTokenOnlyToOwner

-----------------------------------------------------------------------------
(* The store implements the life cycle.                                    *)

LEMMA LifecycleInit == Init => Lifecycle!Init
BY DEF Init, Lifecycle!Init, Idle

\* Dropping entries of the map retires exactly those tokens.
LEMMA WithoutRetires ==
  ASSUME IInv, NEW S \in SUBSET Live, store' = Without(S), UNCHANGED issuer
  PROVE  Lifecycle!Retire(S)
<1>1. S \subseteq Id /\ \A i \in S : issuer[i] # None
  BY NoneAssumption, EntryAssumption DEF Live, IInv, TypeOK, EntriesMatchIssuer, TokenEntry
<1> QED
  BY <1>1 DEF Lifecycle!Retire, Live, Without

\* Every step of the store is a step of the life cycle, or none.
LEMMA LifecycleStep == IInv /\ IInv' /\ [Next]_vars => [Lifecycle!Next]_(Lifecycle!vars)
<1> SUFFICES ASSUME IInv, IInv', [Next]_vars PROVE [Lifecycle!Next]_(Lifecycle!vars)
  OBVIOUS
<1>1. ASSUME NEW u \in User, NEW ttl \in AskedTtl, CreateToken(u, ttl) PROVE Lifecycle!Next
  <2>1. PICK i \in FreshIds :
          /\ store' = [store EXCEPT ![i] = [user |-> u, created |-> now,
                                            expires |-> now + Clamp(ttl)]]
          /\ issuer' = [issuer EXCEPT ![i] = u]
          /\ UNCHANGED <<now, task, finished>>
    BY <1>1 DEF CreateToken
  <2>2. i \in Id /\ issuer[i] = None /\ store[i] = None
    BY NoneAssumption, EntryAssumption
       DEF FreshIds, IInv, TypeOK, EntriesMatchIssuer, TokenEntry
  <2>3. store'[i] # None
    <3>1. store'[i] \in TokenEntry
      BY <2>1, <2>2, ClampBounds, AskedAssumption, TimeAssumption
         DEF IInv, TypeOK, TokenEntry
    <3> QED
      BY <3>1, EntryAssumption
  <2>4. Lifecycle!Issue(i, u)
    BY <2>1, <2>2, <2>3 DEF Lifecycle!Issue, IInv, TypeOK
  <2> QED
    BY <2>2, <2>4 DEF Lifecycle!Next
<1>2. ASSUME NEW r \in Req, NEW i \in Id, BearerAccepted(r, i) PROVE Lifecycle!Next
  <2>1. store[i] # None /\ store[i].user = issuer[i] /\ task[r].pc = "idle"
    BY <1>2 DEF BearerAccepted, Valid, Live, IInv, EntriesMatchIssuer
  <2> DEFINE t == Authed(store[i].user, i)
  <2>2. t.pc = "authed" /\ t.user = issuer[i] /\ t.via = i
    BY <2>1 DEF Authed
  <2>3. task' = [task EXCEPT ![r] = t] /\ UNCHANGED <<store, issuer>>
    BY <1>2 DEF BearerAccepted
  <2> HIDE DEF t
  <2>4. Lifecycle!AdmitByToken(r, i)
    BY <2>1, <2>2, <2>3 DEF Lifecycle!AdmitByToken, IInv, TypeOK
  <2> QED
    BY <2>4 DEF Lifecycle!Next
<1>3. ASSUME NEW r \in Req, NEW u \in User, NEW S \in SUBSET Live,
             task[r].pc = "idle", store' = Without(S), UNCHANGED issuer,
             task' = [task EXCEPT ![r] = Authed(u, None)]
      PROVE  Lifecycle!Next
  <2> DEFINE t == Authed(u, None)
  <2>1. t.pc = "authed" /\ t.user = u /\ t.via = None
    BY DEF Authed
  <2>2. task' = [task EXCEPT ![r] = t]
    BY <1>3
  <2> HIDE DEF t
  <2>3. Lifecycle!Retire(S)
    BY <1>3, WithoutRetires
  <2>4. Lifecycle!AdmitBySession(r, u, S)
    BY <1>3, <2>1, <2>2, <2>3 DEF Lifecycle!AdmitBySession, IInv, TypeOK
  <2> QED
    BY <2>4 DEF Lifecycle!Next, Live
<1>4. ASSUME NEW r \in Req, NEW S \in SUBSET Live, task[r].pc # "idle",
             store' = Without(S), UNCHANGED issuer, task' = [task EXCEPT ![r] = Idle]
      PROVE  Lifecycle!Next
  <2>1. Lifecycle!Retire(S)
    BY <1>4, WithoutRetires
  <2>2. Idle.pc = "idle"
    BY DEF Idle
  <2>3. [user |-> task[r].user, via |-> task[r].via] # None
    BY <1>4, PrincipalAssumption DEF IInv, TypeOK, TasksMatchIssuer, Task
  <2>4. Lifecycle!Leave(r, S)
    BY <1>4, <2>1, <2>2, <2>3 DEF Lifecycle!Leave, IInv, TypeOK
  <2> QED
    BY <2>4 DEF Lifecycle!Next, Live
<1>5. store = Without({}) /\ {} \in SUBSET Live
  BY DEF Without, IInv, TypeOK
<1>6. ASSUME NEW S \in SUBSET Live, store' = Without(S), UNCHANGED <<issuer, task>>
      PROVE  Lifecycle!Next
  <2>1. Lifecycle!Retire(S)
    BY <1>6, WithoutRetires
  <2>2. Lifecycle!Lapse(S)
    BY <1>6, <2>1 DEF Lifecycle!Lapse
  <2> QED
    BY <2>2 DEF Lifecycle!Next, Live
<1>7. ASSUME NEW r \in Req, NEW i \in Id, NEW S \in SUBSET Live, task[r].pc = "authed",
              store' = Without(S), UNCHANGED issuer,
              task' = [task EXCEPT ![r] = Revoking(task[r], i)]
       PROVE  Lifecycle!Next
  <2> DEFINE t == Revoking(task[r], i)
  <2>1. t.pc = "revoking" /\ t.user = task[r].user /\ t.via = task[r].via
    BY DEF Revoking
  <2>2. task' = [task EXCEPT ![r] = t]
    BY <1>7
  <2> HIDE DEF t
  <2>3. Lifecycle!Retire(S)
    BY <1>7, WithoutRetires
  <2>4. Lifecycle!Lapse(S)
    BY <1>7, <2>1, <2>2, <2>3 DEF Lifecycle!Lapse, IInv, TypeOK
  <2> QED
    BY <2>4 DEF Lifecycle!Next, Live
<1>8. ASSUME NEW r \in Req, NEW i \in Id, NEW u \in User \cup {None}, BearerRefused(r, i, u)
      PROVE  Lifecycle!Next
  <2>1. DroppedByLookup(i) \in SUBSET Live
    BY DEF DroppedByLookup, Stale
  <2>2. CASE u = None
    BY <1>6, <1>8, <2>1, <2>2 DEF BearerRefused
  <2>3. CASE u # None
    BY <1>3, <1>8, <2>1, <2>3 DEF BearerRefused
  <2> QED
    BY <2>2, <2>3
<1>9. ASSUME NEW r \in Req, NEW u \in User, CookieAccepted(r, u) PROVE Lifecycle!Next
  BY <1>3, <1>5, <1>9 DEF CookieAccepted
<1>10. ASSUME NEW r \in Req, ListTokens(r) PROVE Lifecycle!Next
  BY <1>4, <1>10 DEF ListTokens, DroppedByList, Stale
<1>11. ASSUME NEW r \in Req, NEW i \in Id, RevokeFind(r, i) PROVE Lifecycle!Next
  <2>1. /\ store' = Without(Stale)
        /\ Stale \in SUBSET Live
        /\ UNCHANGED issuer
        /\ task[r].pc = "authed"
    BY <1>11 DEF RevokeFind, DroppedByList, Stale
  <2>2. CASE i \notin OwnedBy(task[r].user)
    BY <1>4, <1>11, <2>1, <2>2 DEF RevokeFind
  <2>3. CASE i \in OwnedBy(task[r].user)
    BY <1>7, <1>11, <2>1, <2>3 DEF RevokeFind
  <2> QED
    BY <2>2, <2>3
<1>12. ASSUME NEW r \in Req, RevokeRemove(r) PROVE Lifecycle!Next
  <2> DEFINE S == {task[r].target} \cap Live
  <2>1. store' = Without(S)
    BY <1>12 DEF RevokeRemove, Without, Live, IInv, TypeOK
  <2> QED
    BY <1>4, <1>12, <2>1 DEF RevokeRemove
<1>13. ASSUME NEW r \in Req, OtherHandler(r) PROVE Lifecycle!Next
  BY <1>4, <1>5, <1>13 DEF OtherHandler
<1>14. CASE Tick \/ ClockSetBack
  BY <1>14 DEF Tick, ClockSetBack, Lifecycle!vars
<1>15. CASE Restart
  <2>1. /\ \A i \in Id : store'[i] = None
        /\ \A r \in Req : task'[r].pc = "idle"
        /\ UNCHANGED issuer
    BY <1>15 DEF Restart, Idle
  <2>2. \A i \in Id : store[i] # None => issuer[i] # None
    BY NoneAssumption, EntryAssumption DEF IInv, TypeOK, EntriesMatchIssuer, TokenEntry
  <2>3. Lifecycle!Crash
    BY <2>1, <2>2 DEF Lifecycle!Crash
  <2> QED
    BY <2>3 DEF Lifecycle!Next
<1>16. CASE UNCHANGED vars
  BY <1>16 DEF vars, Lifecycle!vars
<1> QED
  BY <1>1, <1>2, <1>8, <1>9, <1>10, <1>11, <1>12, <1>13, <1>14, <1>15, <1>16 DEF Next

\* The store, with its locks, its lazy pruning and its clock, implements the
\* life cycle in which a token is issued once and never comes back.
THEOREM Refinement == Spec => ImplementsLifecycle
BY LifecycleInit, LifecycleStep, Inductive, PTL
   DEF Spec, ImplementsLifecycle, Lifecycle!Spec
=============================================================================
