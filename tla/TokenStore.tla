----------------------------- MODULE TokenStore -----------------------------
(***************************************************************************)
(* The in-memory store of API bearer tokens (src/auth/token.rs) and the    *)
(* requests that use it at the same time: the bearer half of the           *)
(* SessionUser extractor (src/auth/session.rs) and the handlers of         *)
(* /auth/tokens (src/routes/auth.rs).                                      *)
(*                                                                         *)
(* Every method of the store takes its mutex once, so each is one action.  *)
(* DELETE /auth/tokens/:id calls two of them and is two actions: other     *)
(* requests run between the list and the removal.  The wall clock the      *)
(* store reads is SystemTime, which may also be set back.                  *)
(***************************************************************************)
EXTENDS Integers, FiniteSets

CONSTANTS User,            \* account ids
          Id,              \* token ids: 32 random bytes, so never drawn twice
          Req,             \* requests handled at the same time
          None,            \* Option::None
          MinTtl, MaxTtl,  \* 60 and MAX_TTL_SECS
          AskedTtl,        \* the ttl_seconds callers ask for
          MaxTime          \* bound of the clock

ASSUME TtlAssumption == MinTtl \in Nat /\ MaxTtl \in Nat /\ MinTtl <= MaxTtl
ASSUME AskedAssumption == AskedTtl \subseteq Int
ASSUME TimeAssumption == MaxTime \in Nat
ASSUME NoneAssumption == None \notin User /\ None \notin Id

VARIABLES store,     \* store[i]: the entry of id i, None when the map has no such key
          now,       \* now_unix()
          task,      \* task[r]: where request r is in its handler
          issuer,    \* issuer[i]: whom i was issued to, ever (observation)
          finished   \* ids a client has seen refused, or revoked with a 204 (observation)

vars == <<store, now, task, issuer, finished>>

TokenEntry == [user : User, created : Int, expires : Int]

ASSUME EntryAssumption == None \notin TokenEntry

Task == [pc : {"idle", "authed", "revoking"}, user : User \cup {None},
         via : Id \cup {None}, target : Id \cup {None}]

Idle == [pc |-> "idle", user |-> None, via |-> None, target |-> None]
\* mutant: the two fields swapped.
AuthedSwapped(u, i) == [pc |-> "authed", user |-> i, via |-> u, target |-> None]
Authed(u, i) == [pc |-> "authed", user |-> u, via |-> i, target |-> None]
Revoking(t, i) == [pc |-> "revoking", user |-> t.user, via |-> t.via, target |-> i]

\* None is not a principal either (it stands for "acts for nobody").
ASSUME PrincipalAssumption == None \notin [user : User, via : Id \cup {None}]

TypeOK == /\ store \in [Id -> TokenEntry \cup {None}]
          /\ now \in 0..MaxTime
          /\ task \in [Req -> Task]
          /\ issuer \in [Id -> User \cup {None}]
          /\ finished \subseteq Id

Init == /\ store = [i \in Id |-> None]
        /\ now = 0
        /\ task = [r \in Req |-> Idle]
        /\ issuer = [i \in Id |-> None]
        /\ finished = {}

-----------------------------------------------------------------------------
(* The store's methods, each under the mutex.                              *)

Live == {i \in Id : store[i] # None}
Expired(i) == store[i].expires <= now
Stale == {i \in Live : Expired(i)}
Valid == Live \ Stale

Without(S) == [i \in Id |-> IF i \in S THEN None ELSE store[i]]

\* mutant: an id is free again once it has left the map.
FreshAfterDrop == {i \in Id : store[i] = None}

\* hex(32 random bytes): an id nothing was issued under before.
FreshIds == {i \in Id : issuer[i] = None}

\* mutant: no lower bound on the lifetime.
ClampAbove(ttl) == IF ttl > MaxTtl THEN MaxTtl ELSE ttl

\* What create's caller hands it: ttl.clamp(60, MAX_TTL_SECS).
Clamp(ttl) == IF ttl < MinTtl THEN MinTtl ELSE IF ttl > MaxTtl THEN MaxTtl ELSE ttl

\* mutant: lookup answers None but leaves the expired entry.
KeptByLookup(i) == {}

\* lookup drops an expired entry before it answers None.
DroppedByLookup(i) == Stale \cap {i}

\* mutant: the list keeps the expired entries and drops the others.
DroppedByListInverted == Valid

\* list_for_user drops every expired entry, whoever it belongs to.
DroppedByList == Stale

\* mutant: the list does not filter by owner.
OwnedByAnyone(u) == Valid
OwnedBy(u) == {i \in Valid : store[i].user = u}

-----------------------------------------------------------------------------
(* Requests.                                                               *)

\* POST /auth/tokens: the password of u has been verified.
CreateToken(u, ttl) ==
  \E i \in FreshIds :
    /\ store' = [store EXCEPT ![i] = [user |-> u, created |-> now, expires |-> now + Clamp(ttl)]]
    /\ issuer' = [issuer EXCEPT ![i] = u]
    /\ UNCHANGED <<now, task, finished>>

\* Authorization: Bearer i, and lookup finds it.
BearerAccepted(r, i) ==
  /\ task[r].pc = "idle"
  /\ i \in Valid
  /\ task' = [task EXCEPT ![r] = Authed(store[i].user, i)]
  /\ UNCHANGED <<store, now, issuer, finished>>

\* lookup answers None for a token that was issued; the extractor falls
\* through to the cookie, which yields user u or nobody (401).
BearerRefused(r, i, u) ==
  /\ task[r].pc = "idle"
  /\ issuer[i] # None
  /\ i \notin Valid
  /\ store' = Without(DroppedByLookup(i))
  /\ finished' = finished \cup {i}
  /\ task' = IF u = None THEN task
             ELSE [task EXCEPT ![r] = Authed(u, None)]
  /\ UNCHANGED <<now, issuer>>

\* No Authorization header: the session cookie alone.
CookieAccepted(r, u) ==
  /\ task[r].pc = "idle"
  /\ task' = [task EXCEPT ![r] = Authed(u, None)]
  /\ UNCHANGED <<store, now, issuer, finished>>

\* GET /auth/tokens
ListTokens(r) ==
  /\ task[r].pc = "authed"
  /\ store' = Without(DroppedByList)
  /\ task' = [task EXCEPT ![r] = Idle]
  /\ UNCHANGED <<now, issuer, finished>>

\* DELETE /auth/tokens/:id, first lock: 404 unless the caller's list has i.
RevokeFind(r, i) ==
  /\ task[r].pc = "authed"
  /\ store' = Without(DroppedByList)
  /\ task' = [task EXCEPT ![r] = IF i \in OwnedBy(task[r].user)
                                 THEN Revoking(task[r], i)
                                 ELSE Idle]
  /\ UNCHANGED <<now, issuer, finished>>

\* DELETE /auth/tokens/:id, second lock: removes the id whoever owns it, 204.
RevokeRemove(r) ==
  /\ task[r].pc = "revoking"
  /\ store' = Without({task[r].target})
  /\ finished' = finished \cup {task[r].target}
  /\ task' = [task EXCEPT ![r] = Idle]
  /\ UNCHANGED <<now, issuer>>

\* Any other handler: it uses the principal it was given and answers.
OtherHandler(r) ==
  /\ task[r].pc = "authed"
  /\ task' = [task EXCEPT ![r] = Idle]
  /\ UNCHANGED <<store, now, issuer, finished>>

Tick == /\ now < MaxTime
        /\ now' = now + 1
        /\ UNCHANGED <<store, task, issuer, finished>>

\* The system clock is corrected backwards.
ClockSetBack == /\ now' \in 0..(now - 1)
                /\ UNCHANGED <<store, task, issuer, finished>>

\* The process restarts: the map and the requests in flight are gone.
Restart == /\ store' = [i \in Id |-> None]
           /\ task' = [r \in Req |-> Idle]
           /\ UNCHANGED <<now, issuer, finished>>

Next == \/ \E u \in User, ttl \in AskedTtl : CreateToken(u, ttl)
        \/ \E r \in Req, i \in Id : BearerAccepted(r, i)
        \/ \E r \in Req, i \in Id, u \in User \cup {None} : BearerRefused(r, i, u)
        \/ \E r \in Req, u \in User : CookieAccepted(r, u)
        \/ \E r \in Req : ListTokens(r)
        \/ \E r \in Req, i \in Id : RevokeFind(r, i)
        \/ \E r \in Req : RevokeRemove(r)
        \/ \E r \in Req : OtherHandler(r)
        \/ Tick
        \/ ClockSetBack
        \/ Restart

Spec == Init /\ [][Next]_vars

-----------------------------------------------------------------------------
(* Properties.                                                             *)

\* A token a client has once seen refused, or revoked with a 204, is in the
\* map no more and can never be accepted again: not by a request that was
\* racing the revocation, not when the clock is set back to before its
\* expiry (lookup dropped the entry), not after a restart.
FinishedIsFinal == finished \cap Live = {}

\* A request that came in by token acts for the user the token was issued
\* to, through any interleaving of issues, revocations and expiries; and a
\* request about to remove an entry (second lock of DELETE) acts for the
\* user that entry's id was issued to, although it checked under another
\* lock.
ActsAsIssuer == \A r \in Req :
                  /\ task[r].via # None => task[r].user = issuer[task[r].via]
                  /\ task[r].pc = "revoking" => task[r].user = issuer[task[r].target]

\* While the server stays up, an unexpired token leaves the map only in the
\* second step of a DELETE of that token made for the user it was issued to:
\* never because of another user's request, lookup or list.
LosesTokenOnlyToOwner ==
  [][\A i \in Valid : i \notin Live' =>
        \/ Restart
        \/ \E r \in Req : /\ RevokeRemove(r)
                          /\ task[r].target = i
                          /\ task[r].user = issuer[i]]_vars

\* Whatever ttl_seconds a caller asks for, no entry outlives the cap or is
\* born expired.
LifetimeCapped == \A i \in Live :
                     store[i].expires - store[i].created \in MinTtl..MaxTtl

\* The store implements the life cycle its clients rely on.
Lifecycle == INSTANCE TokenLifecycle WITH
  status <- [i \in Id |-> IF store[i] # None THEN "active"
                          ELSE IF issuer[i] # None THEN "dead" ELSE "unissued"],
  holder <- issuer,
  acting <- [r \in Req |-> IF task[r].pc = "idle" THEN None
                           ELSE [user |-> task[r].user, via |-> task[r].via]]

ImplementsLifecycle == Lifecycle!Spec
=============================================================================
