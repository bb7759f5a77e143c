--------------------------- MODULE TokenLifecycle ---------------------------
(***************************************************************************)
(* What the API-token subsystem promises, without its clock, its map or    *)
(* its locks: a token is issued once, to one user, serves only that user,  *)
(* and once it has stopped being accepted it is never accepted again.      *)
(* TokenStore implements this module (see the refinement there).           *)
(***************************************************************************)
CONSTANTS User,     \* account ids
          Id,       \* token ids that may ever be issued
          Req,      \* requests the server handles at the same time
          None      \* no value

VARIABLES status,   \* status[i]: "unissued", "active" or "dead"
          holder,   \* holder[i]: the user token i was issued to
          acting    \* acting[r]: who request r acts for, and through what

vars == <<status, holder, acting>>

Principal == [user : User, via : Id \cup {None}]

TypeOK == /\ status \in [Id -> {"unissued", "active", "dead"}]
          /\ holder \in [Id -> User \cup {None}]
          /\ acting \in [Req -> Principal \cup {None}]

Init == /\ status = [i \in Id |-> "unissued"]
        /\ holder = [i \in Id |-> None]
        /\ acting = [r \in Req |-> None]

\* The tokens of S are no longer accepted.
Retire(S) == /\ \A i \in S : status[i] = "active"
             /\ status' = [i \in Id |-> IF i \in S THEN "dead" ELSE status[i]]

Issue(i, u) == /\ status[i] = "unissued"
               /\ status' = [status EXCEPT ![i] = "active"]
               /\ holder' = [holder EXCEPT ![i] = u]
               /\ UNCHANGED acting

AdmitByToken(r, i) == /\ acting[r] = None
                      /\ status[i] = "active"
                      /\ acting' = [acting EXCEPT ![r] = [user |-> holder[i], via |-> i]]
                      /\ UNCHANGED <<status, holder>>

AdmitBySession(r, u, S) == /\ acting[r] = None
                           /\ Retire(S)
                           /\ acting' = [acting EXCEPT ![r] = [user |-> u, via |-> None]]
                           /\ UNCHANGED holder

Leave(r, S) == /\ acting[r] # None
               /\ Retire(S)
               /\ acting' = [acting EXCEPT ![r] = None]
               /\ UNCHANGED holder

Lapse(S) == /\ Retire(S)
            /\ UNCHANGED <<holder, acting>>

Crash == /\ status' = [i \in Id |-> IF status[i] = "active" THEN "dead" ELSE status[i]]
         /\ acting' = [r \in Req |-> None]
         /\ UNCHANGED holder

Next == \/ \E i \in Id, u \in User : Issue(i, u)
        \/ \E r \in Req, i \in Id : AdmitByToken(r, i)
        \/ \E r \in Req, u \in User, S \in SUBSET Id : AdmitBySession(r, u, S)
        \/ \E r \in Req, S \in SUBSET Id : Leave(r, S)
        \/ \E S \in SUBSET Id : Lapse(S)
        \/ Crash

Spec == Init /\ [][Next]_vars
=============================================================================
