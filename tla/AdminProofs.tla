---------------------------- MODULE AdminProofs -----------------------------
(***************************************************************************)
(* Proofs about the two registries that administrators keep: UserAdmin,    *)
(* for any number of accounts, names, form bodies and concurrent requests, *)
(* and Sensors, for any number of people, forms and sensors.               *)
(***************************************************************************)
EXTENDS UserAdmin, Sensors, FiniteSetTheorems, TLAPS

-----------------------------------------------------------------------------
(* UserAdmin.                                                              *)

(* What a request in mid-handler may rely on.                              *)

\* A delete past its checks is not of the caller, and either the target was
\* not among the administrators it saw, or they were at least two.
DeleteChecked ==
  \A r \in Req : task[r].pc \in {"count", "delete"} =>
    /\ task[r].id \in Uid
    /\ task[r].id # task[r].self
    /\ task[r].pc = "delete" /\ task[r].id \in task[r].seen =>
         \E u \in task[r].seen : u # task[r].id
    /\ task[r].pc = "count" => task[r].id \in task[r].seen

\* A save of one's own row writes values that its self-protection cleared.
SaveProtected ==
  \A r \in Req : task[r].pc \in {"rename", "update"} =>
    /\ task[r].id \in Uid
    /\ task[r].edit \in Row
    /\ task[r].target \in Row
    /\ task[r].self = task[r].id =>
         /\ task[r].target.is_admin => task[r].edit.is_admin
         /\ task[r].edit.blocked => task[r].target.blocked
         /\ task[r].edit.expired => task[r].target.expired

InsertReady == \A r \in Req : task[r].pc = "insert" => task[r].edit \in Row

IInv == TypeOK /\ DeleteChecked /\ SaveProtected /\ InsertReady

\* What one task must satisfy for IInv to hold of it.
TaskInv(t) ==
  /\ t \in Task
  /\ t.pc \in {"count", "delete"} =>
       /\ t.id \in Uid
       /\ t.id # t.self
       /\ t.pc = "delete" /\ t.id \in t.seen => \E u \in t.seen : u # t.id
       /\ t.pc = "count" => t.id \in t.seen
  /\ t.pc \in {"rename", "update"} =>
       /\ t.id \in Uid
       /\ t.edit \in Row
       /\ t.target \in Row
       /\ t.self = t.id => /\ t.target.is_admin => t.edit.is_admin
                           /\ t.edit.blocked => t.target.blocked
                           /\ t.edit.expired => t.target.expired
  /\ t.pc = "insert" => t.edit \in Row

-----------------------------------------------------------------------------

\* IInv is TaskInv of every task, over a well-typed table.
LEMMA IInvByTask ==
  IInv <=> /\ row \in [Uid -> Row \cup {None}]
           /\ used \subseteq Uid
           /\ sessions \subseteq Snapshot
           /\ task \in [Req -> Task]
           /\ \A r \in Req : TaskInv(task[r])
BY DEF IInv, TypeOK, DeleteChecked, SaveProtected, InsertReady, TaskInv

\* parse_edit_form hands on a row's worth of values.
LEMMA ParsedIsRow ==
  ASSUME NEW f \in Forms, ParseOk(f)
  PROVE  Parsed(f) \in Row
BY FormsAssumption DEF ParseOk, Parsed, Form, Row

\* The self-protection never makes an own row worse than the one read.
LEMMA SnapBackProtects ==
  ASSUME NEW e \in Row, NEW old \in Row
  PROVE  /\ SnapBack(e, old) \in Row
         /\ old.is_admin => SnapBack(e, old).is_admin
         /\ SnapBack(e, old).blocked => old.blocked
         /\ SnapBack(e, old).expired => old.expired
BY DEF SnapBack, Row

\* A request that ends, or has not started, holds nothing.
LEMMA EndedTask ==
  ASSUME NEW pc \in {"idle", "done", "refused"},
         NEW op \in {"none", "create", "update", "delete", "reset"},
         NEW pw \in {"absent", "short", "good"}
  PROVE  TaskInv([Idle EXCEPT !.pc = pc, !.op = op, !.pw = pw])
BY DEF TaskInv, Task, Idle, Pc

\* A step that changes one task into one that satisfies TaskInv, and leaves
\* a well-typed table, keeps the invariant.
LEMMA OneTask ==
  ASSUME IInv, NEW r \in Req, NEW t, TaskInv(t), Goes(r, t),
         row' \in [Uid -> Row \cup {None}], used' \subseteq Uid, sessions' \subseteq Snapshot
  PROVE  IInv'
<1>1. task' \in [Req -> Task] /\ \A q \in Req : TaskInv(task'[q])
  BY IInvByTask DEF Goes, TaskInv
<1>2. /\ row' \in [Uid -> Row \cup {None}]
      /\ used' \subseteq Uid
      /\ sessions' \subseteq Snapshot
      /\ task' \in [Req -> Task]
      /\ \A q \in Req : TaskInv(task[q])'
  BY <1>1 DEF TaskInv
<1> QED
  BY <1>2 DEF IInv, TypeOK, DeleteChecked, SaveProtected, InsertReady, TaskInv

LEMMA AnswerKeeps ==
  ASSUME IInv, NEW r \in Req, NEW how \in {"done", "refused"}, Answers(r, how),
         row' \in [Uid -> Row \cup {None}], used' \subseteq Uid, sessions' \subseteq Snapshot
  PROVE  IInv'
<1> DEFINE t == [Idle EXCEPT !.pc = how, !.op = task[r].op]
<1>1. task[r].op \in {"none", "create", "update", "delete", "reset"}
  BY DEF IInv, TypeOK, Task
<1>2. TaskInv(t)
  BY <1>1 DEF TaskInv, Task, Idle, Pc
<1>3. Goes(r, t)
  BY DEF Answers, Goes
<1> QED
  BY <1>2, <1>3, OneTask

LEMMA AnswerAtOnceKeeps ==
  ASSUME IInv, NEW r \in Req, NEW op \in {"create", "update", "delete", "reset"},
         NEW how \in {"done", "refused"}, NEW pw \in {"absent", "short", "good"},
         AnswersAtOnce(r, op, how, pw),
         UNCHANGED <<row, used, sessions>>
  PROVE  IInv'
<1> DEFINE t == [Idle EXCEPT !.pc = how, !.op = op, !.pw = pw]
<1>1. TaskInv(t)
  BY EndedTask
<1>2. Goes(r, t)
  BY DEF AnswersAtOnce, Goes
<1>3. /\ row' \in [Uid -> Row \cup {None}]
      /\ used' \subseteq Uid
      /\ sessions' \subseteq Snapshot
  BY DEF IInv, TypeOK
<1> HIDE DEF t
<1> QED
  BY <1>1, <1>2, <1>3, OneTask

LEMMA InitInv == Init => IInv
<1> SUFFICES ASSUME Init PROVE IInv
  OBVIOUS
<1>1. TaskInv(Idle)
  BY DEF TaskInv, Idle, Task, Pc
<1>2. task = [r \in Req |-> Idle] /\ task \in [Req -> Task]
  BY <1>1 DEF Init, TaskInv
<1>3. used \subseteq Uid /\ sessions \subseteq Snapshot /\ row \in [Uid -> Row \cup {None}]
  BY DEF Init, Users
<1> QED
  BY <1>1, <1>2, <1>3, IInvByTask

LEMMA CreateInv ==
  ASSUME IInv, Create
  PROVE  IInv'
<1>1. ASSUME NEW r \in Req, NEW s \in sessions, NEW f \in Forms, CreateCheck(r, s, f)
      PROVE  IInv'
  <2>1. CASE f.pw = "absent" \/ ~ParseOk(f) \/ NameTaken(f.name)
    <3>1. f.pw \in {"absent", "short", "good"}
      BY FormsAssumption DEF Form
    <3> QED
      BY <1>1, <2>1, <3>1, AnswerAtOnceKeeps DEF CreateCheck
  <2>2. CASE ~(f.pw = "absent" \/ ~ParseOk(f) \/ NameTaken(f.name))
    <3> DEFINE t == [Idle EXCEPT !.pc = "insert", !.op = "create", !.edit = Parsed(f)]
    <3>1. Parsed(f) \in Row
      BY <2>2, ParsedIsRow
    <3>2. TaskInv(t)
      BY <3>1 DEF TaskInv, Task, Idle, Pc
    <3>3. Goes(r, t) /\ UNCHANGED <<row, used, sessions>>
      BY <1>1, <2>2 DEF CreateCheck
    <3> HIDE DEF t
    <3> QED
      BY <3>2, <3>3, OneTask DEF IInv, TypeOK
  <2> QED
    BY <2>1, <2>2
<1>2. ASSUME NEW r \in Req, CreateInsert(r) PROVE IInv'
  <2>1. task[r].edit \in Row
    BY <1>2 DEF CreateInsert, IInv, InsertReady
  <2>2. row' \in [Uid -> Row \cup {None}] /\ used' \subseteq Uid /\ sessions' \subseteq Snapshot
    BY <1>2, <2>1 DEF CreateInsert, IInv, TypeOK
  <2>3. \E how \in {"done", "refused"} : Answers(r, how)
    BY <1>2 DEF CreateInsert
  <2> QED
    BY <2>2, <2>3, AnswerKeeps
<1> QED
  BY <1>1, <1>2 DEF Create

LEMMA UpdateInv ==
  ASSUME IInv, Update
  PROVE  IInv'
<1>1. ASSUME NEW r \in Req, NEW s \in sessions, NEW u \in Uid, NEW f \in Forms,
             UpdateRead(r, s, u, f)
      PROVE  IInv'
  <2>1. CASE u \notin Users \/ ~ParseOk(f)
    <3>1. f.pw \in {"absent", "short", "good"}
      BY FormsAssumption DEF Form
    <3> QED
      BY <1>1, <2>1, <3>1, AnswerAtOnceKeeps DEF UpdateRead
  <2>2. CASE u \in Users /\ ParseOk(f)
    <3> DEFINE e == IF s.uid = u THEN SnapBack(Parsed(f), row[u]) ELSE Parsed(f)
               pc == IF f.name # row[u].name THEN "rename" ELSE "update"
               t == [Idle EXCEPT !.pc = pc, !.op = "update", !.self = s.uid, !.id = u,
                                 !.target = row[u], !.edit = e]
    <3>1. row[u] \in Row /\ Parsed(f) \in Row /\ s.uid \in Uid
      BY <2>2, ParsedIsRow DEF Users, IInv, TypeOK, Snapshot
    <3>2. /\ e \in Row
          /\ s.uid = u => /\ row[u].is_admin => e.is_admin
                          /\ e.blocked => row[u].blocked
                          /\ e.expired => row[u].expired
      BY <3>1, SnapBackProtects
    <3>3. Goes(r, t) /\ UNCHANGED <<row, used, sessions>>
      BY <1>1, <2>2 DEF UpdateRead
    <3> HIDE DEF e
    <3>4. TaskInv(t)
      BY <3>1, <3>2 DEF TaskInv, Task, Idle, Pc
    <3> HIDE DEF t
    <3> QED
      BY <3>3, <3>4, OneTask DEF IInv, TypeOK
  <2> QED
    BY <2>1, <2>2
<1>2. ASSUME NEW r \in Req, UpdateCheckName(r) PROVE IInv'
  <2>1. CASE Answers(r, "refused")
    BY <1>2, <2>1, AnswerKeeps DEF UpdateCheckName, IInv, TypeOK
  <2>2. CASE Goes(r, [task[r] EXCEPT !.pc = "update"])
    <3>1. TaskInv(task[r]) /\ task[r].pc = "rename"
      BY <1>2, IInvByTask DEF UpdateCheckName
    <3>2. TaskInv([task[r] EXCEPT !.pc = "update"])
      BY <3>1 DEF TaskInv, Task, Pc
    <3> QED
      BY <1>2, <2>2, <3>2, OneTask DEF UpdateCheckName, IInv, TypeOK
  <2> QED
    BY <1>2, <2>1, <2>2 DEF UpdateCheckName
<1>3. ASSUME NEW r \in Req, UpdateWrite(r) PROVE IInv'
  <2>1. task[r].id \in Uid /\ task[r].edit \in Row
    BY <1>3 DEF UpdateWrite, IInv, SaveProtected
  <2>2. row' \in [Uid -> Row \cup {None}] /\ used' \subseteq Uid /\ sessions' \subseteq Snapshot
    BY <1>3, <2>1 DEF UpdateWrite, IInv, TypeOK
  <2>3. \E how \in {"done", "refused"} : Answers(r, how)
    BY <1>3 DEF UpdateWrite
  <2> QED
    BY <2>2, <2>3, AnswerKeeps
<1> QED
  BY <1>1, <1>2, <1>3 DEF Update

LEMMA DeleteInv ==
  ASSUME IInv, Delete
  PROVE  IInv'
<1>1. ASSUME NEW r \in Req, NEW s \in sessions, NEW u \in Uid, DeleteRead(r, s, u)
      PROVE  IInv'
  <2>1. CASE u \notin Users \/ s.uid = u
    BY <1>1, <2>1, AnswerAtOnceKeeps DEF DeleteRead
  <2>2. CASE u \in Users /\ s.uid # u
    <3> DEFINE pc == IF row[u].is_admin THEN "count" ELSE "delete"
               t == [Idle EXCEPT !.pc = pc, !.op = "delete", !.self = s.uid, !.id = u,
                                 !.target = row[u], !.seen = Admins]
    <3>1. row[u] \in Row /\ s.uid \in Uid /\ Admins \in SUBSET Uid
      BY <2>2 DEF Users, Admins, IInv, TypeOK, Snapshot
    <3>2. u \in Admins <=> row[u].is_admin
      BY <2>2 DEF Admins
    <3>3. Goes(r, t) /\ UNCHANGED <<row, used, sessions>>
      BY <1>1, <2>2 DEF DeleteRead
    <3>4. TaskInv(t)
      BY <2>2, <3>1, <3>2 DEF TaskInv, Task, Idle, Pc
    <3> HIDE DEF t
    <3> QED
      BY <3>3, <3>4, OneTask DEF IInv, TypeOK
  <2> QED
    BY <2>1, <2>2
<1>2. ASSUME NEW r \in Req, DeleteCount(r) PROVE IInv'
  <2>1. CASE count_admins <= 1
    BY <1>2, <2>1, AnswerKeeps DEF DeleteCount, IInv, TypeOK
  <2>2. CASE ~(count_admins <= 1)
    <3> DEFINE t == [task[r] EXCEPT !.pc = "delete", !.seen = Admins]
    <3>1. TaskInv(task[r]) /\ task[r].pc = "count"
      BY <1>2, IInvByTask DEF DeleteCount
    <3>2. Admins \in SUBSET Uid /\ IsFiniteSet(Admins)
      BY UidAssumption, FS_Subset DEF Admins, Users
    <3>3. \E u \in Admins : u # task[r].id
      <4>1. SUFFICES ASSUME Admins \subseteq {task[r].id} PROVE FALSE
        OBVIOUS
      <4>2. Cardinality(Admins) <= Cardinality({task[r].id}) /\ Cardinality({task[r].id}) = 1
        BY <4>1, FS_Singleton, FS_Subset
      <4> QED
        BY <2>2, <3>2, <4>2, FS_CardinalityType DEF count_admins
    <3>4. TaskInv(t)
      BY <3>1, <3>2, <3>3 DEF TaskInv, Task, Pc
    <3>5. Goes(r, t) /\ UNCHANGED <<row, used, sessions>>
      BY <1>2, <2>2 DEF DeleteCount
    <3> HIDE DEF t
    <3> QED
      BY <3>4, <3>5, OneTask DEF IInv, TypeOK
  <2> QED
    BY <2>1, <2>2
<1>3. ASSUME NEW r \in Req, DeleteWrite(r) PROVE IInv'
  <2>1. row' \in [Uid -> Row \cup {None}] /\ used' \subseteq Uid /\ sessions' \subseteq Snapshot
    BY <1>3 DEF DeleteWrite, IInv, TypeOK
  <2>2. \E how \in {"done", "refused"} : Answers(r, how)
    BY <1>3 DEF DeleteWrite
  <2> QED
    BY <2>1, <2>2, AnswerKeeps
<1> QED
  BY <1>1, <1>2, <1>3 DEF Delete

LEMMA RestInv ==
  ASSUME IInv, Reset \/ Session
  PROVE  IInv'
<1>1. ASSUME NEW r \in Req, NEW s \in sessions, NEW u \in Uid,
             NEW pw \in {"short", "good"}, ResetPassword(r, s, u, pw)
      PROVE  IInv'
  <2>1. PICK how \in {"done", "refused"} : AnswersAtOnce(r, "reset", how, pw)
    BY <1>1 DEF ResetPassword
  <2> QED
    BY <1>1, <2>1, AnswerAtOnceKeeps DEF ResetPassword
<1>2. ASSUME NEW u \in Uid, verify_login(u) PROVE IInv'
  <2>1. row[u].is_admin \in BOOLEAN
    BY <1>2 DEF verify_login, CanLogIn, Users, IInv, TypeOK, Row
  <2>2. sessions' \subseteq Snapshot
    BY <1>2, <2>1 DEF verify_login, Snapshot, IInv, TypeOK
  <2> QED
    BY <1>2, <2>2 DEF verify_login, IInv, TypeOK, DeleteChecked, SaveProtected, InsertReady
<1>3. ASSUME NEW s \in sessions, SessionEnds(s) PROVE IInv'
  BY <1>3 DEF SessionEnds, IInv, TypeOK, DeleteChecked, SaveProtected, InsertReady
<1>4. ASSUME NEW r \in Req, Respond(r) PROVE IInv'
  <2>1. TaskInv(Idle)
    BY DEF TaskInv, Idle, Task, Pc
  <2> QED
    BY <1>4, <2>1, OneTask DEF Respond, IInv, TypeOK
<1> QED
  BY <1>1, <1>2, <1>3, <1>4 DEF Reset, Session

LEMMA NextInv == IInv /\ [Next]_vars => IInv'
<1>1. ASSUME IInv, UNCHANGED vars PROVE IInv'
  BY <1>1 DEF vars, IInv, TypeOK, DeleteChecked, SaveProtected, InsertReady
<1> QED
  BY <1>1, CreateInv, UpdateInv, DeleteInv, RestInv DEF Next

-----------------------------------------------------------------------------

\* The inductive invariant holds in every reachable state.
THEOREM Inductive == Spec => []IInv
BY InitInv, NextInv, PTL DEF Spec

\* Every state is well typed.
THEOREM TypeCorrect == Spec => []TypeOK
<1>1. IInv => TypeOK
  BY DEF IInv
<1> QED
  BY <1>1, Inductive, PTL

\* With any number of accounts and concurrent requests, a delete leaves no
\* administrator only if the administrators changed after it last looked.
THEOREM LastAdmin == Spec => LastAdminGoesOnlyByRace
<1> DEFINE A == \A r \in Req : DeleteWrite(r) /\ Admins # {} /\ Admins' = {}
                                => Admins # task[r].seen
<1>1. IInv /\ [Next]_vars => [A]_vars
  <2> SUFFICES ASSUME IInv, NEW r \in Req, DeleteWrite(r), Admins # {}, Admins' = {},
                      Admins = task[r].seen
               PROVE  FALSE
    OBVIOUS
  <2>1. PICK u \in Admins : u # task[r].id
    BY DEF DeleteWrite, IInv, DeleteChecked
  <2>2. u \in Uid /\ row[u] # None /\ row[u].is_admin /\ row'[u] = row[u]
    BY <2>1 DEF DeleteWrite, Admins, Users, IInv, TypeOK
  <2>3. u \in Admins'
    BY <2>2 DEF Admins, Users
  <2> QED
    BY <2>3
<1> QED
  BY <1>1, Inductive, PTL DEF Spec, LastAdminGoesOnlyByRace

\* Saving one's own row makes it worse only if it changed since it was read.
THEOREM SelfProtection == Spec => SelfLockoutOnlyByRace
<1> DEFINE A == \A r \in Req :
                  UpdateWrite(r) /\ task[r].self = task[r].id /\ task[r].id \in Users =>
                    LET old == row[task[r].id]
                        new == row'[task[r].id]
                    IN \/ /\ old.is_admin => new.is_admin
                          /\ new.blocked => old.blocked
                          /\ new.expired => old.expired
                       \/ old # task[r].target
<1>1. IInv /\ [Next]_vars => [A]_vars
  <2> SUFFICES ASSUME IInv, NEW r \in Req, UpdateWrite(r), task[r].self = task[r].id,
                      row[task[r].id] = task[r].target
               PROVE  LET old == row[task[r].id]
                          new == row'[task[r].id]
                      IN /\ old.is_admin => new.is_admin
                         /\ new.blocked => old.blocked
                         /\ new.expired => old.expired
    OBVIOUS
  <2>1. /\ task[r].id \in Uid
        /\ task[r].target.is_admin => task[r].edit.is_admin
        /\ task[r].edit.blocked => task[r].target.blocked
        /\ task[r].edit.expired => task[r].target.expired
    BY DEF UpdateWrite, IInv, SaveProtected
  <2>2. row'[task[r].id] \in {row[task[r].id], task[r].edit}
    BY <2>1 DEF UpdateWrite, IInv, TypeOK
  <2> QED
    BY <2>1, <2>2
<1> QED
  BY <1>1, Inductive, PTL DEF Spec, SelfLockoutOnlyByRace

\* Whatever saves, creates and deletes are in flight, no step gives a row
\* back to an id that was used and has none.
THEOREM NoResurrection == Spec => DeletedStaysDeleted
<1> DEFINE A == \A u \in used : row[u] = None => row'[u] = None
<1>1. ASSUME IInv, [Next]_vars PROVE A
  <2>1. ASSUME NEW r \in Req, CreateInsert(r) PROVE A
    <3>1. CASE row' = row
      BY <3>1
    <3>2. ASSUME NEW v \in Uid \ used, row' = [row EXCEPT ![v] = task[r].edit] PROVE A
      BY <3>2, <1>1 DEF IInv, TypeOK
    <3> QED
      BY <2>1, <3>1, <3>2 DEF CreateInsert
  <2>2. ASSUME NEW r \in Req, UpdateWrite(r) PROVE A
    BY <2>2, <1>1 DEF UpdateWrite, Users, IInv, TypeOK
  <2>3. ASSUME NEW r \in Req, DeleteWrite(r) PROVE A
    BY <2>3, <1>1 DEF DeleteWrite, IInv, TypeOK
  <2>4. CASE row' = row
    BY <2>4
  <2> QED
    BY <1>1, <2>1, <2>2, <2>3, <2>4
       DEF Next, Create, Update, Delete, Reset, Session, CreateCheck, UpdateRead,
           UpdateCheckName, DeleteRead, DeleteCount, ResetPassword, verify_login,
           SessionEnds, Respond, vars
<1> QED
  BY <1>1, Inductive, PTL DEF Spec, DeletedStaysDeleted

-----------------------------------------------------------------------------
(* Sensors: every state is well typed, a row is what was last saved for its *)
(* sensor, and a list leaves no sensor with traffic out.                    *)

\* What is about to be written is a row.
Ready(p) == /\ request[p].op = "create" /\ request[p].pc = "insert" =>
                 request[p].edit \in SensorRow /\ request[p].id \in Id
            /\ request[p].op = "update" /\ request[p].pc = "update" =>
                 request[p].edit \in SensorRow /\ request[p].id \in Id
            /\ request[p].pc = "delete" => request[p].id \in Id

\* What is in the table, and that a sensor without a row has nothing saved.
Kept == \A i \in Id : /\ sensors[i] = None => saved[i] = None
                      /\ sensors[i] # None =>
                           sensors[i] = IF saved[i] = None THEN Skeleton ELSE saved[i]

\* The sensors with traffic are in the table, then in the list.
Listing(p) == /\ At(p, "list", "list_all") => request[p].producing \subseteq Known
              /\ At(p, "list", "count") \/ At(p, "list", "page") =>
                   request[p].producing \subseteq request[p].listed

SensorsInv == SensorsTypeOK /\ Kept /\ \A p \in People : Ready(p) /\ Listing(p)

LEMMA RowFacts ==
  Skeleton \in SensorRow /\ None \notin SensorRow /\ Traffic \subseteq Id /\ None \notin Id
BY SensorsNoneAssumption, IdAssumption DEF Skeleton, SensorRow

LEMMA ParsedIsSensorRow ==
  ASSUME NEW f \in SensorForms, Parses(f)
  PROVE  parse_edit_form(f) \in SensorRow
BY SensorFormsAssumption DEF Parses, parse_edit_form, SensorRow

LEMMA ParsedIsId ==
  ASSUME NEW f \in SensorForms
  PROVE  parse_id_sensor(f) \in Id \cup {None}
BY SensorFormsAssumption DEF parse_id_sensor

LEMMA NoRequestIsRequest == NoRequest \in Request
BY DEF NoRequest, Request

\* A step that sets one task only, and keeps its Ready and Listing.
LEMMA RequestStep ==
  ASSUME SensorsInv, NEW p \in People, NEW t \in Request, request' = [request EXCEPT ![p] = t],
         UNCHANGED <<sensors, saved>>, cdr' \subseteq Traffic,
         /\ t.op = "create" /\ t.pc = "insert" => t.edit \in SensorRow /\ t.id \in Id
         /\ t.op = "update" /\ t.pc = "update" => t.edit \in SensorRow /\ t.id \in Id
         /\ t.pc = "delete" => t.id \in Id,
         /\ t.op = "list" /\ t.pc = "list_all" => t.producing \subseteq Known
         /\ t.op = "list" /\ t.pc \in {"count", "page"} => t.producing \subseteq t.listed
  PROVE  SensorsInv'
<1>1. SensorsTypeOK'
  BY DEF SensorsInv, SensorsTypeOK
<1>2. Kept'
  BY DEF SensorsInv, Kept
<1>3. request \in [People -> Request] /\ request'[p] = t /\ \A q \in People : q # p => request'[q] = request[q]
  BY DEF SensorsInv, SensorsTypeOK
<1>4. ASSUME NEW q \in People PROVE Ready(q)' /\ Listing(q)'
  BY <1>3 DEF SensorsInv, Ready, Listing, At, Known
<1>. QED  BY <1>1, <1>2, <1>4 DEF SensorsInv

-----------------------------------------------------------------------------
(* The steps that write nothing.                                           *)

LEMMA BeginStep ==
  ASSUME SensorsInv, NEW p \in People, NEW op \in {"list", "new", "edit", "delete", "create", "update"},
         NEW pc \in {"backfill", "get", "missing", "insert", "update", "delete"},
         NEW i \in Id \cup {None}, NEW e \in SensorRow \cup {None},
         op \in {"create", "update"} /\ pc \in {"insert", "update"} => i \in Id /\ e \in SensorRow,
         pc = "delete" => i \in Id,
         Begin(p, op, pc, i, e)
  PROVE  SensorsInv'
<1>. DEFINE t == [NoRequest EXCEPT !.op = op, !.id = i, !.edit = e,
                                   !.pc = IF p \in Administrators THEN pc ELSE "forbidden"]
<1>1. /\ t \in Request /\ t.op = op /\ t.id = i /\ t.edit = e
      /\ t.pc \in {pc, "forbidden"}
  BY DEF NoRequest, Request
<1>2. request' = [request EXCEPT ![p] = t] /\ UNCHANGED <<sensors, cdr, saved>>
  BY DEF Begin, GoesTo
<1>3. cdr' \subseteq Traffic
  BY <1>2 DEF SensorsInv, SensorsTypeOK
<1>. HIDE DEF t
<1>. QED  BY <1>1, <1>2, <1>3, RequestStep

LEMMA AsksStep ==
  ASSUME SensorsInv, NEW p \in People, Asks(p)
  PROVE  SensorsInv'
<1>1. CASE GetList(p)
  BY <1>1, BeginStep DEF GetList
<1>2. CASE GetNew(p)
  BY <1>2, BeginStep DEF GetNew
<1>3. ASSUME NEW i \in Id, GetEdit(p, i) PROVE SensorsInv'
  BY <1>3, BeginStep DEF GetEdit
<1>4. ASSUME NEW i \in Id, PostDelete(p, i) PROVE SensorsInv'
  BY <1>4, BeginStep DEF PostDelete
<1>5. ASSUME NEW f \in SensorForms, PostNew(p, f) PROVE SensorsInv'
  <2>1. parse_id_sensor(f) \in Id \cup {None}
    BY ParsedIsId
  <2>2. CASE parse_id_sensor(f) # None /\ Parses(f)
    <3>1. Begin(p, "create", "insert", parse_id_sensor(f), parse_edit_form(f))
      BY <1>5, <2>2 DEF PostNew
    <3>2. parse_edit_form(f) \in SensorRow /\ parse_id_sensor(f) \in Id
      BY <2>1, <2>2, ParsedIsSensorRow
    <3>. QED  BY <3>1, <3>2, BeginStep
  <2>3. CASE ~(parse_id_sensor(f) # None /\ Parses(f))
    <3>1. Begin(p, "create", "missing", parse_id_sensor(f), None)
      BY <1>5, <2>3 DEF PostNew
    <3>. QED  BY <2>1, <3>1, BeginStep
  <2>. QED  BY <2>2, <2>3
<1>6. ASSUME NEW f \in SensorForms, NEW i \in Id, PostEdit(p, i, f) PROVE SensorsInv'
  <2>1. CASE Parses(f)
    <3>1. Begin(p, "update", "update", i, parse_edit_form(f)) /\ parse_edit_form(f) \in SensorRow
      BY <1>6, <2>1, ParsedIsSensorRow DEF PostEdit
    <3>. QED  BY <3>1, BeginStep
  <2>2. CASE ~Parses(f)
    <3>1. Begin(p, "update", "missing", i, None)
      BY <1>6, <2>2 DEF PostEdit
    <3>. QED  BY <3>1, BeginStep
  <2>. QED  BY <2>1, <2>2
<1>. QED  BY <1>1, <1>2, <1>3, <1>4, <1>5, <1>6 DEF Asks

\* The statements that only read: Known is what is listed, then stays in the list.
LEMMA ReadsStep ==
  ASSUME SensorsInv, NEW p \in People, Reads(p)
  PROVE  SensorsInv'
<1>1. request[p] \in Request /\ cdr \subseteq Traffic /\ Known \subseteq Id
  BY RowFacts DEF SensorsInv, SensorsTypeOK, Known
<1>2. CASE list_all(p)
  <2>. DEFINE t == [request[p] EXCEPT !.pc = "count", !.listed = Known]
  <2>1. request' = [request EXCEPT ![p] = t] /\ UNCHANGED <<sensors, cdr, saved>> /\ request[p].op = "list"
    BY <1>2 DEF list_all, GoesTo, At
  <2>2. t \in Request /\ t.op = "list" /\ t.pc = "count" /\ t.listed = Known
                      /\ t.producing = request[p].producing
    BY <1>1, <2>1 DEF Request
  <2>3. t.producing \subseteq Known
    BY <1>2, <2>2 DEF SensorsInv, Listing, list_all
  <2>. HIDE DEF t
  <2>. QED  BY <1>1, <2>1, <2>2, <2>3, RequestStep
<1>3. CASE count_cdrs_by_sensor(p)
  <2>. DEFINE t == [request[p] EXCEPT !.pc = "page"]
  <2>1. request' = [request EXCEPT ![p] = t] /\ UNCHANGED <<sensors, cdr, saved>> /\ request[p].op = "list"
    BY <1>3 DEF count_cdrs_by_sensor, AnswersWith, At
  <2>2. t \in Request /\ t.op = "list" /\ t.pc = "page" /\ t.listed = request[p].listed
                      /\ t.producing = request[p].producing
    BY <1>1, <2>1 DEF Request
  <2>3. t.producing \subseteq t.listed
    BY <1>3, <2>2 DEF SensorsInv, Listing, count_cdrs_by_sensor
  <2>. HIDE DEF t
  <2>. QED  BY <1>1, <2>1, <2>2, <2>3, RequestStep
<1>4. CASE get_by_id_sensor(p)
  <2>1. UNCHANGED <<sensors, cdr, saved>> /\ request[p].op = "edit"
    BY <1>4 DEF get_by_id_sensor, At
  <2>2. PICK t \in Request : /\ request' = [request EXCEPT ![p] = t] /\ t.op = "edit"
                             /\ t.pc \in {"missing", "not_found"}
    <3>1. CASE request[p].id \in Known
      <4>. DEFINE t == [request[p] EXCEPT !.pc = "missing", !.edit = sensors[request[p].id]]
      <4>1. sensors[request[p].id] \in SensorRow \cup {None}
        BY <1>1, <3>1 DEF SensorsInv, SensorsTypeOK
      <4>2. t \in Request /\ t.op = "edit" /\ t.pc = "missing"
        BY <1>1, <2>1, <4>1 DEF Request
      <4>3. request' = [request EXCEPT ![p] = t]
        BY <1>4, <3>1 DEF get_by_id_sensor, GoesTo
      <4>. QED  BY <4>2, <4>3
    <3>2. CASE request[p].id \notin Known
      <4>. DEFINE t == [request[p] EXCEPT !.pc = "not_found"]
      <4>1. t \in Request /\ t.op = "edit" /\ t.pc = "not_found"
        BY <1>1, <2>1 DEF Request
      <4>2. request' = [request EXCEPT ![p] = t]
        BY <1>4, <3>2 DEF get_by_id_sensor, AnswersWith
      <4>. QED  BY <4>1, <4>2
    <3>. QED  BY <3>1, <3>2
  <2>. QED  BY <1>1, <2>1, <2>2, RequestStep
<1>5. CASE missing_id_sensors(p)
  <2>. DEFINE t == [request[p] EXCEPT !.pc = IF request[p].op = "update" THEN "extras" ELSE "form"]
  <2>1. request' = [request EXCEPT ![p] = t] /\ UNCHANGED <<sensors, cdr, saved>>
    BY <1>5 DEF missing_id_sensors, AnswersWith
  <2>2. t \in Request /\ t.pc \in {"extras", "form"}
    BY <1>1 DEF Request
  <2>. HIDE DEF t
  <2>. QED  BY <1>1, <2>1, <2>2, RequestStep
<1>6. CASE extras(p)
  <2>. DEFINE t == [request[p] EXCEPT !.pc = "form"]
  <2>1. request' = [request EXCEPT ![p] = t] /\ UNCHANGED <<sensors, cdr, saved>>
    BY <1>6 DEF extras, AnswersWith
  <2>2. t \in Request /\ t.pc = "form"
    BY <1>1 DEF Request
  <2>. HIDE DEF t
  <2>. QED  BY <1>1, <2>1, <2>2, RequestStep
<1>. QED  BY <1>2, <1>3, <1>4, <1>5, <1>6 DEF Reads

LEMMA FailsStep ==
  ASSUME SensorsInv, NEW p \in People, Fails(p) \/ Reply(p)
  PROVE  SensorsInv'
<1>1. request[p] \in Request /\ cdr \subseteq Traffic
  BY DEF SensorsInv, SensorsTypeOK
<1>2. CASE Fails(p)
  <2>. DEFINE t == [request[p] EXCEPT !.pc = IF request[p].pc = "insert" THEN "missing" ELSE "error"]
  <2>1. request' = [request EXCEPT ![p] = t] /\ UNCHANGED <<sensors, cdr, saved>>
    BY <1>2 DEF Fails, AnswersWith
  <2>2. t \in Request /\ t.pc \in {"missing", "error"}
    BY <1>1 DEF Request
  <2>. HIDE DEF t
  <2>. QED  BY <1>1, <2>1, <2>2, RequestStep
<1>3. CASE Reply(p)
  <2>1. request' = [request EXCEPT ![p] = NoRequest] /\ UNCHANGED <<sensors, cdr, saved>>
    BY <1>3 DEF Reply, GoesTo
  <2>2. NoRequest.pc = "idle"
    BY DEF NoRequest
  <2>. QED  BY <1>1, <2>1, <2>2, NoRequestIsRequest, RequestStep
<1>. QED  BY <1>2, <1>3

LEMMA CdrStep ==
  ASSUME SensorsInv, CdrChanges
  PROVE  SensorsInv'
<1>1. cdr' \subseteq Traffic /\ UNCHANGED <<sensors, request, saved>>
  BY DEF CdrChanges, SensorsInv, SensorsTypeOK
<1>. QED  BY <1>1 DEF SensorsInv, SensorsTypeOK, Kept, Ready, Listing, At, Known

-----------------------------------------------------------------------------
(* The steps that write.                                                   *)

\* One row is written, and no one's task is at a list that could miss it.
LEMMA SaveStep ==
  ASSUME SensorsInv, NEW p \in People, NEW i \in Id, NEW e \in SensorRow, NEW t \in Request,
         Save(i, e), request' = [request EXCEPT ![p] = t], UNCHANGED cdr,
         t.pc = "redirect"
  PROVE  SensorsInv'
<1>1. /\ sensors \in [Id -> SensorRow \cup {None}] /\ saved \in [Id -> SensorRow \cup {None}]
      /\ request \in [People -> Request] /\ cdr \subseteq Traffic
  BY DEF SensorsInv, SensorsTypeOK
<1>2. /\ sensors' = [sensors EXCEPT ![i] = e] /\ saved' = [saved EXCEPT ![i] = e]
  BY DEF Save
<1>3. SensorsTypeOK'
  BY <1>1, <1>2 DEF SensorsTypeOK
<1>4. Kept'
  BY <1>1, <1>2, RowFacts DEF SensorsInv, Kept
<1>5. Known \subseteq Known'
  BY <1>1, <1>2, RowFacts DEF Known
<1>6. ASSUME NEW q \in People PROVE Ready(q)' /\ Listing(q)'
  <2>1. request'[p] = t /\ (q # p => request'[q] = request[q])
    BY <1>1
  <2>2. Ready(q)'
    BY <2>1 DEF SensorsInv, Ready
  <2>3. Listing(q)'
    BY <1>5, <2>1 DEF SensorsInv, Listing, At
  <2>. QED  BY <2>2, <2>3
<1>. QED  BY <1>3, <1>4, <1>6 DEF SensorsInv

LEMMA BackfillStep ==
  ASSUME SensorsInv, NEW p \in People, backfill_from_cdr(p)
  PROVE  SensorsInv'
<1>1. /\ sensors \in [Id -> SensorRow \cup {None}] /\ saved \in [Id -> SensorRow \cup {None}]
      /\ request \in [People -> Request] /\ cdr \subseteq Traffic
  BY DEF SensorsInv, SensorsTypeOK
<1>. DEFINE t == [request[p] EXCEPT !.pc = "list_all", !.producing = cdr]
<1>2. /\ sensors' = [i \in Id |-> IF i \in cdr /\ sensors[i] = None THEN Skeleton ELSE sensors[i]]
      /\ request' = [request EXCEPT ![p] = t] /\ UNCHANGED <<cdr, saved>> /\ request[p].op = "list"
  BY DEF backfill_from_cdr, GoesTo, At
<1>3. t \in Request /\ t.op = "list" /\ t.pc = "list_all" /\ t.producing = cdr
  BY <1>1, <1>2, RowFacts DEF Request
<1>. HIDE DEF t
<1>4. SensorsTypeOK'
  BY <1>1, <1>2, <1>3, RowFacts DEF SensorsTypeOK
<1>5. Kept'
  BY <1>1, <1>2, RowFacts DEF SensorsInv, Kept
<1>6. Known \subseteq Known' /\ cdr \subseteq Known'
  BY <1>1, <1>2, RowFacts DEF Known
<1>7. ASSUME NEW q \in People PROVE Ready(q)' /\ Listing(q)'
  <2>1. request'[p] = t /\ (q # p => request'[q] = request[q])
    BY <1>1, <1>2
  <2>2. Ready(q)'
    BY <1>3, <2>1 DEF SensorsInv, Ready
  <2>3. Listing(q)'
    BY <1>3, <1>6, <2>1 DEF SensorsInv, Listing, At
  <2>. QED  BY <2>2, <2>3
<1>. QED  BY <1>4, <1>5, <1>7 DEF SensorsInv

LEMMA DeleteStep ==
  ASSUME SensorsInv, NEW p \in People, delete(p)
  PROVE  SensorsInv'
<1>. DEFINE i == request[p].id
<1>1. /\ sensors \in [Id -> SensorRow \cup {None}] /\ saved \in [Id -> SensorRow \cup {None}]
      /\ request \in [People -> Request] /\ cdr \subseteq Traffic
  BY DEF SensorsInv, SensorsTypeOK
<1>2. i \in Id /\ request[p].op = "delete" /\ request[p].pc = "delete"
  BY DEF SensorsInv, Ready, delete, At
<1>3. /\ sensors' = [sensors EXCEPT ![i] = None] /\ saved' = [saved EXCEPT ![i] = None]
      /\ UNCHANGED cdr
  BY DEF delete
<1>4. \A q \in People :
        request'[q] = IF q = p THEN [request[p] EXCEPT !.pc = IF i \in Known THEN "redirect"
                                                                             ELSE "not_found"]
                      ELSE IF request[q].pc = "list_all" THEN [request[q] EXCEPT !.producing = @ \ {i}]
                      ELSE request[q]
  BY DEF delete
<1>5. \A q \in People :
        /\ request'[q] \in Request
        /\ request'[q].op = request[q].op /\ request'[q].id = request[q].id /\ request'[q].edit = request[q].edit
        /\ request'[q].listed = request[q].listed
        /\ q # p => request'[q].pc = request[q].pc
        /\ request'[q].producing \subseteq request[q].producing
        /\ q # p /\ request[q].pc = "list_all" => i \notin request'[q].producing
  <2>. SUFFICES ASSUME NEW q \in People
                PROVE  /\ request'[q] \in Request
                       /\ request'[q].op = request[q].op /\ request'[q].id = request[q].id
                       /\ request'[q].edit = request[q].edit /\ request'[q].listed = request[q].listed
                       /\ q # p => request'[q].pc = request[q].pc
                       /\ request'[q].producing \subseteq request[q].producing
                       /\ q # p /\ request[q].pc = "list_all" => i \notin request'[q].producing
    BY Zenon
  <2>1. request[q] \in Request
    BY <1>1
  <2>2. CASE q = p
    BY <1>4, <2>1, <2>2 DEF Request
  <2>3. CASE q # p /\ request[q].pc = "list_all"
    <3>1. request'[q] = [request[q] EXCEPT !.producing = @ \ {i}]
      BY <1>4, <2>3
    <3>. QED  BY <2>1, <2>3, <3>1 DEF Request
  <2>4. CASE q # p /\ request[q].pc # "list_all"
    BY <1>4, <2>1, <2>4
  <2>. QED  BY <2>2, <2>3, <2>4
<1>6. request'[p].pc \in {"redirect", "not_found"}
  BY <1>1, <1>4 DEF Request
<1>7. \E f : request' = [q \in People |-> f[q]]
  <2>. DEFINE f == [q \in People |->
                      IF q = p THEN [request[p] EXCEPT !.pc = IF i \in Known THEN "redirect"
                                                                            ELSE "not_found"]
                      ELSE IF request[q].pc = "list_all" THEN [request[q] EXCEPT !.producing = @ \ {i}]
                      ELSE request[q]]
  <2>1. request' = f
    BY DEF delete
  <2>. QED  BY <2>1
<1>8. request' \in [People -> Request]
  BY <1>5, <1>7
<1>9. SensorsTypeOK'
  BY <1>1, <1>2, <1>3, <1>8 DEF SensorsTypeOK
<1>10. Kept'
  BY <1>1, <1>2, <1>3, RowFacts DEF SensorsInv, Kept
<1>11. Known \ {i} \subseteq Known'
  BY <1>1, <1>2, <1>3 DEF Known
<1>12. ASSUME NEW q \in People PROVE Ready(q)' /\ Listing(q)'
  <2>1. Ready(q) /\ Listing(q)
    BY DEF SensorsInv
  <2>2. Ready(q)'
    BY <1>5, <1>6, <2>1 DEF Ready
  <2>3. CASE q = p
    <3>1. request'[q].op = "delete"
      BY <1>2, <1>5, <2>3
    <3>. QED  BY <2>2, <3>1 DEF Listing, At
  <2>4. CASE q # p
    <3>1. /\ request'[q].op = request[q].op /\ request'[q].pc = request[q].pc
          /\ request'[q].listed = request[q].listed
          /\ request'[q].producing \subseteq request[q].producing
          /\ request[q].pc = "list_all" => i \notin request'[q].producing
      BY <1>5, <2>4
    <3>2. request[q].op = "list" /\ request[q].pc = "list_all" => request'[q].producing \subseteq Known'
      BY <1>11, <2>1, <3>1 DEF Listing, At
    <3>3. request[q].op = "list" /\ request[q].pc \in {"count", "page"} =>
            request'[q].producing \subseteq request'[q].listed
      BY <2>1, <3>1 DEF Listing, At
    <3>. QED  BY <2>2, <3>1, <3>2, <3>3 DEF Listing, At
  <2>. QED  BY <2>2, <2>3, <2>4
<1>. QED  BY <1>9, <1>10, <1>12 DEF SensorsInv

LEMMA WritesStep ==
  ASSUME SensorsInv, NEW p \in People, Writes(p)
  PROVE  SensorsInv'
<1>1. request[p] \in Request /\ cdr \subseteq Traffic
  BY DEF SensorsInv, SensorsTypeOK
<1>2. CASE create(p)
  <2>1. /\ request[p].edit \in SensorRow /\ request[p].id \in Id
        /\ request[p].op = "create" /\ request[p].pc = "insert" /\ UNCHANGED cdr
    BY <1>2 DEF SensorsInv, Ready, create, At
  <2>2. CASE request[p].id \in Known
    <3>. DEFINE t == [request[p] EXCEPT !.pc = "missing"]
    <3>1. request' = [request EXCEPT ![p] = t] /\ UNCHANGED <<sensors, saved>>
      BY <1>2, <2>2 DEF create, AnswersWith
    <3>2. t \in Request /\ t.pc = "missing"
      BY <1>1 DEF Request
    <3>. HIDE DEF t
    <3>. QED  BY <1>1, <2>1, <3>1, <3>2, RequestStep
  <2>3. CASE request[p].id \notin Known
    <3>. DEFINE t == [request[p] EXCEPT !.pc = "redirect"]
    <3>1. request' = [request EXCEPT ![p] = t] /\ Save(request[p].id, request[p].edit)
      BY <1>2, <2>3 DEF create, AnswersWith
    <3>2. t \in Request /\ t.pc = "redirect"
      BY <1>1 DEF Request
    <3>. HIDE DEF t
    <3>. QED  BY <2>1, <3>1, <3>2, SaveStep
  <2>. QED  BY <2>2, <2>3
<1>3. CASE update(p)
  <2>1. /\ request[p].edit \in SensorRow /\ request[p].id \in Id
        /\ request[p].op = "update" /\ request[p].pc = "update" /\ UNCHANGED cdr
    BY <1>3 DEF SensorsInv, Ready, update, At
  <2>2. CASE request[p].id \notin Known
    <3>. DEFINE t == [request[p] EXCEPT !.pc = "not_found"]
    <3>1. request' = [request EXCEPT ![p] = t] /\ UNCHANGED <<sensors, saved>>
      BY <1>3, <2>2 DEF update, AnswersWith
    <3>2. t \in Request /\ t.pc = "not_found"
      BY <1>1 DEF Request
    <3>. HIDE DEF t
    <3>. QED  BY <1>1, <2>1, <3>1, <3>2, RequestStep
  <2>3. CASE request[p].id \in Known
    <3>. DEFINE t == [request[p] EXCEPT !.pc = "redirect"]
    <3>1. request' = [request EXCEPT ![p] = t] /\ Save(request[p].id, request[p].edit)
      BY <1>3, <2>3 DEF update, AnswersWith
    <3>2. t \in Request /\ t.pc = "redirect"
      BY <1>1 DEF Request
    <3>. HIDE DEF t
    <3>. QED  BY <2>1, <3>1, <3>2, SaveStep
  <2>. QED  BY <2>2, <2>3
<1>. QED  BY <1>2, <1>3, BackfillStep, DeleteStep DEF Writes

-----------------------------------------------------------------------------

LEMMA InductiveInit == SensorsInit => SensorsInv
<1>. SUFFICES ASSUME SensorsInit PROVE SensorsInv
  OBVIOUS
<1>1. SensorsTypeOK
  BY RowFacts, NoRequestIsRequest DEF SensorsInit, SensorsTypeOK
<1>2. Kept
  BY RowFacts DEF SensorsInit, Kept
<1>3. \A p \in People : Ready(p) /\ Listing(p)
  BY DEF SensorsInit, NoRequest, Ready, Listing, At
<1>. QED  BY <1>1, <1>2, <1>3 DEF SensorsInv

LEMMA InductiveStep == SensorsInv /\ [SensorsNext]_sensors_vars => SensorsInv'
<1>. SUFFICES ASSUME SensorsInv, [SensorsNext]_sensors_vars PROVE SensorsInv'
  OBVIOUS
<1>1. ASSUME NEW p \in People, Asks(p) \/ Reads(p) \/ Writes(p) \/ Fails(p) \/ Reply(p)
      PROVE  SensorsInv'
  BY <1>1, AsksStep, ReadsStep, WritesStep, FailsStep
<1>2. CASE UNCHANGED sensors_vars
  BY <1>2 DEF sensors_vars, SensorsInv, SensorsTypeOK, Kept, Ready, Listing, At, Known
<1>. QED  BY <1>1, <1>2, CdrStep DEF SensorsNext

\* Every state of the table and of the requests is well typed, for any forms,
\* people and sensors.
THEOREM SensorsTypeCorrect == SensorsSpec => []SensorsTypeOK
<1>1. SensorsInv => SensorsTypeOK
  BY DEF SensorsInv
<1>. QED  BY <1>1, InductiveInit, InductiveStep, PTL DEF SensorsSpec

\* However the requests of any number of people interleave, a row is what was
\* last saved for its sensor, or the backfill's empty row when nothing was.
THEOREM SettingsSurvive == SensorsSpec => []SavedIsKept
<1>1. SensorsInv => SavedIsKept
  BY DEF SensorsInv, Kept, SavedIsKept, Known
<1>. QED  BY <1>1, InductiveInit, InductiveStep, PTL DEF SensorsSpec

\* A list leaves out no sensor that had calls when the request looked, unless
\* it was deleted meanwhile.
THEOREM ListsAreComplete == SensorsSpec => []TrafficIsListed
<1>1. SensorsInv => TrafficIsListed
  BY DEF SensorsInv, Listing, TrafficIsListed, At
<1>. QED  BY <1>1, InductiveInit, InductiveStep, PTL DEF SensorsSpec
=============================================================================
