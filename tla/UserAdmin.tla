------------------------------ MODULE UserAdmin ------------------------------
(***************************************************************************)
(* /admin/users: the handlers of src/routes/users.rs over the users table  *)
(* (src/users/mod.rs), run concurrently for every signed-in administrator, *)
(* and verify_login (src/auth/password.rs), which turns a row into the     *)
(* snapshot a session cookie carries.                                      *)
(*                                                                         *)
(* Each SQL statement is one action and each await between two statements  *)
(* is a point where other requests run: there is no transaction.  The      *)
(* is_admin bit that opens these routes is the one of the snapshot, which  *)
(* nothing refreshes when the row changes.                                 *)
(***************************************************************************)
EXTENDS Naturals, FiniteSets, Option

CONSTANTS Uid,       \* values of the AUTO_INCREMENT key
          Name,      \* usernames that pass validation
          NoName,    \* the empty username
          Req,       \* requests handled at the same time
          Forms      \* the form bodies that are posted

Form == [name : Name \cup {NoName}, is_admin : BOOLEAN, blocked : BOOLEAN,
         expired : BOOLEAN, pw : {"absent", "short", "good"}]

Row == [name : Name, is_admin : BOOLEAN, blocked : BOOLEAN, expired : BOOLEAN]

Snapshot == [uid : Uid, is_admin : BOOLEAN]

ASSUME FormsAssumption == Forms \subseteq Form
ASSUME UidAssumption == IsFiniteSet(Uid)
ASSUME NameAssumption == NoName \notin Name
ASSUME NoneAssumption == None \notin Uid /\ None \notin Row

VARIABLES row,       \* row[u]: the users row with id u, or None
          used,      \* ids AUTO_INCREMENT has given out
          sessions,  \* the snapshots that live cookies carry
          task       \* task[r]: where request r is, and its local variables

vars == <<row, used, sessions, task>>

(* A handler's locals: the caller, the :id of the path, the values about   *)
(* to be written, the row it has read, and (observation) the               *)
(* administrators there were when it last queried the table.               *)
Pc == {"idle", "insert", "rename", "update", "count", "delete", "done", "refused"}
Task == [pc : Pc, op : {"none", "create", "update", "delete", "reset"},
         self : Uid \cup {None}, id : Uid \cup {None}, edit : Row \cup {None},
         target : Row \cup {None}, pw : {"absent", "short", "good"}, seen : SUBSET Uid]

Idle == [pc |-> "idle", op |-> "none", self |-> None, id |-> None, edit |-> None,
         target |-> None, pw |-> "absent", seen |-> {}]

TypeOK == /\ row \in [Uid -> Row \cup {None}]
          /\ used \subseteq Uid
          /\ sessions \subseteq Snapshot
          /\ task \in [Req -> Task]

-----------------------------------------------------------------------------
Users == {u \in Uid : row[u] # None}
Admins == {u \in Users : row[u].is_admin}
\* mutant: the query loses its WHERE is_admin.
CountsEveryone == Cardinality(Users)
count_admins == Cardinality(Admins)
NameTaken(n) == \E u \in Users : row[u].name = n

\* A row verify_login accepts (with the right password).
CanLogIn(u) == u \in Users /\ ~row[u].blocked /\ ~row[u].expired

\* The table as an operator finds it: names are unique, somebody can
\* administer it.
Init == /\ row \in [Uid -> Row \cup {None}]
        /\ \A u, v \in Users : row[u].name = row[v].name => u = v
        /\ \E u \in Admins : CanLogIn(u)
        /\ used = Users
        /\ sessions = {}
        /\ task = [r \in Req |-> Idle]

\* mutant: the name is not checked.
ParseOkAnyName(f) == f.pw # "short"

\* parse_edit_form: what it rejects is a bad name or a short password; an
\* absent password leaves the stored one alone.
ParseOk(f) == f.name # NoName /\ f.pw # "short"
Parsed(f) == [name |-> f.name, is_admin |-> f.is_admin, blocked |-> f.blocked,
              expired |-> f.expired]

\* mutant: no self-protection.
NoSnapBack(e, target) == e

\* update's self-protection: a caller cannot take its own admin bit away,
\* nor block itself, nor expire its own password.
SnapBack(e, target) == [e EXCEPT !.is_admin = @ \/ target.is_admin,
                                 !.blocked = @ /\ target.blocked,
                                 !.expired = @ /\ target.expired]

-----------------------------------------------------------------------------
(* Signing in and out.                                                     *)

verify_login(u) == /\ CanLogIn(u)
                   /\ sessions' = sessions \cup {[uid |-> u, is_admin |-> row[u].is_admin]}
                   /\ UNCHANGED <<row, used, task>>

\* The cookie runs out or is dropped.
SessionEnds(s) == /\ sessions' = sessions \ {s}
                  /\ UNCHANGED <<row, used, task>>

-----------------------------------------------------------------------------
(* The handlers.  s is the caller's snapshot; require_admin lets it in.    *)

Starts(r, s) == task[r].pc = "idle" /\ s.is_admin
Goes(r, t) == task' = [task EXCEPT ![r] = t]
Answers(r, how) == task' = [task EXCEPT ![r] = [Idle EXCEPT !.pc = how, !.op = task[r].op]]
AnswersAtOnce(r, op, how, pw) ==
  task' = [task EXCEPT ![r] = [Idle EXCEPT !.pc = how, !.op = op, !.pw = pw]]

\* The answer reaches the browser; the request is over.
Respond(r) == /\ task[r].pc \in {"done", "refused"}
              /\ Goes(r, Idle)
              /\ UNCHANGED <<row, used, sessions>>

\* create, up to get_by_username.
CreateCheck(r, s, f) ==
  /\ Starts(r, s)
  /\ IF f.pw = "absent" \/ ~ParseOk(f) \/ NameTaken(f.name)
     THEN AnswersAtOnce(r, "create", "refused", f.pw)
     ELSE Goes(r, [Idle EXCEPT !.pc = "insert", !.op = "create", !.edit = Parsed(f)])
  /\ UNCHANGED <<row, used, sessions>>

\* INSERT.  The table's unique key refuses a name taken since the check.
CreateInsert(r) ==
  /\ task[r].pc = "insert"
  /\ \/ /\ NameTaken(task[r].edit.name)
        /\ Answers(r, "refused")
        /\ UNCHANGED <<row, used>>
     \/ /\ ~NameTaken(task[r].edit.name)
        /\ \E u \in Uid \ used : /\ row' = [row EXCEPT ![u] = task[r].edit]
                                 /\ used' = used \cup {u}
        /\ Answers(r, "done")
  /\ UNCHANGED sessions

\* update, up to the first read of the row: 404, a form error, or the
\* values to write with the self-protection applied.
UpdateRead(r, s, u, f) ==
  /\ Starts(r, s)
  /\ IF u \notin Users \/ ~ParseOk(f)
     THEN AnswersAtOnce(r, "update", "refused", f.pw)
     ELSE Goes(r, [Idle EXCEPT
                     !.pc = IF f.name # row[u].name THEN "rename" ELSE "update",
                     !.op = "update", !.self = s.uid, !.id = u, !.target = row[u],
                     !.edit = IF s.uid = u THEN SnapBack(Parsed(f), row[u]) ELSE Parsed(f)])
  /\ UNCHANGED <<row, used, sessions>>

\* A new name must be free.
UpdateCheckName(r) ==
  /\ task[r].pc = "rename"
  /\ IF NameTaken(task[r].edit.name)
     THEN Answers(r, "refused")
     ELSE Goes(r, [task[r] EXCEPT !.pc = "update"])
  /\ UNCHANGED <<row, used, sessions>>

\* mutant: the save is an upsert.
UpsertWrite(r) ==
  /\ task[r].pc = "update"
  /\ row' = [row EXCEPT ![task[r].id] = task[r].edit]
  /\ Answers(r, "done")
  /\ UNCHANGED <<used, sessions>>

\* UPDATE ... WHERE id = ?: every column from the form.  No row: 404.
UpdateWrite(r) ==
  LET u == task[r].id
      clash == \E v \in Users \ {u} : row[v].name = task[r].edit.name
  IN /\ task[r].pc = "update"
     /\ \/ /\ u \in Users /\ ~clash
           /\ row' = [row EXCEPT ![u] = task[r].edit]
           /\ Answers(r, "done")
        \/ /\ u \notin Users \/ clash
           /\ Answers(r, "refused")
           /\ UNCHANGED row
     /\ UNCHANGED <<used, sessions>>

\* delete, up to the first read of the row.
DeleteRead(r, s, u) ==
  /\ Starts(r, s)
  /\ IF u \notin Users \/ s.uid = u
     THEN AnswersAtOnce(r, "delete", "refused", "absent")
     ELSE Goes(r, [Idle EXCEPT !.pc = IF row[u].is_admin THEN "count" ELSE "delete",
                               !.op = "delete", !.self = s.uid, !.id = u,
                               !.target = row[u], !.seen = Admins])
  /\ UNCHANGED <<row, used, sessions>>

\* SELECT COUNT(*): the last administrator is not deleted.
DeleteCount(r) ==
  /\ task[r].pc = "count"
  /\ IF count_admins <= 1
     THEN Answers(r, "refused")
     ELSE Goes(r, [task[r] EXCEPT !.pc = "delete", !.seen = Admins])
  /\ UNCHANGED <<row, used, sessions>>

\* DELETE ... WHERE id = ?
DeleteWrite(r) ==
  /\ task[r].pc = "delete"
  /\ row' = [row EXCEPT ![task[r].id] = None]
  /\ Answers(r, IF task[r].id \in Users THEN "done" ELSE "refused")
  /\ UNCHANGED <<used, sessions>>

\* reset_password validates the new password through parse_edit_form, in a
\* form whose other fields are left empty.
ResetForm(pw) == [name |-> NoName, is_admin |-> FALSE, blocked |-> FALSE,
                  expired |-> FALSE, pw |-> pw]

ResetPassword(r, s, u, pw) ==
  /\ Starts(r, s)
  /\ AnswersAtOnce(r, "reset", IF ParseOk(ResetForm(pw)) /\ u \in Users THEN "done" ELSE "refused", pw)
  /\ UNCHANGED <<row, used, sessions>>

Create == \/ \E r \in Req, s \in sessions, f \in Forms : CreateCheck(r, s, f)
          \/ \E r \in Req : CreateInsert(r)
Update == \/ \E r \in Req, s \in sessions, u \in Uid, f \in Forms : UpdateRead(r, s, u, f)
          \/ \E r \in Req : UpdateCheckName(r)
          \/ \E r \in Req : UpdateWrite(r)
Delete == \/ \E r \in Req, s \in sessions, u \in Uid : DeleteRead(r, s, u)
          \/ \E r \in Req : DeleteCount(r)
          \/ \E r \in Req : DeleteWrite(r)
Reset == \E r \in Req, s \in sessions, u \in Uid, pw \in {"short", "good"} : ResetPassword(r, s, u, pw)
Session == \/ \E u \in Uid : verify_login(u)
           \/ \E s \in sessions : SessionEnds(s)
           \/ \E r \in Req : Respond(r)

Next == Create \/ Update \/ Delete \/ Reset \/ Session

Spec == Init /\ [][Next]_vars

-----------------------------------------------------------------------------
(* Properties.                                                             *)

\* A delete removes the last administrator only if the set of
\* administrators changed after the handler last queried it.  In
\* particular a delete that runs alone never does, however stale the
\* session it runs under.
LastAdminGoesOnlyByRace ==
  [][\A r \in Req : DeleteWrite(r) /\ Admins # {} /\ Admins' = {} => Admins # task[r].seen]_vars

\* Saving one's own row takes one's admin bit, blocks one or expires one's
\* password only if that row changed after the handler read it: alone, the
\* self-protection rules hold, whatever the form says.
SelfLockoutOnlyByRace ==
  [][\A r \in Req : UpdateWrite(r) /\ task[r].self = task[r].id /\ task[r].id \in Users =>
       LET old == row[task[r].id]
           new == row'[task[r].id]
       IN \/ /\ old.is_admin => new.is_admin
             /\ new.blocked => old.blocked
             /\ new.expired => old.expired
          \/ old # task[r].target]_vars

\* A deleted account stays deleted: a save that was in flight when the row
\* went, or a create, brings no old id back.
DeletedStaysDeleted ==
  [][\A u \in used : row[u] = None => row'[u] = None]_vars

-----------------------------------------------------------------------------
(* What the code says of itself and does not keep.                         *)

\* routes/users.rs: "You can't delete the last remaining admin".
DeleteKeepsAnAdmin ==
  [][(\E r \in Req : DeleteWrite(r)) /\ Admins # {} => Admins' # {}]_vars
=============================================================================
