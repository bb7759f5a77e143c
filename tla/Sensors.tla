------------------------------ MODULE Sensors -------------------------------
(***************************************************************************)
(* /admin/sensors: the handlers of src/routes/sensors.rs over the table    *)
(* sensors (src/sensors/mod.rs), run concurrently for every person who is  *)
(* signed in, and the id_sensor column of table cdr, from which every view *)
(* of the list fills the table.                                            *)
(*                                                                         *)
(* Each SQL statement is one action; there is no transaction.  name stands *)
(* for the three columns of free text, which are read and written alike.   *)
(***************************************************************************)
EXTENDS Naturals, FiniteSets, Option

CONSTANTS Id,              \* values of id_sensor
          Traffic,         \* the ones that probes write into table cdr
          People,          \* who is signed in
          Administrators,  \* whose session has the is_admin bit
          SensorForms,     \* the bodies that are posted: [id, name, port, disable]
          Bad              \* a text that does not parse, or a host with a blank

SensorRow == [name : {f.name : f \in SensorForms} \cup {None},
              port : Nat \cup {None}, disable : BOOLEAN]

ASSUME IdAssumption == Id \subseteq Nat /\ Traffic \subseteq Id /\ IsFiniteSet(Id)
ASSUME SensorFormsAssumption == \A f \in SensorForms : /\ f.id \in Id \cup {Bad, None}
                                                       /\ f.port \in Nat \cup {Bad, None}
                                                       /\ f.disable \in BOOLEAN
ASSUME PeopleAssumption == Administrators \subseteq People
ASSUME SensorsNoneAssumption == None \notin Id /\ Bad \notin Id /\ None \notin SensorRow

VARIABLES sensors,  \* sensors[i]: the row with id_sensor i, or None
          cdr,      \* the id_sensors in table cdr
          request,  \* request[p]: where the request of p is, and its local variables
          saved     \* saved[i]: what was last saved for i since it was deleted (observation)

sensors_vars == <<sensors, cdr, request, saved>>

NoRequest == [pc |-> "idle", op |-> "none", id |-> None, edit |-> None,
              listed |-> {}, producing |-> {}]

Skeleton == [name |-> None, port |-> None, disable |-> FALSE]

SensorsInit == /\ sensors \in [Id -> {None, Skeleton}]
               /\ cdr \in SUBSET Traffic
               /\ request = [p \in People |-> NoRequest]
               /\ saved = [i \in Id |-> None]

Request == [pc : {"idle", "backfill", "list_all", "count", "get", "missing", "extras", "insert",
                  "update", "delete", "page", "form", "redirect", "not_found", "forbidden",
                  "error"},
            op : {"none", "list", "new", "edit", "delete", "create", "update"},
            id : Id \cup {None}, edit : SensorRow \cup {None},
            listed : SUBSET Id, producing : SUBSET Id]

SensorsTypeOK == /\ sensors \in [Id -> SensorRow \cup {None}]
                 /\ cdr \subseteq Traffic
                 /\ request \in [People -> Request]
                 /\ saved \in [Id -> SensorRow \cup {None}]

Known == {i \in Id : sensors[i] # None}

-----------------------------------------------------------------------------
(* What the forms say.                                                     *)

Parses(f) == /\ Bad \notin {f.name, f.port}
             /\ f.port # None => f.port < 65536

parse_edit_form(f) == [name |-> f.name, port |-> f.port, disable |-> f.disable]

parse_id_sensor(f) == IF f.id \in {Bad, None} THEN None ELSE f.id

-----------------------------------------------------------------------------
(* The requests.                                                           *)

GoesTo(p, t) == request' = [request EXCEPT ![p] = t]

AnswersWith(p, how) == request' = [request EXCEPT ![p].pc = how]

At(p, op, pc) == request[p].op = op /\ request[p].pc = pc

Begin(p, op, pc, i, e) ==
  /\ request[p].pc = "idle"
  /\ GoesTo(p, [NoRequest EXCEPT !.op = op, !.id = i, !.edit = e,
                                 !.pc = IF p \in Administrators THEN pc ELSE "forbidden"])
  /\ UNCHANGED <<sensors, cdr, saved>>

GetList(p) == Begin(p, "list", "backfill", None, None)
GetNew(p) == Begin(p, "new", "missing", None, None)
GetEdit(p, i) == Begin(p, "edit", "get", i, None)
PostDelete(p, i) == Begin(p, "delete", "delete", i, None)

\* What does not parse is answered with the form again.
PostNew(p, f) ==
  LET i == parse_id_sensor(f)
  IN IF i # None /\ Parses(f) THEN Begin(p, "create", "insert", i, parse_edit_form(f))
                              ELSE Begin(p, "create", "missing", i, None)

PostEdit(p, i, f) ==
  IF Parses(f) THEN Begin(p, "update", "update", i, parse_edit_form(f))
               ELSE Begin(p, "update", "missing", i, None)

\* The answer reaches the browser.
Reply(p) == /\ request[p].pc \in {"page", "form", "redirect", "not_found", "forbidden", "error"}
            /\ GoesTo(p, NoRequest)
            /\ UNCHANGED <<sensors, cdr, saved>>

-----------------------------------------------------------------------------
(* The list: three statements.                                             *)

\* mutant: REPLACE instead of INSERT IGNORE.
backfill_replacing(p) ==
  /\ At(p, "list", "backfill")
  /\ sensors' = [i \in Id |-> IF i \in cdr THEN Skeleton ELSE sensors[i]]
  /\ GoesTo(p, [request[p] EXCEPT !.pc = "list_all", !.producing = cdr])
  /\ UNCHANGED <<cdr, saved>>

backfill_from_cdr(p) ==
  /\ At(p, "list", "backfill")
  /\ sensors' = [i \in Id |-> IF i \in cdr /\ sensors[i] = None THEN Skeleton ELSE sensors[i]]
  /\ GoesTo(p, [request[p] EXCEPT !.pc = "list_all", !.producing = cdr])
  /\ UNCHANGED <<cdr, saved>>

\* mutant: sensors that are disabled are left out.
list_enabled(p) ==
  /\ At(p, "list", "list_all")
  /\ GoesTo(p, [request[p] EXCEPT !.pc = "count",
                                  !.listed = {i \in Known : ~sensors[i].disable}])
  /\ UNCHANGED <<sensors, cdr, saved>>

list_all(p) == /\ At(p, "list", "list_all")
               /\ GoesTo(p, [request[p] EXCEPT !.pc = "count", !.listed = Known])
               /\ UNCHANGED <<sensors, cdr, saved>>

count_cdrs_by_sensor(p) == /\ At(p, "list", "count")
                           /\ AnswersWith(p, "page")
                           /\ UNCHANGED <<sensors, cdr, saved>>

-----------------------------------------------------------------------------
(* The forms.                                                              *)

get_by_id_sensor(p) ==
  /\ At(p, "edit", "get")
  /\ IF request[p].id \in Known
     THEN GoesTo(p, [request[p] EXCEPT !.pc = "missing", !.edit = sensors[request[p].id]])
     ELSE AnswersWith(p, "not_found")
  /\ UNCHANGED <<sensors, cdr, saved>>

\* The hints on the form: sensors without a row that were seen lately.
missing_id_sensors(p) ==
  /\ request[p].pc = "missing"
  /\ AnswersWith(p, IF request[p].op = "update" THEN "extras" ELSE "form")
  /\ UNCHANGED <<sensors, cdr, saved>>

\* render_form_with_error reads the columns that cannot be edited; the row
\* may be gone.
extras(p) == /\ request[p].pc = "extras"
             /\ AnswersWith(p, "form")
             /\ UNCHANGED <<sensors, cdr, saved>>

-----------------------------------------------------------------------------
(* The writes.                                                             *)

Save(i, e) == /\ sensors' = [sensors EXCEPT ![i] = e]
              /\ saved' = [saved EXCEPT ![i] = e]

\* The key is unique: what exists is not touched.
create(p) ==
  /\ At(p, "create", "insert")
  /\ IF request[p].id \in Known
     THEN AnswersWith(p, "missing") /\ UNCHANGED <<sensors, saved>>
     ELSE Save(request[p].id, request[p].edit) /\ AnswersWith(p, "redirect")
  /\ UNCHANGED cdr

update(p) ==
  /\ At(p, "update", "update")
  /\ IF request[p].id \in Known
     THEN Save(request[p].id, request[p].edit) /\ AnswersWith(p, "redirect")
     ELSE AnswersWith(p, "not_found") /\ UNCHANGED <<sensors, saved>>
  /\ UNCHANGED cdr

\* A list that is being put together need not show it any more.
delete(p) ==
  /\ At(p, "delete", "delete")
  /\ LET i == request[p].id
     IN /\ sensors' = [sensors EXCEPT ![i] = None]
        /\ saved' = [saved EXCEPT ![i] = None]
        /\ request' = [q \in People |->
                         IF q = p THEN [request[p] EXCEPT !.pc = IF i \in Known THEN "redirect"
                                                                               ELSE "not_found"]
                         ELSE IF request[q].pc = "list_all"
                         THEN [request[q] EXCEPT !.producing = @ \ {i}]
                         ELSE request[q]]
  /\ UNCHANGED cdr

\* A failed INSERT is answered with the form, anything else with 500.
Fails(p) ==
  /\ request[p].pc \in {"backfill", "list_all", "count", "get", "missing", "extras", "insert",
                        "update", "delete"}
  /\ AnswersWith(p, IF request[p].pc = "insert" THEN "missing" ELSE "error")
  /\ UNCHANGED <<sensors, cdr, saved>>

\* Probes write CDRs; VoIPmonitor cleans the old ones up.
CdrChanges == /\ \E i \in Traffic : cdr' \in {cdr \cup {i}, cdr \ {i}}
              /\ UNCHANGED <<sensors, request, saved>>

-----------------------------------------------------------------------------

Asks(p) == \/ GetList(p) \/ GetNew(p)
           \/ \E i \in Id : GetEdit(p, i) \/ PostDelete(p, i)
           \/ \E f \in SensorForms : PostNew(p, f) \/ \E i \in Id : PostEdit(p, i, f)

Reads(p) == \/ list_all(p) \/ count_cdrs_by_sensor(p)
            \/ get_by_id_sensor(p) \/ missing_id_sensors(p) \/ extras(p)

Writes(p) == backfill_from_cdr(p) \/ create(p) \/ update(p) \/ delete(p)

SensorsNext == \/ \E p \in People : Asks(p) \/ Reads(p) \/ Writes(p) \/ Fails(p) \/ Reply(p)
               \/ CdrChanges

SensorsSpec == SensorsInit /\ [][SensorsNext]_sensors_vars

-----------------------------------------------------------------------------

\* A row is what was last saved for its sensor, or the empty row of the
\* backfill when nothing was since it was deleted: neither another view of the
\* list nor another person's Create undoes a saved setting, and what comes
\* back after a Delete has none of the old settings.
SavedIsKept ==
  \A i \in Known : sensors[i] = IF saved[i] = None THEN Skeleton ELSE saved[i]

\* A list shows every sensor that had calls in table cdr when the request
\* looked, unless it was deleted before the list was read.
TrafficIsListed ==
  \A p \in People : At(p, "list", "page") => request[p].producing \subseteq request[p].listed
=============================================================================
