------------------------------ MODULE BatchZip ------------------------------
(***************************************************************************)
(* POST and GET /pcap/batch (src/routes/pcap.rs): the request is resolved  *)
(* to a list of CDRs; one task per CDR builds its pcap and sends it into a *)
(* channel; a blocking worker drains the channel into a zip in memory and  *)
(* sends the whole of it as the response body.  The worker stops when the  *)
(* channel is empty and every sender has been dropped: the one of each     *)
(* task, and the handler's own, of which the tasks' are clones.            *)
(*                                                                         *)
(* One request is modelled: two of them share nothing here.  Meanwhile     *)
(* VoIPmonitor deletes old CDRs, and the client may hang up.               *)
(***************************************************************************)
EXTENDS CdrLists

CONSTANTS Newest,     \* the ids of table cdr, newest first
          Requests,   \* what clients ask for: [can_pcap, ids, filter]
          BatchMax,   \* batch_max: CSV_EXPORT_LIMIT
          Huge,       \* CDRs whose pcap is past the zip writer's 4 GiB
          None

Cdr == ToSet(Newest)

ASSUME BatchMaxAssumption == BatchMax \in Nat \ {0}
ASSUME CdrAssumption == Newest \in Seq(Nat \ {0}) /\ IsInjective(Newest)
ASSUME RequestAssumption ==
  \A q \in Requests : /\ q.can_pcap \in BOOLEAN
                      /\ q.ids \in Seq(Nat)
                      /\ q.filter \in (SUBSET Cdr) \cup {None}

VARIABLES rows,      \* table cdr: the ids it holds
          req,       \* the request, or None
          pc,        \* where the handler is
          status,    \* the response's status
          cdr_ids,   \* what the request was resolved to
          metadata,  \* the CDRs the sidecar knows
          task,      \* task[k]: the task of cdr_ids[k]
          pcap_tx,   \* the handler still holds its sender
          queue,     \* the channel of results
          writer, zip, failed, closed,   \* the blocking worker
          body,      \* the channel of the response body
          client

handler == <<req, pc, status, cdr_ids, metadata>>
worker == <<writer, zip, failed, closed, body>>
vars == <<rows, handler, task, pcap_tx, queue, worker, client>>

Sidecar == 0       \* cdrs.csv, among the entries of the zip

Slot == 1..BatchMax
total == Len(cdr_ids)

TypeOK == /\ rows \subseteq Cdr
          /\ req \in Requests \cup {None}
          /\ pc \in {"idle", "resolve", "metadata", "spawn", "answered", "cancelled"}
          /\ status \in {"none", "ok", "bad_request", "forbidden", "error"}
          /\ total \in 0..BatchMax /\ DOMAIN cdr_ids = 1..total
          /\ metadata \subseteq Cdr
          /\ task \in [Slot -> {"unspawned", "building", "built", "broken", "done"}]
          /\ pcap_tx \in BOOLEAN
          /\ queue \in Seq([slot : Slot, ok : BOOLEAN])
          /\ writer \in {"none", "writing", "finished"}
          /\ zip \in Seq(0..BatchMax) /\ failed \subseteq Slot /\ closed \in BOOLEAN
          /\ body \in {"empty", "zip", "error"}
          /\ client \in {"waiting", "has zip", "has error", "gone"}

Init == /\ rows = Cdr
        /\ req = None /\ pc = "idle" /\ status = "none"
        /\ cdr_ids = <<>> /\ metadata = {}
        /\ task = [k \in Slot |-> "unspawned"]
        /\ pcap_tx = FALSE /\ queue = <<>>
        /\ writer = "none" /\ zip = <<>> /\ failed = {} /\ closed = FALSE
        /\ body = "empty" /\ client = "waiting"

-----------------------------------------------------------------------------
(* The handler.                                                            *)

\* mutant: the cap is not applied.
TakeAll(s) == s

Truncate(s) == IF Len(s) > BatchMax THEN SubSeq(s, 1, BatchMax) ELSE s

\* mutant: zero is dropped, repeats are not.
WantedOften(ids) == SelectSeq(ids, LAMBDA i : i > 0)

\* The loop over the request's ids: positive, each once.
Wanted(ids) == Listed(ToSet(ids) \ {0}, ids)

\* list_ids_matching: newest first, with a LIMIT.
Matching(f) == Truncate(Listed(rows \cap f, Newest))

\* resolve_batch_ids: ids win over filter.
Resolved(q) == IF q.ids # <<>> THEN Truncate(Wanted(q.ids))
               ELSE IF q.filter # None THEN Matching(q.filter)
               ELSE <<>>

Respond(s) == pc' = "answered" /\ status' = s

Receive(q) == /\ pc = "idle" /\ client = "waiting"
              /\ req' = q
              /\ IF q.can_pcap THEN pc' = "resolve" /\ UNCHANGED status
                               ELSE Respond("forbidden")
              /\ UNCHANGED <<rows, cdr_ids, metadata, task, pcap_tx, queue, worker, client>>

Resolve == /\ pc = "resolve"
           /\ cdr_ids' = Resolved(req)
           /\ IF cdr_ids' = <<>> THEN Respond("bad_request")
                                 ELSE pc' = "metadata" /\ UNCHANGED status
           /\ UNCHANGED <<rows, req, metadata, task, pcap_tx, queue, worker, client>>

\* The query of the filter fails.
ResolveFails == /\ pc = "resolve" /\ req.ids = <<>> /\ req.filter # None
                /\ Respond("error")
                /\ UNCHANGED <<rows, req, cdr_ids, metadata, task, pcap_tx, queue, worker, client>>

\* fetch_by_ids; its failure is not the batch's.
FetchMetadata == /\ pc = "metadata"
                 /\ metadata' \in {ToSet(cdr_ids) \cap rows, {}}
                 /\ pc' = "spawn"
                 /\ pcap_tx' = TRUE
                 /\ UNCHANGED <<rows, req, status, cdr_ids, task, queue, worker, client>>

\* The loop that clones the sender into a new task.
Spawn(k) == /\ pc = "spawn" /\ pcap_tx
            /\ k \in 1..total /\ task[k] = "unspawned"
            /\ \A j \in 1..(k - 1) : task[j] # "unspawned"
            /\ task' = [task EXCEPT ![k] = "building"]
            /\ UNCHANGED <<rows, handler, pcap_tx, queue, worker, client>>

\* drop(pcap_tx), after the loop.
DropSender == /\ pc = "spawn" /\ pcap_tx
              /\ \A k \in 1..total : task[k] # "unspawned"
              /\ pcap_tx' = FALSE
              /\ UNCHANGED <<rows, handler, task, queue, worker, client>>

\* mutant: no drop(pcap_tx).
StartWriterStillHolding ==
  /\ pc = "spawn" /\ \A k \in 1..total : task[k] # "unspawned"
  /\ Respond("ok")
  /\ writer' = "writing"
  /\ zip' = <<Sidecar>>
  /\ UNCHANGED <<rows, req, cdr_ids, metadata, task, pcap_tx, queue,
                 failed, closed, body, client>>

\* The blocking worker starts with the sidecar, and the response is on its way.
StartWriter == /\ pc = "spawn" /\ ~pcap_tx
               /\ Respond("ok")
               /\ writer' = "writing"
               /\ zip' = <<Sidecar>>
               /\ UNCHANGED <<rows, req, cdr_ids, metadata, task, pcap_tx, queue,
                              failed, closed, body, client>>

-----------------------------------------------------------------------------
(* The tasks.                                                              *)

\* build_pcap_bytes answers, with a pcap or with an error.
Build(k) == /\ k \in Slot /\ task[k] = "building"
            /\ \E r \in {"built", "broken"} : task' = [task EXCEPT ![k] = r]
            /\ UNCHANGED <<rows, handler, pcap_tx, queue, worker, client>>

\* mutant: one place too few.
CapacityShort == total - 1

\* mpsc::channel(total.max(1))
Capacity == total

Built == {k \in Slot : task[k] \in {"built", "broken"}}

\* A full channel would make the sender wait.  The task ends, and its sender
\* is dropped with it.
SendResult(k) == /\ k \in Built
                 /\ Len(queue) < Capacity
                 /\ queue' = Append(queue, [slot |-> k, ok |-> task[k] = "built"])
                 /\ task' = [task EXCEPT ![k] = "done"]
                 /\ UNCHANGED <<rows, handler, pcap_tx, worker, client>>

-----------------------------------------------------------------------------
(* The zip writer.                                                         *)

\* mutant: try_recv, which also ends on a channel that is empty for now.
NobodySends == FALSE

Senders == pcap_tx \/ \E k \in Slot : task[k] \in {"building", "built", "broken"}

Writing == writer = "writing" /\ queue # <<>>

\* start_file and write_all succeed.
WriteEntry == /\ Writing /\ Head(queue).ok /\ ~closed
              /\ cdr_ids[Head(queue).slot] \notin Huge
              /\ zip' = Append(zip, Head(queue).slot)
              /\ queue' = Tail(queue)
              /\ UNCHANGED <<rows, handler, task, pcap_tx, writer, failed, closed, body, client>>

\* mutant: no `continue` after the error.
CountTwice == /\ Writing /\ Head(queue).ok /\ ~closed
              /\ cdr_ids[Head(queue).slot] \in Huge
              /\ failed' = failed \cup {Head(queue).slot}
              /\ zip' = Append(zip, Head(queue).slot)
              /\ queue' = Tail(queue)
              /\ UNCHANGED <<rows, handler, task, pcap_tx, writer, closed, body, client>>

\* write_all passes 4 GiB: zip closes the writer for good.
WriteTooLarge == /\ Writing /\ Head(queue).ok /\ ~closed
                 /\ cdr_ids[Head(queue).slot] \in Huge
                 /\ closed' = TRUE
                 /\ failed' = failed \cup {Head(queue).slot}
                 /\ queue' = Tail(queue)
                 /\ UNCHANGED <<rows, handler, task, pcap_tx, writer, zip, body, client>>

\* The build failed, or start_file does on the closed writer.
SkipEntry == /\ Writing /\ (~Head(queue).ok \/ closed)
             /\ failed' = failed \cup {Head(queue).slot}
             /\ queue' = Tail(queue)
             /\ UNCHANGED <<rows, handler, task, pcap_tx, writer, zip, closed, body, client>>

\* blocking_recv answers None; finish, and the whole buffer is one chunk.
\* A body nobody reads any more is dropped.
Finish == /\ writer = "writing" /\ queue = <<>> /\ ~Senders
          /\ writer' = "finished"
          /\ body' = IF client = "gone" THEN body ELSE IF closed THEN "error" ELSE "zip"
          /\ UNCHANGED <<rows, handler, task, pcap_tx, queue, zip, failed, closed, client>>

-----------------------------------------------------------------------------
(* The world around.                                                       *)

\* The client reads the body.
Download == /\ client = "waiting" /\ body # "empty"
            /\ client' = IF body = "zip" THEN "has zip" ELSE "has error"
            /\ UNCHANGED <<rows, handler, task, pcap_tx, queue, worker>>

\* It hangs up: a handler that is waiting for the database is dropped where
\* it is; tasks and worker go on.
HangUp == /\ client = "waiting"
          /\ client' = "gone"
          /\ pc' = IF pc \in {"resolve", "metadata"} THEN "cancelled" ELSE pc
          /\ UNCHANGED <<rows, req, status, cdr_ids, metadata, task, pcap_tx, queue, worker>>

\* VoIPmonitor cleans up its oldest CDR.
Clean == /\ rows # {}
         /\ rows' = rows \ {Last(SelectSeq(Newest, LAMBDA i : i \in rows))}
         /\ UNCHANGED <<handler, task, pcap_tx, queue, worker, client>>

Handler == Resolve \/ ResolveFails \/ FetchMetadata \/ DropSender \/ StartWriter
              \/ \E k \in Slot : Spawn(k)
Task(k) == Build(k) \/ SendResult(k)
Writer == WriteEntry \/ WriteTooLarge \/ SkipEntry \/ Finish

Next == \/ \E q \in Requests : Receive(q)
        \/ Handler
        \/ \E k \in Slot : Task(k)
        \/ Writer
        \/ Download \/ HangUp \/ Clean

Spec == Init /\ [][Next]_vars

\* tokio polls what is ready, the blocking worker has a thread, and a build
\* ends: MySQL answers its queries, or they time out, or the connection
\* breaks, and the rest is local work.
FairSpec == /\ Spec
            /\ WF_vars(Handler) /\ WF_vars(Writer)
            /\ \A k \in Slot : WF_vars(Task(k))

-----------------------------------------------------------------------------
(* Properties.                                                             *)

\* The resolved list has no CDR twice, and only what the request named: its
\* ids, or, when it has none, what its filter matches.
RightCdrs ==
  /\ IsInjective(cdr_ids)
  /\ cdr_ids # <<>> => ToSet(cdr_ids) \subseteq
                         IF req.ids # <<>> THEN ToSet(req.ids) \ {0} ELSE req.filter

Queued(k) == \E i \in DOMAIN queue : queue[i].slot = k
Zipped(k) == \E i \in DOMAIN zip : zip[i] = k

\* A CDR whose task is done is in exactly one place: in the channel, in the
\* zip, or counted as failed; and nothing is in the zip or the channel twice.
OnePlace ==
  /\ \A k \in Slot :
       IF task[k] = "done"
       THEN /\ Queued(k) \/ Zipped(k) \/ k \in failed
            /\ ~(Queued(k) /\ Zipped(k)) /\ ~(Queued(k) /\ k \in failed)
            /\ ~(Zipped(k) /\ k \in failed)
       ELSE ~Queued(k) /\ ~Zipped(k) /\ k \notin failed
  /\ \A i, j \in DOMAIN queue : queue[i].slot = queue[j].slot => i = j
  /\ \A i, j \in DOMAIN zip : zip[i] = zip[j] => i = j

\* The zip is finished only when every CDR is in it or has failed: a slow
\* build is never left out.
NothingLeftOut ==
  writer = "finished" => \A k \in 1..total : Zipped(k) \/ k \in failed

\* No task that has a result waits for room in the channel.
NoTaskBlocks == Built # {} => Len(queue) < Capacity

\* Once the handler spawns, the zip is finished, also when the client is gone.
ZipEnds == pc = "spawn" ~> writer = "finished"

=============================================================================
