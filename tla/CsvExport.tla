----------------------------- MODULE CsvExport ------------------------------
(***************************************************************************)
(* GET and POST /cdr/export.csv (src/routes/cdr.rs), and the pool of       *)
(* database connections they share with every other page (src/db.rs).      *)
(*                                                                         *)
(* A GET answers 200 at once and leaves two tasks running: the query task  *)
(* of list_stream holds a connection and sends rows into a bounded         *)
(* channel; the CSV worker formats them into the bounded channel that is   *)
(* the body of the response.  A client that reads slowly, or not at all,   *)
(* makes both wait.  A POST fetches its rows first and streams them from   *)
(* memory.  A page runs one query under with_query_timeout (src/error.rs). *)
(*                                                                         *)
(* A row is the id of its CDR; a result is the sequence the database would *)
(* produce, fixed when the query starts (a consistent read).               *)
(***************************************************************************)
EXTENDS CdrLists, Option

CONSTANTS Newest,     \* the ids of table cdr, newest first
          Exports,    \* the export requests
          Requests,   \* what they ask for: [how, ids, filter, cap]
          Pages,      \* the requests for other pages
          Conns,      \* max_connections: 16
          RowCap,     \* list_stream's channel: 64
          CsvCap,     \* the response's channel: 8
          Untimed     \* APP_QUERY_TIMEOUT_SECS is 0

Cdr == ToSet(Newest)

ASSUME CdrAssumption == Newest \in Seq(Nat \ {0}) /\ IsInjective(Newest)
ASSUME NoneAssumption == None \notin Seq(Cdr)
ASSUME ChannelAssumption == /\ Conns \in Nat \ {0}
                            /\ RowCap \in Nat \ {0}
                            /\ CsvCap \in Nat \ {0}
                            /\ Untimed \in BOOLEAN
                            /\ Exports \cap Pages = {}
ASSUME RequestAssumption ==
  \A q \in Requests : /\ q.how \in {"get", "post"}
                      /\ q.ids \in Seq(Nat)
                      /\ q.filter \in (SUBSET Cdr) \cup {None}
                      /\ q.how = "get" => q.filter # None
                      /\ q.cap \in Nat \ {0}

\* What travels in the channels besides rows.
Header == 0        \* CSV_HEADER
RowError == -1     \* a database error, in the channel of rows
Broken == -2       \* the io::Error that cuts the body off

VARIABLES rows,      \* table cdr: the ids it holds
          asked,     \* what each export asks for
          phase,     \* where the handler of an export is
          cdr_ids,   \* what a POST was resolved to
          result,    \* the rows the export's query yields, or None
          conn,      \* the export's query: where its connection is
          cursor,    \* rows of result read from the database so far
          qhand,     \* the item the query task holds
          rowq,      \* row_stream
          worker,    \* the CSV worker
          first,     \* it waits for the first row, under the timer
          held,      \* the item the worker holds
          csvq,      \* csv_tx
          client, got,   \* the client, and what it has received
          hung,      \* the cursor when the client hung up
          page       \* the other pages' requests

query == <<result, conn, cursor, qhand>>
csv == <<worker, first, held>>
browser == <<client, got, hung>>
vars == <<rows, asked, phase, cdr_ids, query, rowq, csv, csvq, browser, page>>

Item == Cdr \cup {Header, RowError, Broken}

TypeOK == /\ rows \subseteq Cdr
          /\ asked \in [Exports -> Requests]
          /\ phase \in [Exports -> {"idle", "resolve", "fetch", "streaming",
                                    "bad_request", "error", "dropped"}]
          /\ cdr_ids \in [Exports -> Seq(Nat)]
          /\ result \in [Exports -> Seq(Cdr) \cup {None}]
          /\ qhand \in [Exports -> Seq(Item)] /\ rowq \in [Exports -> Seq(Item)]
          /\ held \in [Exports -> Seq(Item)] /\ csvq \in [Exports -> Seq(Item)]
          /\ got \in [Exports -> Seq(Item)]
          /\ conn \in [Exports -> {"none", "acquire", "open", "done"}]
          /\ cursor \in [Exports -> Nat] /\ hung \in [Exports -> Nat]
          /\ worker \in [Exports -> {"none", "running", "done"}]
          /\ first \in [Exports -> BOOLEAN]
          /\ client \in [Exports -> {"reading", "complete", "aborted", "gone"}]
          /\ page \in [Pages -> {"idle", "acquire", "open", "ok", "error", "timeout", "gone"}]

Init == /\ rows = Cdr
        /\ asked \in [Exports -> Requests]
        /\ phase = [e \in Exports |-> "idle"]
        /\ cdr_ids = [e \in Exports |-> <<>>]
        /\ result = [e \in Exports |-> None]
        /\ conn = [e \in Exports |-> "none"]
        /\ cursor = [e \in Exports |-> 0]
        /\ qhand = [e \in Exports |-> <<>>]
        /\ rowq = [e \in Exports |-> <<>>]
        /\ worker = [e \in Exports |-> "none"]
        /\ first = [e \in Exports |-> FALSE]
        /\ held = [e \in Exports |-> <<>>]
        /\ csvq = [e \in Exports |-> <<>>]
        /\ client = [e \in Exports |-> "reading"]
        /\ got = [e \in Exports |-> <<>>]
        /\ hung = [e \in Exports |-> 0]
        /\ page = [p \in Pages |-> "idle"]

Set(f, e, v) == f' = [f EXCEPT ![e] = v]

-----------------------------------------------------------------------------
(* The pool.                                                               *)

Busy == {e \in Exports : conn[e] = "open"} \cup {p \in Pages : page[p] = "open"}

Free == Cardinality(Busy) < Conns

Acquire(e) == /\ conn[e] = "acquire" /\ Free
              /\ Set(conn, e, "open")
              /\ UNCHANGED <<rows, asked, phase, cdr_ids, result, cursor, qhand, rowq, csv, csvq,
                             browser, page>>

\* acquire_timeout: the row stream yields the error, the fetches return it.
AcquireTimesOut(e) ==
  /\ conn[e] = "acquire"
  /\ Set(conn, e, "done")
  /\ IF phase[e] = "streaming" THEN Set(qhand, e, <<RowError>>) /\ UNCHANGED phase
                               ELSE Set(phase, e, "error") /\ UNCHANGED qhand
  /\ UNCHANGED <<rows, asked, cdr_ids, result, cursor, rowq, csv, csvq, browser, page>>

-----------------------------------------------------------------------------
(* The handlers.                                                           *)

Truncate(s, cap) == IF Len(s) > cap THEN SubSeq(s, 1, cap) ELSE s

\* The loop over the ids of a POST: positive, each once.
Wanted(ids) == Listed(ToSet(ids) \ {0}, ids)

\* The CDRs of a filter: newest first, with a LIMIT.
Matching(q) == Truncate(Listed(rows \cap q.filter, Newest), q.cap)

\* mutant: the rows come in the order of the database.
PresentNewestFirst(ids) == Listed(rows \cap ToSet(ids), Newest)

\* The ids of a POST that are (still) in the table, in the order asked for.
Present(ids) == Listed(rows \cap ToSet(ids), ids)

\* cdr_export_csv: both tasks are spawned, the header is their first item.
Get(e) == /\ phase[e] = "idle" /\ asked[e].how = "get"
          /\ Set(phase, e, "streaming")
          /\ Set(conn, e, "acquire")
          /\ Set(worker, e, "running") /\ Set(first, e, TRUE) /\ Set(held, e, <<Header>>)
          /\ UNCHANGED <<rows, asked, cdr_ids, result, cursor, qhand, rowq, csvq, browser, page>>

\* A POST with an empty list of ids and no filter is refused; ids win.
Post(e) ==
  /\ phase[e] = "idle" /\ asked[e].how = "post"
  /\ LET q == asked[e]  ids == Truncate(Wanted(q.ids), q.cap)
     IN \/ /\ q.ids # <<>> /\ ids # <<>>
           /\ Set(phase, e, "fetch") /\ Set(conn, e, "acquire") /\ Set(cdr_ids, e, ids)
        \/ /\ q.ids = <<>> /\ q.filter # None
           /\ Set(phase, e, "resolve") /\ Set(conn, e, "acquire") /\ UNCHANGED cdr_ids
        \/ /\ IF q.ids = <<>> THEN q.filter = None ELSE ids = <<>>
           /\ Set(phase, e, "bad_request") /\ UNCHANGED <<conn, cdr_ids>>
  /\ UNCHANGED <<rows, asked, result, cursor, qhand, rowq, csv, csvq, browser, page>>

\* ids_for_query_string, without a time limit.
Resolve(e) ==
  /\ phase[e] = "resolve" /\ conn[e] = "open"
  /\ LET ids == Matching(asked[e])
     IN IF ids = <<>>
        THEN Set(phase, e, "bad_request") /\ Set(conn, e, "done") /\ UNCHANGED cdr_ids
        ELSE Set(phase, e, "fetch") /\ Set(conn, e, "acquire") /\ Set(cdr_ids, e, ids)
  /\ UNCHANGED <<rows, asked, result, cursor, qhand, rowq, csv, csvq, browser, page>>

\* fetch_by_ids, without a time limit; then build_csv_response, which holds
\* the summaries in memory.
Fetch(e) ==
  /\ phase[e] = "fetch" /\ conn[e] = "open"
  /\ Set(conn, e, "done")
  /\ LET found == Present(cdr_ids[e])
     IN IF found = <<>>
        THEN Set(phase, e, "bad_request") /\ UNCHANGED <<result, cursor, rowq, worker, held>>
        ELSE /\ Set(phase, e, "streaming")
             /\ Set(result, e, found) /\ Set(cursor, e, Len(found)) /\ Set(rowq, e, found)
             /\ Set(worker, e, "running") /\ Set(held, e, <<Header>>)
  /\ UNCHANGED <<rows, asked, cdr_ids, qhand, first, csvq, browser, page>>

PostFails(e) ==
  /\ phase[e] \in {"resolve", "fetch"} /\ conn[e] = "open"
  /\ Set(phase, e, "error") /\ Set(conn, e, "done")
  /\ UNCHANGED <<rows, asked, cdr_ids, result, cursor, qhand, rowq, csv, csvq, browser, page>>

-----------------------------------------------------------------------------
(* The query task of list_stream.                                          *)

Streaming(e) == phase[e] = "streaming" /\ conn[e] = "open"

Execute(e) == /\ Streaming(e) /\ result[e] = None /\ qhand[e] = <<>>
              /\ Set(result, e, Matching(asked[e]))
              /\ UNCHANGED <<rows, asked, phase, cdr_ids, conn, cursor, qhand, rowq, csv, csvq,
                             browser, page>>

NextRow(e) == /\ Streaming(e) /\ result[e] # None /\ qhand[e] = <<>>
              /\ cursor[e] < Len(result[e])
              /\ Set(qhand, e, <<result[e][cursor[e] + 1]>>)
              /\ Set(cursor, e, cursor[e] + 1)
              /\ UNCHANGED <<rows, asked, phase, cdr_ids, result, conn, rowq, csv, csvq, browser, page>>

\* The connection fails; what it sends next is the error.
DbError(e) == /\ Streaming(e) /\ qhand[e] = <<>>
              /\ Set(qhand, e, <<RowError>>)
              /\ UNCHANGED <<rows, asked, phase, cdr_ids, result, conn, cursor, rowq, csv, csvq,
                             browser, page>>

EndOfRows(e) == /\ Streaming(e) /\ result[e] # None /\ qhand[e] = <<>>
                /\ cursor[e] = Len(result[e])
                /\ Set(conn, e, "done")
                /\ UNCHANGED <<rows, asked, phase, cdr_ids, result, cursor, qhand, rowq, csv, csvq,
                               browser, page>>

\* mutant: it waits for room whether or not there is a receiver.
SendRowBlind(e) ==
  /\ qhand[e] # <<>> /\ Len(rowq[e]) < RowCap
  /\ worker[e] # "done"
  /\ Set(qhand, e, <<>>) /\ Set(rowq, e, Append(rowq[e], Head(qhand[e])))
  /\ IF Head(qhand[e]) = RowError THEN Set(conn, e, "done") ELSE UNCHANGED conn
  /\ UNCHANGED <<rows, asked, phase, cdr_ids, result, cursor, csv, csvq, browser, page>>

\* tx.send: it waits for room; when the receiver has gone the task ends and
\* its connection goes back to the pool.
SendRow(e) ==
  /\ qhand[e] # <<>>
  /\ Set(qhand, e, <<>>)
  /\ IF worker[e] = "done"
     THEN Set(conn, e, "done") /\ UNCHANGED rowq
     ELSE /\ Len(rowq[e]) < RowCap
          /\ Set(rowq, e, Append(rowq[e], Head(qhand[e])))
          /\ IF Head(qhand[e]) = RowError THEN Set(conn, e, "done") ELSE UNCHANGED conn
  /\ UNCHANGED <<rows, asked, phase, cdr_ids, result, cursor, csv, csvq, browser, page>>

\* The sender of row_stream has been dropped.
QueryOver(e) == conn[e] = "done" /\ qhand[e] = <<>>

-----------------------------------------------------------------------------
(* The CSV worker.  When it is done it drops its receiver of rows and its  *)
(* sender of the body.                                                     *)

Running(e) == worker[e] = "running"

Stop(e) == Set(worker, e, "done") /\ Set(rowq, e, <<>>) /\ Set(held, e, <<>>)

\* mutant: the result of send is ignored.
PushRegardless(e) ==
  /\ Running(e) /\ held[e] # <<>>
  /\ Set(held, e, <<>>)
  /\ IF client[e] = "gone" THEN UNCHANGED csvq
     ELSE Len(csvq[e]) < CsvCap /\ Set(csvq, e, Append(csvq[e], Head(held[e])))
  /\ UNCHANGED <<rows, asked, phase, cdr_ids, query, rowq, worker, first, browser, page>>

\* csv_tx.send: it waits for room; when the client has gone the worker stops.
Push(e) == /\ Running(e) /\ held[e] # <<>>
           /\ IF client[e] = "gone"
              THEN Stop(e) /\ UNCHANGED csvq
              ELSE /\ Len(csvq[e]) < CsvCap
                   /\ Set(csvq, e, Append(csvq[e], Head(held[e])))
                   /\ IF Head(held[e]) = Broken
                      THEN Stop(e)
                      ELSE Set(held, e, <<>>) /\ UNCHANGED <<worker, rowq>>
           /\ UNCHANGED <<rows, asked, phase, cdr_ids, query, first, browser, page>>

\* mutant: the first row, taken under the timer, is not put back.
PullSecond(e) ==
  /\ Running(e) /\ held[e] = <<>> /\ rowq[e] # <<>>
  /\ IF Head(rowq[e]) = RowError
     THEN Stop(e)
     ELSE /\ Set(held, e, IF first[e] THEN <<>> ELSE <<Head(rowq[e])>>)
          /\ Set(rowq, e, Tail(rowq[e]))
          /\ UNCHANGED worker
  /\ Set(first, e, FALSE)
  /\ UNCHANGED <<rows, asked, phase, cdr_ids, query, csvq, browser, page>>

\* row_stream.next(): a row is formatted, an error ends the export.
Pull(e) == /\ Running(e) /\ held[e] = <<>> /\ rowq[e] # <<>>
           /\ IF Head(rowq[e]) = RowError
              THEN Stop(e)
              ELSE /\ Set(held, e, <<Head(rowq[e])>>) /\ Set(rowq, e, Tail(rowq[e]))
                   /\ UNCHANGED worker
           /\ Set(first, e, FALSE)
           /\ UNCHANGED <<rows, asked, phase, cdr_ids, query, csvq, browser, page>>

\* Rows come with no limit of time once the first one has.
FirstRowTimesOut(e) == /\ Running(e) /\ first[e] /\ ~Untimed
                       /\ held[e] = <<>> /\ rowq[e] = <<>> /\ ~QueryOver(e)
                       /\ Set(held, e, <<Broken>>) /\ Set(first, e, FALSE)
                       /\ UNCHANGED <<rows, asked, phase, cdr_ids, query, rowq, worker, csvq, browser,
                                      page>>

NoMoreRows(e) == /\ Running(e) /\ held[e] = <<>> /\ rowq[e] = <<>> /\ QueryOver(e)
                 /\ Stop(e)
                 /\ UNCHANGED <<rows, asked, phase, cdr_ids, query, first, csvq, browser, page>>

-----------------------------------------------------------------------------
(* The client of an export, the other pages, and VoIPmonitor's clean-up.   *)

Read(e) == /\ client[e] = "reading" /\ csvq[e] # <<>>
           /\ Set(csvq, e, Tail(csvq[e]))
           /\ Set(got, e, Append(got[e], Head(csvq[e])))
           /\ IF Head(csvq[e]) = Broken THEN Set(client, e, "aborted") ELSE UNCHANGED client
           /\ UNCHANGED <<rows, asked, phase, cdr_ids, query, rowq, csv, hung, page>>

\* The body's sender has been dropped and the body is empty.
SeeEnd(e) == /\ client[e] = "reading" /\ worker[e] = "done" /\ csvq[e] = <<>>
             /\ Set(client, e, "complete")
             /\ UNCHANGED <<rows, asked, phase, cdr_ids, query, rowq, csv, csvq, got, hung, page>>

\* A handler that is still running is dropped with its connection; the tasks
\* of a stream only notice when they send.
HangUp(e) == /\ client[e] = "reading"
             /\ phase[e] \in {"resolve", "fetch", "streaming"}
             /\ Set(client, e, "gone") /\ Set(csvq, e, <<>>) /\ Set(hung, e, cursor[e])
             /\ IF phase[e] = "streaming"
                THEN UNCHANGED <<phase, conn>>
                ELSE Set(phase, e, "dropped") /\ Set(conn, e, "done")
             /\ UNCHANGED <<rows, asked, cdr_ids, result, cursor, qhand, rowq, csv, got, page>>

exports == <<asked, phase, cdr_ids, query, rowq, csv, csvq, browser>>

OpenPage(p) == /\ page[p] = "idle"
               /\ Set(page, p, "acquire")
               /\ UNCHANGED <<rows, exports>>

PageAcquires(p) == /\ page[p] = "acquire" /\ Free
                   /\ Set(page, p, "open")
                   /\ UNCHANGED <<rows, exports>>

PageAnswers(p) == /\ page[p] = "open"
                  /\ \E s \in {"ok", "error"} : Set(page, p, s)
                  /\ UNCHANGED <<rows, exports>>

PageAcquireTimesOut(p) == /\ page[p] = "acquire"
                          /\ Set(page, p, "error")
                          /\ UNCHANGED <<rows, exports>>

\* mutant: only the wait for a connection is limited.
PageTimesOutEarly(p) == /\ page[p] = "acquire" /\ ~Untimed
                        /\ Set(page, p, "timeout")
                        /\ UNCHANGED <<rows, exports>>

\* with_query_timeout: the limit covers the wait for a connection too; the
\* query's future is dropped with its connection.
PageTimesOut(p) == /\ page[p] \in {"acquire", "open"} /\ ~Untimed
                   /\ Set(page, p, "timeout")
                   /\ UNCHANGED <<rows, exports>>

LeavePage(p) == /\ page[p] \in {"acquire", "open"}
                /\ Set(page, p, "gone")
                /\ UNCHANGED <<rows, exports>>

\* The oldest go first.
Clean == /\ rows # {}
         /\ \E c \in rows : /\ \A d \in rows : Place(Newest, d) <= Place(Newest, c)
                           /\ rows' = rows \ {c}
         /\ UNCHANGED <<exports, page>>

-----------------------------------------------------------------------------

Handler(e) == Get(e) \/ Post(e) \/ Resolve(e) \/ Fetch(e) \/ PostFails(e)

Database(e) == Execute(e) \/ NextRow(e) \/ DbError(e) \/ EndOfRows(e)

Worker(e) == Push(e) \/ Pull(e) \/ FirstRowTimesOut(e) \/ NoMoreRows(e)

Page(p) == \/ OpenPage(p) \/ PageAcquires(p) \/ PageAnswers(p)
           \/ PageAcquireTimesOut(p) \/ PageTimesOut(p) \/ LeavePage(p)

Next == \/ \E e \in Exports : \/ Acquire(e) \/ AcquireTimesOut(e)
                              \/ Handler(e) \/ Database(e) \/ SendRow(e) \/ Worker(e)
                              \/ Read(e) \/ SeeEnd(e) \/ HangUp(e)
        \/ \E p \in Pages : Page(p)
        \/ Clean

Spec == Init /\ [][Next]_vars

\* The tasks run, the timers fire, and MySQL answers a streaming query or its
\* connection breaks.  Nothing is assumed of clients, nor of the queries of
\* pages, which may hang.
Fairness ==
  /\ \A e \in Exports : /\ WF_vars(Acquire(e) \/ AcquireTimesOut(e))
                        /\ WF_vars(Database(e))
                        /\ WF_vars(SendRow(e))
                        /\ WF_vars(Worker(e))
  /\ \A p \in Pages : /\ WF_vars(PageAcquires(p) \/ PageAcquireTimesOut(p))
                      /\ WF_vars(PageTimesOut(p))

FairSpec == Spec /\ Fairness

-----------------------------------------------------------------------------

\* What an export has to put on the wire: the header, then its result.
At(e, k) == IF k = 1 THEN Header ELSE result[e][k - 1]

\* A client receives the header and then the rows of the result, in its order
\* and without a gap, as far as they go, perhaps cut off; and a body that
\* ends as a body should has every row that was read from the database.  No
\* row is lost or doubled between the two channels and the two tasks.
RowsArrive ==
  \A e \in Exports :
    /\ \A k \in DOMAIN got[e] :
         \/ got[e][k] = Broken /\ k = Len(got[e])
         \/ k <= cursor[e] + 1 /\ got[e][k] = At(e, k)
    /\ client[e] = "complete" => Len(got[e]) = cursor[e] + 1

\* A POST's rows are CDRs that were asked for, in the order asked for,
\* whatever was cleaned up before they were fetched.
AsTicked ==
  \A e \in Exports :
    asked[e].how = "post" /\ asked[e].ids # <<>> =>
      \A j, k \in 2..Len(got[e]) :
        /\ got[e][j] \in ToSet(asked[e].ids)
        /\ j < k => Place(asked[e].ids, got[e][j]) < Place(asked[e].ids, got[e][k])

\* After its client has hung up an export reads only what still fits in the
\* channel of rows and in the two hands: it does not run on to the end of a
\* large result.
StopsForTheGone ==
  \A e \in Exports :
    client[e] = "gone" => cursor[e] <= hung[e] + RowCap + 2

\* Once the client of a stream has hung up, its connection goes back to the
\* pool and its worker ends.
FreesConnection ==
  \A e \in Exports :
    client[e] = "gone" ~> conn[e] = "done" /\ worker[e] # "running"

\* A page is answered, even when every connection is held by an export that
\* nobody reads, and even when its own query hangs.
PageIsAnswered ==
  \A p \in Pages : page[p] = "acquire" ~> page[p] \notin {"acquire", "open"}
=============================================================================
