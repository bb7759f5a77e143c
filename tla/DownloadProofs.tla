--------------------------- MODULE DownloadProofs ---------------------------
(***************************************************************************)
(* What is made for a call's page, and for a download of many: CsvExport,  *)
(* for every table, every number of exports, pages and connections, and    *)
(* every capacity of the two channels: the types of the states; that an    *)
(* export whose client is gone reads at most what still fits in the        *)
(* channel of rows and in the two hands; that no row is lost, doubled or   *)
(* out of place on its way through the two tasks and the two channels; and *)
(* that the rows of a POST come in the order asked for.  CallMedia, for    *)
(* every call, every fault of the network and every clock: that the        *)
(* players play, that audio keeps time, and that a chart shows no jitter   *)
(* where there was none.                                                   *)
(***************************************************************************)
EXTENDS CsvExport, CallMedia, CdrListsProofs

-----------------------------------------------------------------------------
(* Lists of ids.                                                           *)

LEMMA TruncateProperties ==
  ASSUME NEW X, NEW s \in Seq(X), NEW cap \in Nat \ {0}
  PROVE  /\ Truncate(s, cap) \in Seq(X) /\ Len(Truncate(s, cap)) <= Len(s)
         /\ \A k \in 1..Len(Truncate(s, cap)) : Truncate(s, cap)[k] = s[k]
<1>1. CASE Len(s) > cap
  BY <1>1, SubSeqProperties DEF Truncate
<1>2. CASE ~(Len(s) > cap)
  BY <1>2 DEF Truncate
<1>. QED  BY <1>1, <1>2

-----------------------------------------------------------------------------
(* Types.                                                                  *)

LEMMA CdrType == Cdr \subseteq Nat \ {0} /\ IsFiniteSet(Cdr)
BY CdrAssumption, FiniteRange DEF Cdr

LEMMA ItemType ==
  /\ Cdr \subseteq Item /\ Header \in Item /\ RowError \in Item /\ Broken \in Item
  /\ RowError \notin Cdr /\ Broken \notin Cdr /\ Header # RowError /\ Header # Broken
  /\ Broken # RowError
BY CdrType DEF Item, Header, RowError, Broken

LEMMA ItemSequences ==
  /\ <<>> \in Seq(Item) /\ <<Header>> \in Seq(Item) /\ <<RowError>> \in Seq(Item)
  /\ \A i \in Item : <<i>> \in Seq(Item)
  /\ \A s \in Seq(Cdr) : s \in Seq(Nat) /\ s \in Seq(Item) /\ Len(s) \in Nat
<1>1. \A i \in Item : <<i>> \in Seq(Item)
  OBVIOUS
<1>2. \A s \in Seq(Cdr) : s \in Seq(Nat) /\ s \in Seq(Item) /\ Len(s) \in Nat
  <2>1. SUFFICES ASSUME NEW s \in Seq(Cdr)
                 PROVE  s \in Seq(Nat) /\ s \in Seq(Item) /\ Len(s) \in Nat
    BY <2>1
  <2>2. Cdr \subseteq Nat /\ Cdr \subseteq Item
    BY CdrType, ItemType
  <2>3. Len(s) \in Nat /\ s \in [1..Len(s) -> Cdr]
    BY LenProperties
  <2>4. s \in [1..Len(s) -> Nat] /\ s \in [1..Len(s) -> Item]
    BY <2>2, <2>3
  <2>. QED  BY <2>3, <2>4, SeqDef
<1>. QED  BY <1>1, <1>2, ItemType

LEMMA RequestType ==
  ASSUME NEW q \in Requests
  PROVE  /\ q.how \in {"get", "post"} /\ q.ids \in Seq(Nat)
         /\ q.filter \in (SUBSET Cdr) \cup {None} /\ q.cap \in Nat \ {0}
         /\ q.how = "get" => q.filter \in SUBSET Cdr
BY RequestAssumption

LEMMA MatchingType ==
  ASSUME NEW q \in Requests, rows \subseteq Cdr
  PROVE  Matching(q) \in Seq(Cdr)
<1>1. rows \cap q.filter \subseteq ToSet(Newest) /\ rows \cap q.filter \subseteq Cdr
  BY DEF Cdr
<1>2. Newest \in Seq(Nat \ {0})
  BY CdrAssumption
<1>3. Listed(rows \cap q.filter, Newest) \in Seq(rows \cap q.filter)
  BY <1>1, <1>2, ListedProperties
<1>4. Listed(rows \cap q.filter, Newest) \in Seq(Cdr)
  BY <1>1, <1>3
<1>. QED  BY <1>4, RequestType, TruncateProperties DEF Matching

LEMMA WantedType ==
  ASSUME NEW ids \in Seq(Nat)
  PROVE  Wanted(ids) \in Seq(Nat)
<1>1. ToSet(ids) \subseteq Nat /\ ToSet(ids) \ {0} \subseteq ToSet(ids)
  BY FiniteRange
<1>2. Listed(ToSet(ids) \ {0}, ids) \in Seq(ToSet(ids) \ {0})
  BY <1>1, ListedProperties
<1>. QED  BY <1>1, <1>2 DEF Wanted

LEMMA PresentType ==
  ASSUME NEW ids \in Seq(Nat), rows \subseteq Cdr
  PROVE  Present(ids) \in Seq(Cdr)
<1>1. rows \cap ToSet(ids) \subseteq ToSet(ids) /\ rows \cap ToSet(ids) \subseteq Cdr
  OBVIOUS
<1>2. Listed(rows \cap ToSet(ids), ids) \in Seq(rows \cap ToSet(ids))
  BY <1>1, ListedProperties
<1>. QED  BY <1>1, <1>2 DEF Present

THEOREM TypeInit == Init => TypeOK
BY DEF Init, TypeOK, Item

THEOREM TypeStep == TypeOK /\ [Next]_vars => TypeOK'
<1>. SUFFICES ASSUME TypeOK, [Next]_vars  PROVE TypeOK'
  OBVIOUS
<1>1. ASSUME NEW e \in Exports, Acquire(e)  PROVE TypeOK'
  BY <1>1 DEF TypeOK, Acquire, Set, query, csv, browser, exports
<1>2. ASSUME NEW e \in Exports, AcquireTimesOut(e)  PROVE TypeOK'
  <2>1. conn' \in [Exports -> {"none", "acquire", "open", "done"}]
    <3>1. conn \in [Exports -> {"none", "acquire", "open", "done"}]
      BY DEF TypeOK
    <3>2. conn' = [conn EXCEPT ![e] = "done"]
      BY <1>2, ZenonT(30) DEF AcquireTimesOut, Stop, Set
    <3>. QED  BY <3>1, <3>2
  <2>2. qhand' \in [Exports -> Seq(Item)]
    <3>1. qhand \in [Exports -> Seq(Item)]
      BY DEF TypeOK
    <3>2. qhand' = qhand \/ qhand' = [qhand EXCEPT ![e] = <<RowError>>]
      BY <1>2, ZenonT(30) DEF AcquireTimesOut, Stop, Set
    <3>. QED  BY <3>1, <3>2, ItemSequences
  <2>3. phase' \in [Exports -> {"idle", "resolve", "fetch", "streaming", "bad_request", "error", "dropped"}]
    <3>1. phase \in [Exports -> {"idle", "resolve", "fetch", "streaming", "bad_request", "error", "dropped"}]
      BY DEF TypeOK
    <3>2. phase' = phase \/ phase' = [phase EXCEPT ![e] = "error"]
      BY <1>2, ZenonT(30) DEF AcquireTimesOut, Stop, Set
    <3>. QED  BY <3>1, <3>2
  <2>4. UNCHANGED <<rows, asked, cdr_ids, result, cursor, rowq, worker, first, held, csvq, client, got, hung, page>>
    BY <1>2 DEF AcquireTimesOut, query, csv, browser
  <2>. QED  BY <2>1, <2>2, <2>3, <2>4, ZenonT(60) DEF TypeOK
<1>3. ASSUME NEW e \in Exports, Get(e)  PROVE TypeOK'
  BY <1>3, ItemType DEF TypeOK, Get, Set, query, csv, browser, exports
<1>4. ASSUME NEW e \in Exports, Post(e)  PROVE TypeOK'
  <2>1. Truncate(Wanted(asked[e].ids), asked[e].cap) \in Seq(Nat)
    BY RequestType, WantedType, TruncateProperties DEF TypeOK
  <2>2. phase' \in [Exports -> {"idle", "resolve", "fetch", "streaming", "bad_request", "error", "dropped"}]
    <3>1. phase \in [Exports -> {"idle", "resolve", "fetch", "streaming", "bad_request", "error", "dropped"}]
      BY DEF TypeOK
    <3>2. phase' = [phase EXCEPT ![e] = "fetch"] \/ phase' = [phase EXCEPT ![e] = "resolve"] \/ phase' = [phase EXCEPT ![e] = "bad_request"]
      BY <1>4, ZenonT(30) DEF Post, Stop, Set
    <3>. QED  BY <3>1, <3>2
  <2>3. conn' \in [Exports -> {"none", "acquire", "open", "done"}]
    <3>1. conn \in [Exports -> {"none", "acquire", "open", "done"}]
      BY DEF TypeOK
    <3>2. conn' = conn \/ conn' = [conn EXCEPT ![e] = "acquire"]
      BY <1>4, ZenonT(30) DEF Post, Stop, Set
    <3>. QED  BY <3>1, <3>2
  <2>4. cdr_ids' \in [Exports -> Seq(Nat)]
    <3>1. cdr_ids \in [Exports -> Seq(Nat)]
      BY DEF TypeOK
    <3>2. cdr_ids' = cdr_ids \/ cdr_ids' = [cdr_ids EXCEPT ![e] = Truncate(Wanted(asked[e].ids), asked[e].cap)]
      BY <1>4, ZenonT(30) DEF Post, Stop, Set
    <3>. QED  BY <3>1, <3>2, <2>1
  <2>5. UNCHANGED <<rows, asked, result, cursor, qhand, rowq, worker, first, held, csvq, client, got, hung, page>>
    BY <1>4 DEF Post, query, csv, browser
  <2>. QED  BY <2>2, <2>3, <2>4, <2>5, ZenonT(60) DEF TypeOK
<1>5. ASSUME NEW e \in Exports, Resolve(e)  PROVE TypeOK'
  <2>1. Matching(asked[e]) \in Seq(Nat)
    <3>1. Matching(asked[e]) \in Seq(Cdr)
      <4>1. asked[e] \in Requests /\ rows \subseteq Cdr
        BY DEF TypeOK
      <4>. QED  BY <4>1, MatchingType
    <3>. QED  BY <3>1, ItemSequences
  <2>2. phase' \in [Exports -> {"idle", "resolve", "fetch", "streaming", "bad_request", "error", "dropped"}]
    <3>1. phase \in [Exports -> {"idle", "resolve", "fetch", "streaming", "bad_request", "error", "dropped"}]
      BY DEF TypeOK
    <3>2. phase' = [phase EXCEPT ![e] = "fetch"] \/ phase' = [phase EXCEPT ![e] = "bad_request"]
      BY <1>5, ZenonT(30) DEF Resolve, Stop, Set
    <3>. QED  BY <3>1, <3>2
  <2>3. conn' \in [Exports -> {"none", "acquire", "open", "done"}]
    <3>1. conn \in [Exports -> {"none", "acquire", "open", "done"}]
      BY DEF TypeOK
    <3>2. conn' = [conn EXCEPT ![e] = "done"] \/ conn' = [conn EXCEPT ![e] = "acquire"]
      BY <1>5, ZenonT(30) DEF Resolve, Stop, Set
    <3>. QED  BY <3>1, <3>2
  <2>4. cdr_ids' \in [Exports -> Seq(Nat)]
    <3>1. cdr_ids \in [Exports -> Seq(Nat)]
      BY DEF TypeOK
    <3>2. cdr_ids' = cdr_ids \/ cdr_ids' = [cdr_ids EXCEPT ![e] = Matching(asked[e])]
      BY <1>5, ZenonT(30) DEF Resolve, Stop, Set
    <3>. QED  BY <3>1, <3>2, <2>1
  <2>5. UNCHANGED <<rows, asked, result, cursor, qhand, rowq, worker, first, held, csvq, client, got, hung, page>>
    BY <1>5 DEF Resolve, query, csv, browser
  <2>. QED  BY <2>2, <2>3, <2>4, <2>5, ZenonT(60) DEF TypeOK
<1>6. ASSUME NEW e \in Exports, Fetch(e)  PROVE TypeOK'
  <2>1. /\ Present(cdr_ids[e]) \in Seq(Cdr) /\ Present(cdr_ids[e]) \in Seq(Item)
        /\ Len(Present(cdr_ids[e])) \in Nat
    <3>1. Present(cdr_ids[e]) \in Seq(Cdr)
      BY PresentType DEF TypeOK
    <3>. QED  BY <3>1, ItemType
  <2>2. phase' \in [Exports -> {"idle", "resolve", "fetch", "streaming", "bad_request", "error", "dropped"}]
    <3>1. phase \in [Exports -> {"idle", "resolve", "fetch", "streaming", "bad_request", "error", "dropped"}]
      BY DEF TypeOK
    <3>2. phase' = [phase EXCEPT ![e] = "streaming"] \/ phase' = [phase EXCEPT ![e] = "bad_request"]
      BY <1>6, ZenonT(30) DEF Fetch, Stop, Set
    <3>. QED  BY <3>1, <3>2
  <2>3. conn' \in [Exports -> {"none", "acquire", "open", "done"}]
    <3>1. conn \in [Exports -> {"none", "acquire", "open", "done"}]
      BY DEF TypeOK
    <3>2. conn' = [conn EXCEPT ![e] = "done"]
      BY <1>6, ZenonT(30) DEF Fetch, Stop, Set
    <3>. QED  BY <3>1, <3>2
  <2>4. result' \in [Exports -> Seq(Cdr) \cup {None}]
    <3>1. result \in [Exports -> Seq(Cdr) \cup {None}]
      BY DEF TypeOK
    <3>2. result' = result \/ result' = [result EXCEPT ![e] = Present(cdr_ids[e])]
      BY <1>6, ZenonT(30) DEF Fetch, Stop, Set
    <3>. QED  BY <3>1, <3>2, <2>1
  <2>5. cursor' \in [Exports -> Nat]
    <3>1. cursor \in [Exports -> Nat]
      BY DEF TypeOK
    <3>2. cursor' = cursor \/ cursor' = [cursor EXCEPT ![e] = Len(Present(cdr_ids[e]))]
      BY <1>6, ZenonT(30) DEF Fetch, Stop, Set
    <3>. QED  BY <3>1, <3>2, <2>1
  <2>6. rowq' \in [Exports -> Seq(Item)]
    <3>1. rowq \in [Exports -> Seq(Item)]
      BY DEF TypeOK
    <3>2. rowq' = rowq \/ rowq' = [rowq EXCEPT ![e] = Present(cdr_ids[e])]
      BY <1>6, ZenonT(30) DEF Fetch, Stop, Set
    <3>. QED  BY <3>1, <3>2, <2>1
  <2>7. worker' \in [Exports -> {"none", "running", "done"}]
    <3>1. worker \in [Exports -> {"none", "running", "done"}]
      BY DEF TypeOK
    <3>2. worker' = worker \/ worker' = [worker EXCEPT ![e] = "running"]
      BY <1>6, ZenonT(30) DEF Fetch, Stop, Set
    <3>. QED  BY <3>1, <3>2
  <2>8. held' \in [Exports -> Seq(Item)]
    <3>1. held \in [Exports -> Seq(Item)]
      BY DEF TypeOK
    <3>2. held' = held \/ held' = [held EXCEPT ![e] = <<Header>>]
      BY <1>6, ZenonT(30) DEF Fetch, Stop, Set
    <3>. QED  BY <3>1, <3>2, ItemSequences
  <2>9. UNCHANGED <<rows, asked, cdr_ids, qhand, first, csvq, client, got, hung, page>>
    BY <1>6 DEF Fetch, query, csv, browser
  <2>. QED  BY <2>2, <2>3, <2>4, <2>5, <2>6, <2>7, <2>8, <2>9, ZenonT(60) DEF TypeOK
<1>7. ASSUME NEW e \in Exports, PostFails(e)  PROVE TypeOK'
  BY <1>7 DEF TypeOK, PostFails, Set, query, csv, browser, exports
<1>8. ASSUME NEW e \in Exports, Execute(e)  PROVE TypeOK'
  BY <1>8, MatchingType, ItemType DEF TypeOK, Execute, Set, query, csv, browser, exports, Stop, Running, Streaming
<1>9. ASSUME NEW e \in Exports, NextRow(e)  PROVE TypeOK'
  BY <1>9, ItemType DEF TypeOK, NextRow, Set, query, csv, browser, exports, Stop, Running, Streaming
<1>10. ASSUME NEW e \in Exports, DbError(e)  PROVE TypeOK'
  BY <1>10, ItemType DEF TypeOK, DbError, Set, query, csv, browser, exports, Stop, Running, Streaming
<1>11. ASSUME NEW e \in Exports, EndOfRows(e)  PROVE TypeOK'
  BY <1>11 DEF TypeOK, EndOfRows, Set, query, csv, browser, exports, Stop, Running, Streaming
<1>12. ASSUME NEW e \in Exports, SendRow(e)  PROVE TypeOK'
  <2>1. Append(rowq[e], Head(qhand[e])) \in Seq(Item)
    <3>1. Head(qhand[e]) \in Item /\ rowq[e] \in Seq(Item)
      BY <1>12 DEF SendRow, TypeOK
    <3>. QED  BY <3>1
  <2>2. qhand' \in [Exports -> Seq(Item)]
    <3>1. qhand \in [Exports -> Seq(Item)]
      BY DEF TypeOK
    <3>2. qhand' = [qhand EXCEPT ![e] = <<>>]
      BY <1>12, ZenonT(30) DEF SendRow, Stop, Set
    <3>. QED  BY <3>1, <3>2
  <2>3. conn' \in [Exports -> {"none", "acquire", "open", "done"}]
    <3>1. conn \in [Exports -> {"none", "acquire", "open", "done"}]
      BY DEF TypeOK
    <3>2. conn' = conn \/ conn' = [conn EXCEPT ![e] = "done"]
      BY <1>12, ZenonT(30) DEF SendRow, Stop, Set
    <3>. QED  BY <3>1, <3>2
  <2>4. rowq' \in [Exports -> Seq(Item)]
    <3>1. rowq \in [Exports -> Seq(Item)]
      BY DEF TypeOK
    <3>2. rowq' = rowq \/ rowq' = [rowq EXCEPT ![e] = Append(rowq[e], Head(qhand[e]))]
      BY <1>12, ZenonT(30) DEF SendRow, Stop, Set
    <3>. QED  BY <3>1, <3>2, <2>1
  <2>5. UNCHANGED <<rows, asked, phase, cdr_ids, result, cursor, worker, first, held, csvq, client, got, hung, page>>
    BY <1>12 DEF SendRow, query, csv, browser
  <2>. QED  BY <2>2, <2>3, <2>4, <2>5, ZenonT(60) DEF TypeOK
<1>13. ASSUME NEW e \in Exports, Push(e)  PROVE TypeOK'
  <2>1. Append(csvq[e], Head(held[e])) \in Seq(Item)
    <3>1. Head(held[e]) \in Item /\ csvq[e] \in Seq(Item)
      BY <1>13 DEF Push, TypeOK
    <3>. QED  BY <3>1
  <2>2. held' \in [Exports -> Seq(Item)]
    <3>1. held \in [Exports -> Seq(Item)]
      BY DEF TypeOK
    <3>2. held' = [held EXCEPT ![e] = <<>>]
      BY <1>13, ZenonT(30) DEF Push, Stop, Set
    <3>. QED  BY <3>1, <3>2, ItemSequences
  <2>3. worker' \in [Exports -> {"none", "running", "done"}]
    <3>1. worker \in [Exports -> {"none", "running", "done"}]
      BY DEF TypeOK
    <3>2. worker' = worker \/ worker' = [worker EXCEPT ![e] = "done"]
      BY <1>13, ZenonT(30) DEF Push, Stop, Set
    <3>. QED  BY <3>1, <3>2, ItemSequences
  <2>4. rowq' \in [Exports -> Seq(Item)]
    <3>1. rowq \in [Exports -> Seq(Item)]
      BY DEF TypeOK
    <3>2. rowq' = rowq \/ rowq' = [rowq EXCEPT ![e] = <<>>]
      BY <1>13, ZenonT(30) DEF Push, Stop, Set
    <3>. QED  BY <3>1, <3>2, ItemSequences
  <2>5. csvq' \in [Exports -> Seq(Item)]
    <3>1. csvq \in [Exports -> Seq(Item)]
      BY DEF TypeOK
    <3>2. csvq' = csvq \/ csvq' = [csvq EXCEPT ![e] = Append(csvq[e], Head(held[e]))]
      BY <1>13, ZenonT(30) DEF Push, Stop, Set
    <3>. QED  BY <3>1, <3>2, <2>1
  <2>6. UNCHANGED <<rows, asked, phase, cdr_ids, result, conn, cursor, qhand, first, client, got, hung, page>>
    BY <1>13 DEF Push, query, csv, browser
  <2>. QED  BY <2>2, <2>3, <2>4, <2>5, <2>6, ZenonT(60) DEF TypeOK
<1>14. ASSUME NEW e \in Exports, Pull(e)  PROVE TypeOK'
  <2>1. Head(rowq[e]) \in Item /\ Tail(rowq[e]) \in Seq(Item)
    BY <1>14 DEF Pull, TypeOK
  <2>2. held' \in [Exports -> Seq(Item)]
    <3>1. held \in [Exports -> Seq(Item)]
      BY DEF TypeOK
    <3>2. held' = [held EXCEPT ![e] = <<>>] \/ held' = [held EXCEPT ![e] = <<Head(rowq[e])>>]
      BY <1>14, ZenonT(30) DEF Pull, Stop, Set
    <3>. QED  BY <3>1, <3>2, <2>1, ItemSequences
  <2>3. worker' \in [Exports -> {"none", "running", "done"}]
    <3>1. worker \in [Exports -> {"none", "running", "done"}]
      BY DEF TypeOK
    <3>2. worker' = worker \/ worker' = [worker EXCEPT ![e] = "done"]
      BY <1>14, ZenonT(30) DEF Pull, Stop, Set
    <3>. QED  BY <3>1, <3>2
  <2>4. rowq' \in [Exports -> Seq(Item)]
    <3>1. rowq \in [Exports -> Seq(Item)]
      BY DEF TypeOK
    <3>2. rowq' = [rowq EXCEPT ![e] = <<>>] \/ rowq' = [rowq EXCEPT ![e] = Tail(rowq[e])]
      BY <1>14, ZenonT(30) DEF Pull, Stop, Set
    <3>. QED  BY <3>1, <3>2, <2>1, ItemSequences
  <2>5. first' \in [Exports -> BOOLEAN]
    <3>1. first \in [Exports -> BOOLEAN]
      BY DEF TypeOK
    <3>2. first' = [first EXCEPT ![e] = FALSE]
      BY <1>14, ZenonT(30) DEF Pull, Stop, Set
    <3>. QED  BY <3>1, <3>2
  <2>6. UNCHANGED <<rows, asked, phase, cdr_ids, result, conn, cursor, qhand, csvq, client, got, hung, page>>
    BY <1>14 DEF Pull, query, csv, browser
  <2>. QED  BY <2>2, <2>3, <2>4, <2>5, <2>6, ZenonT(60) DEF TypeOK
<1>15. ASSUME NEW e \in Exports, FirstRowTimesOut(e)  PROVE TypeOK'
  BY <1>15, ItemType DEF TypeOK, FirstRowTimesOut, Set, query, csv, browser, exports, Stop, Running, Streaming
<1>16. ASSUME NEW e \in Exports, NoMoreRows(e)  PROVE TypeOK'
  BY <1>16 DEF TypeOK, NoMoreRows, Set, query, csv, browser, exports, Stop, Running, Streaming
<1>17. ASSUME NEW e \in Exports, Read(e)  PROVE TypeOK'
  <2>1. Append(got[e], Head(csvq[e])) \in Seq(Item) /\ Tail(csvq[e]) \in Seq(Item)
    BY <1>17 DEF Read, TypeOK
  <2>2. csvq' \in [Exports -> Seq(Item)]
    <3>1. csvq \in [Exports -> Seq(Item)]
      BY DEF TypeOK
    <3>2. csvq' = [csvq EXCEPT ![e] = Tail(csvq[e])]
      BY <1>17, ZenonT(30) DEF Read, Stop, Set
    <3>. QED  BY <3>1, <3>2, <2>1
  <2>3. got' \in [Exports -> Seq(Item)]
    <3>1. got \in [Exports -> Seq(Item)]
      BY DEF TypeOK
    <3>2. got' = [got EXCEPT ![e] = Append(got[e], Head(csvq[e]))]
      BY <1>17, ZenonT(30) DEF Read, Stop, Set
    <3>. QED  BY <3>1, <3>2, <2>1
  <2>4. client' \in [Exports -> {"reading", "complete", "aborted", "gone"}]
    <3>1. client \in [Exports -> {"reading", "complete", "aborted", "gone"}]
      BY DEF TypeOK
    <3>2. client' = client \/ client' = [client EXCEPT ![e] = "aborted"]
      BY <1>17, ZenonT(30) DEF Read, Stop, Set
    <3>. QED  BY <3>1, <3>2
  <2>5. UNCHANGED <<rows, asked, phase, cdr_ids, result, conn, cursor, qhand, rowq, worker, first, held, hung, page>>
    BY <1>17 DEF Read, query, csv, browser
  <2>. QED  BY <2>2, <2>3, <2>4, <2>5, ZenonT(60) DEF TypeOK
<1>18. ASSUME NEW e \in Exports, SeeEnd(e)  PROVE TypeOK'
  BY <1>18 DEF TypeOK, SeeEnd, Set, query, csv, browser, exports
<1>19. ASSUME NEW e \in Exports, HangUp(e)  PROVE TypeOK'
  <2>1. client' \in [Exports -> {"reading", "complete", "aborted", "gone"}]
    <3>1. client \in [Exports -> {"reading", "complete", "aborted", "gone"}]
      BY DEF TypeOK
    <3>2. client' = [client EXCEPT ![e] = "gone"]
      BY <1>19, ZenonT(30) DEF HangUp, Stop, Set
    <3>. QED  BY <3>1, <3>2
  <2>2. csvq' \in [Exports -> Seq(Item)]
    <3>1. csvq \in [Exports -> Seq(Item)]
      BY DEF TypeOK
    <3>2. csvq' = [csvq EXCEPT ![e] = <<>>]
      BY <1>19, ZenonT(30) DEF HangUp, Stop, Set
    <3>. QED  BY <3>1, <3>2
  <2>3. hung' \in [Exports -> Nat]
    <3>1. hung \in [Exports -> Nat]
      BY DEF TypeOK
    <3>2. hung' = [hung EXCEPT ![e] = cursor[e]]
      BY <1>19, ZenonT(30) DEF HangUp, Stop, Set
    <3>3. cursor[e] \in Nat
      BY DEF TypeOK
    <3>. QED  BY <3>1, <3>2, <3>3
  <2>4. phase' \in [Exports -> {"idle", "resolve", "fetch", "streaming", "bad_request", "error", "dropped"}]
    <3>1. phase \in [Exports -> {"idle", "resolve", "fetch", "streaming", "bad_request", "error", "dropped"}]
      BY DEF TypeOK
    <3>2. phase' = phase \/ phase' = [phase EXCEPT ![e] = "dropped"]
      BY <1>19, ZenonT(30) DEF HangUp, Stop, Set
    <3>. QED  BY <3>1, <3>2
  <2>5. conn' \in [Exports -> {"none", "acquire", "open", "done"}]
    <3>1. conn \in [Exports -> {"none", "acquire", "open", "done"}]
      BY DEF TypeOK
    <3>2. conn' = conn \/ conn' = [conn EXCEPT ![e] = "done"]
      BY <1>19, ZenonT(30) DEF HangUp, Stop, Set
    <3>. QED  BY <3>1, <3>2
  <2>6. UNCHANGED <<rows, asked, cdr_ids, result, cursor, qhand, rowq, worker, first, held, got, page>>
    BY <1>19 DEF HangUp, query, csv, browser
  <2>. QED  BY <2>1, <2>2, <2>3, <2>4, <2>5, <2>6, ZenonT(60) DEF TypeOK
<1>20. ASSUME NEW p \in Pages, OpenPage(p)  PROVE TypeOK'
  BY <1>20 DEF TypeOK, OpenPage, Set, query, csv, browser, exports
<1>21. ASSUME NEW p \in Pages, PageAcquires(p)  PROVE TypeOK'
  BY <1>21 DEF TypeOK, PageAcquires, Set, query, csv, browser, exports
<1>22. ASSUME NEW p \in Pages, PageAnswers(p)  PROVE TypeOK'
  BY <1>22 DEF TypeOK, PageAnswers, Set, query, csv, browser, exports
<1>23. ASSUME NEW p \in Pages, PageAcquireTimesOut(p)  PROVE TypeOK'
  BY <1>23 DEF TypeOK, PageAcquireTimesOut, Set, query, csv, browser, exports
<1>24. ASSUME NEW p \in Pages, PageTimesOut(p)  PROVE TypeOK'
  BY <1>24 DEF TypeOK, PageTimesOut, Set, query, csv, browser, exports
<1>25. ASSUME NEW p \in Pages, LeavePage(p)  PROVE TypeOK'
  BY <1>25 DEF TypeOK, LeavePage, Set, query, csv, browser, exports
<1>26. ASSUME Clean  PROVE TypeOK'
  BY <1>26 DEF TypeOK, Clean, Set, query, csv, browser, exports
<1>27. ASSUME UNCHANGED vars  PROVE TypeOK'
  BY <1>27 DEF TypeOK, vars, query, csv, browser
<1>. QED
  BY <1>1, <1>2, <1>3, <1>4, <1>5, <1>6, <1>7, <1>8, <1>9, <1>10, <1>11, <1>12, <1>13, <1>14, <1>15, <1>16, <1>17, <1>18, <1>19, <1>20, <1>21, <1>22, <1>23, <1>24, <1>25, <1>26, <1>27
     DEF Next, Handler, Database, Worker, Page

-----------------------------------------------------------------------------
(* After the client of an export has gone, what was read since is still in *)
(* the channel of rows and in the two hands, as long as the worker runs.   *)

Inflight(e) == Len(rowq[e]) + Len(qhand[e]) + Len(held[e])

Winding(e) ==
  client[e] = "gone" =>
    /\ phase[e] \notin {"idle", "resolve", "fetch"}
    /\ QueryOver(e) => cursor[e] <= hung[e] + RowCap + 2
    /\ ~QueryOver(e) /\ worker[e] = "running" => cursor[e] <= hung[e] + Inflight(e)
    /\ ~QueryOver(e) /\ worker[e] # "running" => cursor[e] <= hung[e] + RowCap + 1 + Len(qhand[e])

Hands(e) ==
  /\ Len(qhand[e]) <= 1 /\ Len(held[e]) <= 1
  /\ phase[e] = "streaming" => worker[e] # "none"
  /\ phase[e] # "streaming" => qhand[e] = <<>> /\ rowq[e] = <<>>
  /\ ~QueryOver(e) => Len(rowq[e]) <= RowCap

Sound(e) == Hands(e) /\ Winding(e)

IInv == TypeOK /\ \A e \in Exports : Sound(e)

\* The state of one export.
Mine(e) == <<asked[e], phase[e], cdr_ids[e], result[e], conn[e], cursor[e], qhand[e], rowq[e],
             worker[e], first[e], held[e], csvq[e], client[e], got[e], hung[e]>>

LEMMA Frame ==
  ASSUME NEW e, Sound(e), Mine(e)' = Mine(e)
  PROVE  Sound(e)'
BY DEF Sound, Mine, Hands, Winding, Inflight, QueryOver

\* What TypeOK says of one export.
LEMMA TypeAt ==
  ASSUME TypeOK, NEW e \in Exports
  PROVE  /\ cursor[e] \in Nat /\ hung[e] \in Nat
         /\ qhand[e] \in Seq(Item) /\ rowq[e] \in Seq(Item) /\ held[e] \in Seq(Item)
         /\ Len(qhand[e]) \in Nat /\ Len(rowq[e]) \in Nat /\ Len(held[e]) \in Nat
         /\ phase[e] \in {"idle", "resolve", "fetch", "streaming", "bad_request", "error",
                          "dropped"}
         /\ conn[e] \in {"none", "acquire", "open", "done"}
         /\ worker[e] \in {"none", "running", "done"}
         /\ client[e] \in {"reading", "complete", "aborted", "gone"}
BY DEF TypeOK

\* The numbers that Winding is about.
Numbers(e) ==
  /\ cursor[e] \in Nat /\ hung[e] \in Nat /\ RowCap \in Nat
  /\ Len(qhand[e]) \in Nat /\ Len(rowq[e]) \in Nat /\ Len(held[e]) \in Nat
  /\ qhand[e] = <<>> <=> Len(qhand[e]) = 0
  /\ rowq[e] = <<>> <=> Len(rowq[e]) = 0
  /\ held[e] = <<>> <=> Len(held[e]) = 0
  /\ worker[e] \in {"none", "running", "done"}

LEMMA NumbersAt ==
  ASSUME TypeOK, NEW e \in Exports
  PROVE  Numbers(e)
BY TypeAt, ChannelAssumption DEF Numbers

LEMMA WindAcquire ==
  ASSUME TypeOK, NEW e \in Exports, Acquire(e), Sound(e)
  PROVE  Sound(e)'
<1>1. /\ phase'[e] = phase[e]
      /\ conn'[e] = "open"
      /\ cursor'[e] = cursor[e]
      /\ qhand'[e] = qhand[e]
      /\ rowq'[e] = rowq[e]
      /\ worker'[e] = worker[e]
      /\ held'[e] = held[e]
      /\ client'[e] = client[e]
      /\ hung'[e] = hung[e]
  BY ZenonT(30) DEF TypeOK, Acquire, Set, Stop, query, csv, browser
<1>3. Hands(e)'
  BY <1>1, TypeAt, ChannelAssumption DEF Acquire, Sound, Hands, QueryOver
<1>4. Winding(e)'
  BY <1>1, TypeAt, ChannelAssumption DEF Acquire, Sound, Hands, Winding, Inflight, QueryOver
<1>. QED  BY <1>3, <1>4 DEF Sound

LEMMA WindAcquireTimesOut ==
  ASSUME TypeOK, NEW e \in Exports, AcquireTimesOut(e), Sound(e)
  PROVE  Sound(e)'
<1>1. CASE phase[e] = "streaming"
  <2>1. /\ phase'[e] = phase[e]
        /\ conn'[e] = "done"
        /\ cursor'[e] = cursor[e]
        /\ qhand'[e] = <<RowError>>
        /\ rowq'[e] = rowq[e]
        /\ worker'[e] = worker[e]
        /\ held'[e] = held[e]
        /\ client'[e] = client[e]
        /\ hung'[e] = hung[e]
    BY <1>1, ZenonT(30) DEF TypeOK, AcquireTimesOut, Set, Stop, query, csv, browser
  <2>2. Len(qhand'[e]) = 1
    BY <2>1, TypeAt DEF AcquireTimesOut
  <2>3. Hands(e)'
    BY <1>1, <2>1, <2>2, TypeAt, ChannelAssumption DEF AcquireTimesOut, Sound, Hands, QueryOver
  <2>g. conn[e] = "acquire"
    BY <1>1, Zenon DEF AcquireTimesOut
  <2>n. Numbers(e)
    BY NumbersAt
  <2>p. PICK q, r, h, c, u \in Nat :
          /\ q = Len(qhand[e]) /\ r = Len(rowq[e]) /\ h = Len(held[e])
          /\ c = cursor[e] /\ u = hung[e]
    BY <2>n, Zenon DEF Numbers
  <2>o. /\ q <= 1 /\ h <= 1 /\ RowCap \in Nat
        /\ ~QueryOver(e) => r <= RowCap
        /\ client[e] = "gone" =>
             /\ phase[e] \notin {"idle", "resolve", "fetch"}
             /\ QueryOver(e) => c <= u + RowCap + 2
             /\ ~QueryOver(e) /\ worker[e] = "running" => c <= u + (r + q + h)
             /\ ~QueryOver(e) /\ worker[e] # "running" => c <= u + RowCap + 1 + q
    BY <2>p, <2>n DEF Numbers, Sound, Hands, Winding, Inflight
  <2>z. /\ q = 0 <=> qhand[e] = <<>>
        /\ h = 0 <=> held[e] = <<>>
        /\ r = 0 <=> rowq[e] = <<>>
    BY <2>p, <2>n DEF Numbers
  <2>v. ~QueryOver(e) /\ ~QueryOver(e)'
    BY <1>1, <2>1, <2>g, TypeAt DEF Sound, Hands, QueryOver, AcquireTimesOut
  <2>w. worker'[e] = worker[e]
    BY <2>1
  <2>k. client[e] = "gone" =>
          /\ QueryOver(e)' => c <= u + RowCap + 2
          /\ ~QueryOver(e)' /\ worker'[e] = "running" => c <= u + (r + 1 + h)
          /\ ~QueryOver(e)' /\ worker'[e] # "running" => c <= u + RowCap + 1 + 1
    BY <1>1, <2>o, <2>z, <2>g, <2>w, <2>v
  <2>4. Winding(e)'
    BY <1>1, <2>1, <2>2, <2>g, <2>n, <2>p, <2>o, <2>k DEF Winding, Inflight
  <2>. QED  BY <2>3, <2>4 DEF Sound
<1>2. CASE phase[e] # "streaming"
  <2>1. /\ phase'[e] = "error"
        /\ conn'[e] = "done"
        /\ cursor'[e] = cursor[e]
        /\ qhand'[e] = qhand[e]
        /\ rowq'[e] = rowq[e]
        /\ worker'[e] = worker[e]
        /\ held'[e] = held[e]
        /\ client'[e] = client[e]
        /\ hung'[e] = hung[e]
    BY <1>2, ZenonT(30) DEF TypeOK, AcquireTimesOut, Set, Stop, query, csv, browser
  <2>3. Hands(e)'
    BY <1>2, <2>1, TypeAt, ChannelAssumption DEF AcquireTimesOut, Sound, Hands, QueryOver
  <2>g. conn[e] = "acquire"
    BY <1>2, Zenon DEF AcquireTimesOut
  <2>n. Numbers(e)
    BY NumbersAt
  <2>p. PICK q, r, h, c, u \in Nat :
          /\ q = Len(qhand[e]) /\ r = Len(rowq[e]) /\ h = Len(held[e])
          /\ c = cursor[e] /\ u = hung[e]
    BY <2>n, Zenon DEF Numbers
  <2>o. /\ q <= 1 /\ h <= 1 /\ RowCap \in Nat
        /\ ~QueryOver(e) => r <= RowCap
        /\ client[e] = "gone" =>
             /\ phase[e] \notin {"idle", "resolve", "fetch"}
             /\ QueryOver(e) => c <= u + RowCap + 2
             /\ ~QueryOver(e) /\ worker[e] = "running" => c <= u + (r + q + h)
             /\ ~QueryOver(e) /\ worker[e] # "running" => c <= u + RowCap + 1 + q
    BY <2>p, <2>n DEF Numbers, Sound, Hands, Winding, Inflight
  <2>z. /\ q = 0 <=> qhand[e] = <<>>
        /\ h = 0 <=> held[e] = <<>>
        /\ r = 0 <=> rowq[e] = <<>>
    BY <2>p, <2>n DEF Numbers
  <2>v. ~QueryOver(e) /\ QueryOver(e)'
    BY <1>2, <2>1, <2>g, TypeAt DEF Sound, Hands, QueryOver, AcquireTimesOut
  <2>w. worker'[e] = worker[e]
    BY <2>1
  <2>k. client[e] = "gone" =>
          /\ QueryOver(e)' => c <= u + RowCap + 2
          /\ ~QueryOver(e)' /\ worker'[e] = "running" => c <= u + (r + q + h)
          /\ ~QueryOver(e)' /\ worker'[e] # "running" => c <= u + RowCap + 1 + q
    BY <1>2, <2>o, <2>z, <2>g, <2>w, <2>v
  <2>4. Winding(e)'
    BY <1>2, <2>1, <2>g, <2>n, <2>p, <2>o, <2>k DEF Winding, Inflight
  <2>. QED  BY <2>3, <2>4 DEF Sound
<1>. QED  BY <1>1, <1>2

LEMMA WindGet ==
  ASSUME TypeOK, NEW e \in Exports, Get(e), Sound(e)
  PROVE  Sound(e)'
<1>1. /\ phase'[e] = "streaming"
      /\ conn'[e] = "acquire"
      /\ cursor'[e] = cursor[e]
      /\ qhand'[e] = qhand[e]
      /\ rowq'[e] = rowq[e]
      /\ worker'[e] = "running"
      /\ held'[e] = <<Header>>
      /\ client'[e] = client[e]
      /\ hung'[e] = hung[e]
  BY ZenonT(30) DEF TypeOK, Get, Set, Stop, query, csv, browser
<1>2. Len(held'[e]) = 1
  BY <1>1, TypeAt DEF Get
<1>3. Hands(e)'
  BY <1>1, <1>2, TypeAt, ChannelAssumption DEF Get, Sound, Hands, QueryOver
<1>4. Winding(e)'
  BY <1>1, <1>2, TypeAt, ChannelAssumption DEF Get, Sound, Hands, Winding, Inflight, QueryOver
<1>. QED  BY <1>3, <1>4 DEF Sound

LEMMA WindPost ==
  ASSUME TypeOK, NEW e \in Exports, Post(e), Sound(e)
  PROVE  Sound(e)'
<1>1. CASE phase'[e] = "fetch"
  <2>1. /\ phase'[e] = "fetch"
        /\ conn'[e] = "acquire"
        /\ cursor'[e] = cursor[e]
        /\ qhand'[e] = qhand[e]
        /\ rowq'[e] = rowq[e]
        /\ worker'[e] = worker[e]
        /\ held'[e] = held[e]
        /\ client'[e] = client[e]
        /\ hung'[e] = hung[e]
    BY <1>1, ZenonT(30) DEF TypeOK, Post, Set, Stop, query, csv, browser
  <2>3. Hands(e)'
    BY <1>1, <2>1, TypeAt, ChannelAssumption DEF Post, Sound, Hands, QueryOver
  <2>4. Winding(e)'
    BY <1>1, <2>1, TypeAt, ChannelAssumption DEF Post, Sound, Hands, Winding, Inflight, QueryOver
  <2>. QED  BY <2>3, <2>4 DEF Sound
<1>2. CASE phase'[e] = "resolve"
  <2>1. /\ phase'[e] = "resolve"
        /\ conn'[e] = "acquire"
        /\ cursor'[e] = cursor[e]
        /\ qhand'[e] = qhand[e]
        /\ rowq'[e] = rowq[e]
        /\ worker'[e] = worker[e]
        /\ held'[e] = held[e]
        /\ client'[e] = client[e]
        /\ hung'[e] = hung[e]
    BY <1>2, ZenonT(30) DEF TypeOK, Post, Set, Stop, query, csv, browser
  <2>3. Hands(e)'
    BY <1>2, <2>1, TypeAt, ChannelAssumption DEF Post, Sound, Hands, QueryOver
  <2>4. Winding(e)'
    BY <1>2, <2>1, TypeAt, ChannelAssumption DEF Post, Sound, Hands, Winding, Inflight, QueryOver
  <2>. QED  BY <2>3, <2>4 DEF Sound
<1>3. CASE phase'[e] = "bad_request"
  <2>1. /\ phase'[e] = "bad_request"
        /\ conn'[e] = conn[e]
        /\ cursor'[e] = cursor[e]
        /\ qhand'[e] = qhand[e]
        /\ rowq'[e] = rowq[e]
        /\ worker'[e] = worker[e]
        /\ held'[e] = held[e]
        /\ client'[e] = client[e]
        /\ hung'[e] = hung[e]
    BY <1>3, ZenonT(30) DEF TypeOK, Post, Set, Stop, query, csv, browser
  <2>3. Hands(e)'
    BY <1>3, <2>1, TypeAt, ChannelAssumption DEF Post, Sound, Hands, QueryOver
  <2>4. Winding(e)'
    BY <1>3, <2>1, TypeAt, ChannelAssumption DEF Post, Sound, Hands, Winding, Inflight, QueryOver
  <2>. QED  BY <2>3, <2>4 DEF Sound
<1>. QED  BY <1>1, <1>2, <1>3 DEF TypeOK, Post, Set

LEMMA WindResolve ==
  ASSUME TypeOK, NEW e \in Exports, Resolve(e), Sound(e)
  PROVE  Sound(e)'
<1>1. CASE Matching(asked[e]) = <<>>
  <2>1. /\ phase'[e] = "bad_request"
        /\ conn'[e] = "done"
        /\ cursor'[e] = cursor[e]
        /\ qhand'[e] = qhand[e]
        /\ rowq'[e] = rowq[e]
        /\ worker'[e] = worker[e]
        /\ held'[e] = held[e]
        /\ client'[e] = client[e]
        /\ hung'[e] = hung[e]
    BY <1>1, ZenonT(30) DEF TypeOK, Resolve, Set, Stop, query, csv, browser
  <2>3. Hands(e)'
    BY <1>1, <2>1, TypeAt, ChannelAssumption DEF Resolve, Sound, Hands, QueryOver
  <2>4. Winding(e)'
    BY <1>1, <2>1, TypeAt, ChannelAssumption DEF Resolve, Sound, Hands, Winding, Inflight, QueryOver
  <2>. QED  BY <2>3, <2>4 DEF Sound
<1>2. CASE Matching(asked[e]) # <<>>
  <2>1. /\ phase'[e] = "fetch"
        /\ conn'[e] = "acquire"
        /\ cursor'[e] = cursor[e]
        /\ qhand'[e] = qhand[e]
        /\ rowq'[e] = rowq[e]
        /\ worker'[e] = worker[e]
        /\ held'[e] = held[e]
        /\ client'[e] = client[e]
        /\ hung'[e] = hung[e]
    BY <1>2, ZenonT(30) DEF TypeOK, Resolve, Set, Stop, query, csv, browser
  <2>3. Hands(e)'
    BY <1>2, <2>1, TypeAt, ChannelAssumption DEF Resolve, Sound, Hands, QueryOver
  <2>4. Winding(e)'
    BY <1>2, <2>1, TypeAt, ChannelAssumption DEF Resolve, Sound, Hands, Winding, Inflight, QueryOver
  <2>. QED  BY <2>3, <2>4 DEF Sound
<1>. QED  BY <1>1, <1>2

LEMMA WindFetch ==
  ASSUME TypeOK, NEW e \in Exports, Fetch(e), Sound(e)
  PROVE  Sound(e)'
<1>1. CASE Present(cdr_ids[e]) = <<>>
  <2>1. /\ phase'[e] = "bad_request"
        /\ conn'[e] = "done"
        /\ cursor'[e] = cursor[e]
        /\ qhand'[e] = qhand[e]
        /\ rowq'[e] = rowq[e]
        /\ worker'[e] = worker[e]
        /\ held'[e] = held[e]
        /\ client'[e] = client[e]
        /\ hung'[e] = hung[e]
    BY <1>1, ZenonT(30) DEF TypeOK, Fetch, Set, Stop, query, csv, browser
  <2>3. Hands(e)'
    BY <1>1, <2>1, TypeAt, ChannelAssumption DEF Fetch, Sound, Hands, QueryOver
  <2>4. Winding(e)'
    BY <1>1, <2>1, TypeAt, ChannelAssumption DEF Fetch, Sound, Hands, Winding, Inflight, QueryOver
  <2>. QED  BY <2>3, <2>4 DEF Sound
<1>2. CASE Present(cdr_ids[e]) # <<>>
  <2>1. /\ phase'[e] = "streaming"
        /\ conn'[e] = "done"
        /\ cursor'[e] = Len(Present(cdr_ids[e]))
        /\ qhand'[e] = qhand[e]
        /\ rowq'[e] = Present(cdr_ids[e])
        /\ worker'[e] = "running"
        /\ held'[e] = <<Header>>
        /\ client'[e] = client[e]
        /\ hung'[e] = hung[e]
    BY <1>2, ZenonT(30) DEF TypeOK, Fetch, Set, Stop, query, csv, browser
  <2>2. Len(held'[e]) = 1
    BY <2>1, TypeAt DEF Fetch
  <2>3. Hands(e)'
    BY <1>2, <2>1, <2>2, TypeAt, ChannelAssumption DEF Fetch, Sound, Hands, QueryOver
  <2>4. Winding(e)'
    BY <1>2, <2>1, <2>2, TypeAt, ChannelAssumption DEF Fetch, Sound, Hands, Winding, Inflight, QueryOver
  <2>. QED  BY <2>3, <2>4 DEF Sound
<1>. QED  BY <1>1, <1>2

LEMMA WindPostFails ==
  ASSUME TypeOK, NEW e \in Exports, PostFails(e), Sound(e)
  PROVE  Sound(e)'
<1>1. /\ phase'[e] = "error"
      /\ conn'[e] = "done"
      /\ cursor'[e] = cursor[e]
      /\ qhand'[e] = qhand[e]
      /\ rowq'[e] = rowq[e]
      /\ worker'[e] = worker[e]
      /\ held'[e] = held[e]
      /\ client'[e] = client[e]
      /\ hung'[e] = hung[e]
  BY ZenonT(30) DEF TypeOK, PostFails, Set, Stop, query, csv, browser
<1>3. Hands(e)'
  BY <1>1, TypeAt, ChannelAssumption DEF PostFails, Sound, Hands, QueryOver
<1>4. Winding(e)'
  BY <1>1, TypeAt, ChannelAssumption DEF PostFails, Sound, Hands, Winding, Inflight, QueryOver
<1>. QED  BY <1>3, <1>4 DEF Sound

LEMMA WindExecute ==
  ASSUME TypeOK, NEW e \in Exports, Execute(e), Sound(e)
  PROVE  Sound(e)'
<1>1. /\ phase'[e] = phase[e]
      /\ conn'[e] = conn[e]
      /\ cursor'[e] = cursor[e]
      /\ qhand'[e] = qhand[e]
      /\ rowq'[e] = rowq[e]
      /\ worker'[e] = worker[e]
      /\ held'[e] = held[e]
      /\ client'[e] = client[e]
      /\ hung'[e] = hung[e]
  BY ZenonT(30) DEF TypeOK, Execute, Set, Stop, query, csv, browser
<1>3. Hands(e)'
  BY <1>1, TypeAt, ChannelAssumption DEF Execute, Streaming, Sound, Hands, QueryOver
<1>4. Winding(e)'
  BY <1>1, TypeAt, ChannelAssumption DEF Execute, Streaming, Sound, Hands, Winding, Inflight, QueryOver
<1>. QED  BY <1>3, <1>4 DEF Sound

LEMMA WindNextRow ==
  ASSUME TypeOK, NEW e \in Exports, NextRow(e), Sound(e)
  PROVE  Sound(e)'
<1>1. /\ phase'[e] = phase[e]
      /\ conn'[e] = conn[e]
      /\ cursor'[e] = cursor[e] + 1
      /\ qhand'[e] = <<result[e][cursor[e] + 1]>>
      /\ rowq'[e] = rowq[e]
      /\ worker'[e] = worker[e]
      /\ held'[e] = held[e]
      /\ client'[e] = client[e]
      /\ hung'[e] = hung[e]
  BY ZenonT(30) DEF TypeOK, NextRow, Set, Stop, query, csv, browser
<1>2. Len(qhand'[e]) = 1
  BY <1>1, TypeAt DEF NextRow
<1>3. Hands(e)'
  BY <1>1, <1>2, TypeAt, ChannelAssumption DEF NextRow, Streaming, Sound, Hands, QueryOver
<1>g. conn[e] = "open" /\ qhand[e] = <<>>
  BY Zenon DEF NextRow, Streaming
<1>n. Numbers(e)
  BY NumbersAt
<1>p. PICK q, r, h, c, u \in Nat :
        /\ q = Len(qhand[e]) /\ r = Len(rowq[e]) /\ h = Len(held[e])
        /\ c = cursor[e] /\ u = hung[e]
  BY <1>n, Zenon DEF Numbers
<1>o. /\ q <= 1 /\ h <= 1 /\ RowCap \in Nat
      /\ ~QueryOver(e) => r <= RowCap
      /\ client[e] = "gone" =>
           /\ phase[e] \notin {"idle", "resolve", "fetch"}
           /\ QueryOver(e) => c <= u + RowCap + 2
           /\ ~QueryOver(e) /\ worker[e] = "running" => c <= u + (r + q + h)
           /\ ~QueryOver(e) /\ worker[e] # "running" => c <= u + RowCap + 1 + q
  BY <1>p, <1>n DEF Numbers, Sound, Hands, Winding, Inflight
<1>z. /\ q = 0 <=> qhand[e] = <<>>
      /\ h = 0 <=> held[e] = <<>>
      /\ r = 0 <=> rowq[e] = <<>>
  BY <1>p, <1>n DEF Numbers
<1>v. ~QueryOver(e) /\ ~QueryOver(e)'
  BY <1>1, <1>g, TypeAt DEF Sound, Hands, QueryOver, NextRow, Streaming
<1>w. worker'[e] = worker[e]
  BY <1>1
<1>k. client[e] = "gone" =>
        /\ QueryOver(e)' => c + 1 <= u + RowCap + 2
        /\ ~QueryOver(e)' /\ worker'[e] = "running" => c + 1 <= u + (r + 1 + h)
        /\ ~QueryOver(e)' /\ worker'[e] # "running" => c + 1 <= u + RowCap + 1 + 1
  BY <1>o, <1>z, <1>g, <1>w, <1>v
<1>4. Winding(e)'
  BY <1>1, <1>2, <1>g, <1>n, <1>p, <1>o, <1>k DEF Winding, Inflight
<1>. QED  BY <1>3, <1>4 DEF Sound

LEMMA WindDbError ==
  ASSUME TypeOK, NEW e \in Exports, DbError(e), Sound(e)
  PROVE  Sound(e)'
<1>1. /\ phase'[e] = phase[e]
      /\ conn'[e] = conn[e]
      /\ cursor'[e] = cursor[e]
      /\ qhand'[e] = <<RowError>>
      /\ rowq'[e] = rowq[e]
      /\ worker'[e] = worker[e]
      /\ held'[e] = held[e]
      /\ client'[e] = client[e]
      /\ hung'[e] = hung[e]
  BY ZenonT(30) DEF TypeOK, DbError, Set, Stop, query, csv, browser
<1>2. Len(qhand'[e]) = 1
  BY <1>1, TypeAt DEF DbError
<1>3. Hands(e)'
  BY <1>1, <1>2, TypeAt, ChannelAssumption DEF DbError, Streaming, Sound, Hands, QueryOver
<1>g. conn[e] = "open" /\ qhand[e] = <<>>
  BY Zenon DEF DbError, Streaming
<1>n. Numbers(e)
  BY NumbersAt
<1>p. PICK q, r, h, c, u \in Nat :
        /\ q = Len(qhand[e]) /\ r = Len(rowq[e]) /\ h = Len(held[e])
        /\ c = cursor[e] /\ u = hung[e]
  BY <1>n, Zenon DEF Numbers
<1>o. /\ q <= 1 /\ h <= 1 /\ RowCap \in Nat
      /\ ~QueryOver(e) => r <= RowCap
      /\ client[e] = "gone" =>
           /\ phase[e] \notin {"idle", "resolve", "fetch"}
           /\ QueryOver(e) => c <= u + RowCap + 2
           /\ ~QueryOver(e) /\ worker[e] = "running" => c <= u + (r + q + h)
           /\ ~QueryOver(e) /\ worker[e] # "running" => c <= u + RowCap + 1 + q
  BY <1>p, <1>n DEF Numbers, Sound, Hands, Winding, Inflight
<1>z. /\ q = 0 <=> qhand[e] = <<>>
      /\ h = 0 <=> held[e] = <<>>
      /\ r = 0 <=> rowq[e] = <<>>
  BY <1>p, <1>n DEF Numbers
<1>v. ~QueryOver(e) /\ ~QueryOver(e)'
  BY <1>1, <1>g, TypeAt DEF Sound, Hands, QueryOver, DbError, Streaming
<1>w. worker'[e] = worker[e]
  BY <1>1
<1>k. client[e] = "gone" =>
        /\ QueryOver(e)' => c <= u + RowCap + 2
        /\ ~QueryOver(e)' /\ worker'[e] = "running" => c <= u + (r + 1 + h)
        /\ ~QueryOver(e)' /\ worker'[e] # "running" => c <= u + RowCap + 1 + 1
  BY <1>o, <1>z, <1>g, <1>w, <1>v
<1>4. Winding(e)'
  BY <1>1, <1>2, <1>g, <1>n, <1>p, <1>o, <1>k DEF Winding, Inflight
<1>. QED  BY <1>3, <1>4 DEF Sound

LEMMA WindEndOfRows ==
  ASSUME TypeOK, NEW e \in Exports, EndOfRows(e), Sound(e)
  PROVE  Sound(e)'
<1>1. /\ phase'[e] = phase[e]
      /\ conn'[e] = "done"
      /\ cursor'[e] = cursor[e]
      /\ qhand'[e] = qhand[e]
      /\ rowq'[e] = rowq[e]
      /\ worker'[e] = worker[e]
      /\ held'[e] = held[e]
      /\ client'[e] = client[e]
      /\ hung'[e] = hung[e]
  BY ZenonT(30) DEF TypeOK, EndOfRows, Set, Stop, query, csv, browser
<1>3. Hands(e)'
  BY <1>1, TypeAt, ChannelAssumption DEF EndOfRows, Streaming, Sound, Hands, QueryOver
<1>g. conn[e] = "open" /\ qhand[e] = <<>>
  BY Zenon DEF EndOfRows, Streaming
<1>n. Numbers(e)
  BY NumbersAt
<1>p. PICK q, r, h, c, u \in Nat :
        /\ q = Len(qhand[e]) /\ r = Len(rowq[e]) /\ h = Len(held[e])
        /\ c = cursor[e] /\ u = hung[e]
  BY <1>n, Zenon DEF Numbers
<1>o. /\ q <= 1 /\ h <= 1 /\ RowCap \in Nat
      /\ ~QueryOver(e) => r <= RowCap
      /\ client[e] = "gone" =>
           /\ phase[e] \notin {"idle", "resolve", "fetch"}
           /\ QueryOver(e) => c <= u + RowCap + 2
           /\ ~QueryOver(e) /\ worker[e] = "running" => c <= u + (r + q + h)
           /\ ~QueryOver(e) /\ worker[e] # "running" => c <= u + RowCap + 1 + q
  BY <1>p, <1>n DEF Numbers, Sound, Hands, Winding, Inflight
<1>z. /\ q = 0 <=> qhand[e] = <<>>
      /\ h = 0 <=> held[e] = <<>>
      /\ r = 0 <=> rowq[e] = <<>>
  BY <1>p, <1>n DEF Numbers
<1>v. ~QueryOver(e) /\ QueryOver(e)'
  BY <1>1, <1>g, TypeAt DEF Sound, Hands, QueryOver, EndOfRows, Streaming
<1>w. worker'[e] = worker[e]
  BY <1>1
<1>k. client[e] = "gone" =>
        /\ QueryOver(e)' => c <= u + RowCap + 2
        /\ ~QueryOver(e)' /\ worker'[e] = "running" => c <= u + (r + q + h)
        /\ ~QueryOver(e)' /\ worker'[e] # "running" => c <= u + RowCap + 1 + q
  BY <1>o, <1>z, <1>g, <1>w, <1>v
<1>4. Winding(e)'
  BY <1>1, <1>g, <1>n, <1>p, <1>o, <1>k DEF Winding, Inflight
<1>. QED  BY <1>3, <1>4 DEF Sound

LEMMA WindSendRow ==
  ASSUME TypeOK, NEW e \in Exports, SendRow(e), Sound(e)
  PROVE  Sound(e)'
<1>1. CASE worker[e] = "done"
  <2>1. /\ phase'[e] = phase[e]
        /\ conn'[e] = "done"
        /\ cursor'[e] = cursor[e]
        /\ qhand'[e] = <<>>
        /\ rowq'[e] = rowq[e]
        /\ worker'[e] = worker[e]
        /\ held'[e] = held[e]
        /\ client'[e] = client[e]
        /\ hung'[e] = hung[e]
    BY <1>1, ZenonT(30) DEF TypeOK, SendRow, Set, Stop, query, csv, browser
  <2>2. Len(qhand'[e]) = 0
    BY <2>1, TypeAt DEF SendRow
  <2>3. Hands(e)'
    BY <1>1, <2>1, <2>2, TypeAt, ChannelAssumption DEF SendRow, Sound, Hands, QueryOver
  <2>g. qhand[e] # <<>> /\ (worker[e] # "done" => Len(rowq[e]) < RowCap)
    BY <1>1, Zenon DEF SendRow
  <2>n. Numbers(e)
    BY NumbersAt
  <2>p. PICK q, r, h, c, u \in Nat :
          /\ q = Len(qhand[e]) /\ r = Len(rowq[e]) /\ h = Len(held[e])
          /\ c = cursor[e] /\ u = hung[e]
    BY <2>n, Zenon DEF Numbers
  <2>o. /\ q <= 1 /\ h <= 1 /\ RowCap \in Nat
        /\ ~QueryOver(e) => r <= RowCap
        /\ client[e] = "gone" =>
             /\ phase[e] \notin {"idle", "resolve", "fetch"}
             /\ QueryOver(e) => c <= u + RowCap + 2
             /\ ~QueryOver(e) /\ worker[e] = "running" => c <= u + (r + q + h)
             /\ ~QueryOver(e) /\ worker[e] # "running" => c <= u + RowCap + 1 + q
    BY <2>p, <2>n DEF Numbers, Sound, Hands, Winding, Inflight
  <2>z. /\ q = 0 <=> qhand[e] = <<>>
        /\ h = 0 <=> held[e] = <<>>
        /\ r = 0 <=> rowq[e] = <<>>
    BY <2>p, <2>n DEF Numbers
  <2>v. ~QueryOver(e) /\ QueryOver(e)'
    BY <1>1, <2>1, <2>g, TypeAt DEF Sound, Hands, QueryOver, SendRow
  <2>w. worker'[e] = worker[e]
    BY <2>1
  <2>k. client[e] = "gone" =>
          /\ QueryOver(e)' => c <= u + RowCap + 2
          /\ ~QueryOver(e)' /\ worker'[e] = "running" => c <= u + (r + 0 + h)
          /\ ~QueryOver(e)' /\ worker'[e] # "running" => c <= u + RowCap + 1 + 0
    BY <1>1, <2>o, <2>z, <2>g, <2>w, <2>v
  <2>4. Winding(e)'
    BY <1>1, <2>1, <2>2, <2>g, <2>n, <2>p, <2>o, <2>k DEF Winding, Inflight
  <2>. QED  BY <2>3, <2>4 DEF Sound
<1>2. CASE worker[e] # "done" /\ Head(qhand[e]) = RowError
  <2>1. /\ phase'[e] = phase[e]
        /\ conn'[e] = "done"
        /\ cursor'[e] = cursor[e]
        /\ qhand'[e] = <<>>
        /\ rowq'[e] = Append(rowq[e], Head(qhand[e]))
        /\ worker'[e] = worker[e]
        /\ held'[e] = held[e]
        /\ client'[e] = client[e]
        /\ hung'[e] = hung[e]
    BY <1>2, ZenonT(30) DEF TypeOK, SendRow, Set, Stop, query, csv, browser
  <2>2. Len(qhand'[e]) = 0 /\ Len(rowq'[e]) = Len(rowq[e]) + 1
    BY <2>1, TypeAt DEF SendRow
  <2>3. Hands(e)'
    BY <1>2, <2>1, <2>2, TypeAt, ChannelAssumption DEF SendRow, Sound, Hands, QueryOver
  <2>g. qhand[e] # <<>> /\ (worker[e] # "done" => Len(rowq[e]) < RowCap)
    BY <1>2, Zenon DEF SendRow
  <2>n. Numbers(e)
    BY NumbersAt
  <2>p. PICK q, r, h, c, u \in Nat :
          /\ q = Len(qhand[e]) /\ r = Len(rowq[e]) /\ h = Len(held[e])
          /\ c = cursor[e] /\ u = hung[e]
    BY <2>n, Zenon DEF Numbers
  <2>o. /\ q <= 1 /\ h <= 1 /\ RowCap \in Nat
        /\ ~QueryOver(e) => r <= RowCap
        /\ client[e] = "gone" =>
             /\ phase[e] \notin {"idle", "resolve", "fetch"}
             /\ QueryOver(e) => c <= u + RowCap + 2
             /\ ~QueryOver(e) /\ worker[e] = "running" => c <= u + (r + q + h)
             /\ ~QueryOver(e) /\ worker[e] # "running" => c <= u + RowCap + 1 + q
    BY <2>p, <2>n DEF Numbers, Sound, Hands, Winding, Inflight
  <2>z. /\ q = 0 <=> qhand[e] = <<>>
        /\ h = 0 <=> held[e] = <<>>
        /\ r = 0 <=> rowq[e] = <<>>
    BY <2>p, <2>n DEF Numbers
  <2>v. ~QueryOver(e) /\ QueryOver(e)'
    BY <1>2, <2>1, <2>g, TypeAt DEF Sound, Hands, QueryOver, SendRow
  <2>w. worker'[e] = worker[e]
    BY <2>1
  <2>k. client[e] = "gone" =>
          /\ QueryOver(e)' => c <= u + RowCap + 2
          /\ ~QueryOver(e)' /\ worker'[e] = "running" => c <= u + (r + 1 + 0 + h)
          /\ ~QueryOver(e)' /\ worker'[e] # "running" => c <= u + RowCap + 1 + 0
    BY <1>2, <2>o, <2>z, <2>g, <2>w, <2>v
  <2>4. Winding(e)'
    BY <1>2, <2>1, <2>2, <2>g, <2>n, <2>p, <2>o, <2>k DEF Winding, Inflight
  <2>. QED  BY <2>3, <2>4 DEF Sound
<1>3. CASE worker[e] # "done" /\ Head(qhand[e]) # RowError
  <2>1. /\ phase'[e] = phase[e]
        /\ conn'[e] = conn[e]
        /\ cursor'[e] = cursor[e]
        /\ qhand'[e] = <<>>
        /\ rowq'[e] = Append(rowq[e], Head(qhand[e]))
        /\ worker'[e] = worker[e]
        /\ held'[e] = held[e]
        /\ client'[e] = client[e]
        /\ hung'[e] = hung[e]
    BY <1>3, ZenonT(30) DEF TypeOK, SendRow, Set, Stop, query, csv, browser
  <2>2. Len(qhand'[e]) = 0 /\ Len(rowq'[e]) = Len(rowq[e]) + 1
    BY <2>1, TypeAt DEF SendRow
  <2>3. Hands(e)'
    BY <1>3, <2>1, <2>2, TypeAt, ChannelAssumption DEF SendRow, Sound, Hands, QueryOver
  <2>g. qhand[e] # <<>> /\ (worker[e] # "done" => Len(rowq[e]) < RowCap)
    BY <1>3, Zenon DEF SendRow
  <2>n. Numbers(e)
    BY NumbersAt
  <2>p. PICK q, r, h, c, u \in Nat :
          /\ q = Len(qhand[e]) /\ r = Len(rowq[e]) /\ h = Len(held[e])
          /\ c = cursor[e] /\ u = hung[e]
    BY <2>n, Zenon DEF Numbers
  <2>o. /\ q <= 1 /\ h <= 1 /\ RowCap \in Nat
        /\ ~QueryOver(e) => r <= RowCap
        /\ client[e] = "gone" =>
             /\ phase[e] \notin {"idle", "resolve", "fetch"}
             /\ QueryOver(e) => c <= u + RowCap + 2
             /\ ~QueryOver(e) /\ worker[e] = "running" => c <= u + (r + q + h)
             /\ ~QueryOver(e) /\ worker[e] # "running" => c <= u + RowCap + 1 + q
    BY <2>p, <2>n DEF Numbers, Sound, Hands, Winding, Inflight
  <2>z. /\ q = 0 <=> qhand[e] = <<>>
        /\ h = 0 <=> held[e] = <<>>
        /\ r = 0 <=> rowq[e] = <<>>
    BY <2>p, <2>n DEF Numbers
  <2>v. ~QueryOver(e) /\ worker[e] = "running"
    BY <1>3, <2>1, <2>g, TypeAt DEF Sound, Hands, QueryOver, SendRow
  <2>w. worker'[e] = worker[e]
    BY <2>1
  <2>k. client[e] = "gone" =>
          /\ QueryOver(e)' => c <= u + RowCap + 2
          /\ ~QueryOver(e)' /\ worker'[e] = "running" => c <= u + (r + 1 + 0 + h)
          /\ ~QueryOver(e)' /\ worker'[e] # "running" => c <= u + RowCap + 1 + 0
    BY <1>3, <2>o, <2>z, <2>g, <2>w, <2>v
  <2>4. Winding(e)'
    BY <1>3, <2>1, <2>2, <2>g, <2>n, <2>p, <2>o, <2>k DEF Winding, Inflight
  <2>. QED  BY <2>3, <2>4 DEF Sound
<1>. QED  BY <1>1, <1>2, <1>3

LEMMA WindPush ==
  ASSUME TypeOK, NEW e \in Exports, Push(e), Sound(e)
  PROVE  Sound(e)'
<1>1. CASE client[e] = "gone" \/ Head(held[e]) = Broken
  <2>1. /\ phase'[e] = phase[e]
        /\ conn'[e] = conn[e]
        /\ cursor'[e] = cursor[e]
        /\ qhand'[e] = qhand[e]
        /\ rowq'[e] = <<>>
        /\ worker'[e] = "done"
        /\ held'[e] = <<>>
        /\ client'[e] = client[e]
        /\ hung'[e] = hung[e]
    BY <1>1, ZenonT(30) DEF TypeOK, Push, Set, Stop, query, csv, browser
  <2>2. Len(rowq'[e]) = 0 /\ Len(held'[e]) = 0
    BY <2>1, TypeAt DEF Push
  <2>3. Hands(e)'
    BY <1>1, <2>1, <2>2, TypeAt, ChannelAssumption DEF Push, Running, Sound, Hands, QueryOver
  <2>g. worker[e] = "running" /\ held[e] # <<>>
    BY <1>1, Zenon DEF Push, Running
  <2>n. Numbers(e)
    BY NumbersAt
  <2>p. PICK q, r, h, c, u \in Nat :
          /\ q = Len(qhand[e]) /\ r = Len(rowq[e]) /\ h = Len(held[e])
          /\ c = cursor[e] /\ u = hung[e]
    BY <2>n, Zenon DEF Numbers
  <2>o. /\ q <= 1 /\ h <= 1 /\ RowCap \in Nat
        /\ ~QueryOver(e) => r <= RowCap
        /\ client[e] = "gone" =>
             /\ phase[e] \notin {"idle", "resolve", "fetch"}
             /\ QueryOver(e) => c <= u + RowCap + 2
             /\ ~QueryOver(e) /\ worker[e] = "running" => c <= u + (r + q + h)
             /\ ~QueryOver(e) /\ worker[e] # "running" => c <= u + RowCap + 1 + q
    BY <2>p, <2>n DEF Numbers, Sound, Hands, Winding, Inflight
  <2>z. /\ q = 0 <=> qhand[e] = <<>>
        /\ h = 0 <=> held[e] = <<>>
        /\ r = 0 <=> rowq[e] = <<>>
    BY <2>p, <2>n DEF Numbers
  <2>v. QueryOver(e)' = QueryOver(e)
    BY <1>1, <2>1, <2>g, TypeAt DEF Sound, Hands, QueryOver, Push, Running
  <2>w. worker'[e] = "done"
    BY <2>1
  <2>k. client[e] = "gone" =>
          /\ QueryOver(e)' => c <= u + RowCap + 2
          /\ ~QueryOver(e)' /\ worker'[e] = "running" => c <= u + (0 + q + 0)
          /\ ~QueryOver(e)' /\ worker'[e] # "running" => c <= u + RowCap + 1 + q
    BY <1>1, <2>o, <2>z, <2>g, <2>w, <2>v
  <2>4. Winding(e)'
    BY <1>1, <2>1, <2>2, <2>g, <2>n, <2>p, <2>o, <2>k DEF Winding, Inflight
  <2>. QED  BY <2>3, <2>4 DEF Sound
<1>2. CASE client[e] # "gone" /\ Head(held[e]) # Broken
  <2>1. /\ phase'[e] = phase[e]
        /\ conn'[e] = conn[e]
        /\ cursor'[e] = cursor[e]
        /\ qhand'[e] = qhand[e]
        /\ rowq'[e] = rowq[e]
        /\ worker'[e] = worker[e]
        /\ held'[e] = <<>>
        /\ client'[e] = client[e]
        /\ hung'[e] = hung[e]
    BY <1>2, ZenonT(30) DEF TypeOK, Push, Set, Stop, query, csv, browser
  <2>2. Len(held'[e]) = 0
    BY <2>1, TypeAt DEF Push
  <2>3. Hands(e)'
    BY <1>2, <2>1, <2>2, TypeAt, ChannelAssumption DEF Push, Running, Sound, Hands, QueryOver
  <2>g. worker[e] = "running" /\ held[e] # <<>>
    BY <1>2, Zenon DEF Push, Running
  <2>n. Numbers(e)
    BY NumbersAt
  <2>p. PICK q, r, h, c, u \in Nat :
          /\ q = Len(qhand[e]) /\ r = Len(rowq[e]) /\ h = Len(held[e])
          /\ c = cursor[e] /\ u = hung[e]
    BY <2>n, Zenon DEF Numbers
  <2>o. /\ q <= 1 /\ h <= 1 /\ RowCap \in Nat
        /\ ~QueryOver(e) => r <= RowCap
        /\ client[e] = "gone" =>
             /\ phase[e] \notin {"idle", "resolve", "fetch"}
             /\ QueryOver(e) => c <= u + RowCap + 2
             /\ ~QueryOver(e) /\ worker[e] = "running" => c <= u + (r + q + h)
             /\ ~QueryOver(e) /\ worker[e] # "running" => c <= u + RowCap + 1 + q
    BY <2>p, <2>n DEF Numbers, Sound, Hands, Winding, Inflight
  <2>z. /\ q = 0 <=> qhand[e] = <<>>
        /\ h = 0 <=> held[e] = <<>>
        /\ r = 0 <=> rowq[e] = <<>>
    BY <2>p, <2>n DEF Numbers
  <2>v. QueryOver(e)' = QueryOver(e)
    BY <1>2, <2>1, <2>g, TypeAt DEF Sound, Hands, QueryOver, Push, Running
  <2>w. worker'[e] = worker[e]
    BY <2>1
  <2>k. client[e] = "gone" =>
          /\ QueryOver(e)' => c <= u + RowCap + 2
          /\ ~QueryOver(e)' /\ worker'[e] = "running" => c <= u + (r + q + 0)
          /\ ~QueryOver(e)' /\ worker'[e] # "running" => c <= u + RowCap + 1 + q
    BY <1>2, <2>o, <2>z, <2>g, <2>w, <2>v
  <2>4. Winding(e)'
    BY <1>2, <2>1, <2>2, <2>g, <2>n, <2>p, <2>o, <2>k DEF Winding, Inflight
  <2>. QED  BY <2>3, <2>4 DEF Sound
<1>. QED  BY <1>1, <1>2

LEMMA WindPull ==
  ASSUME TypeOK, NEW e \in Exports, Pull(e), Sound(e)
  PROVE  Sound(e)'
<1>1. CASE Head(rowq[e]) = RowError
  <2>1. /\ phase'[e] = phase[e]
        /\ conn'[e] = conn[e]
        /\ cursor'[e] = cursor[e]
        /\ qhand'[e] = qhand[e]
        /\ rowq'[e] = <<>>
        /\ worker'[e] = "done"
        /\ held'[e] = <<>>
        /\ client'[e] = client[e]
        /\ hung'[e] = hung[e]
    BY <1>1, ZenonT(30) DEF TypeOK, Pull, Set, Stop, query, csv, browser
  <2>2. Len(rowq'[e]) = 0 /\ Len(held'[e]) = 0
    BY <2>1, TypeAt DEF Pull
  <2>3. Hands(e)'
    BY <1>1, <2>1, <2>2, TypeAt, ChannelAssumption DEF Pull, Running, Sound, Hands, QueryOver
  <2>g. worker[e] = "running" /\ held[e] = <<>> /\ rowq[e] # <<>>
    BY <1>1, Zenon DEF Pull, Running
  <2>n. Numbers(e)
    BY NumbersAt
  <2>p. PICK q, r, h, c, u \in Nat :
          /\ q = Len(qhand[e]) /\ r = Len(rowq[e]) /\ h = Len(held[e])
          /\ c = cursor[e] /\ u = hung[e]
    BY <2>n, Zenon DEF Numbers
  <2>o. /\ q <= 1 /\ h <= 1 /\ RowCap \in Nat
        /\ ~QueryOver(e) => r <= RowCap
        /\ client[e] = "gone" =>
             /\ phase[e] \notin {"idle", "resolve", "fetch"}
             /\ QueryOver(e) => c <= u + RowCap + 2
             /\ ~QueryOver(e) /\ worker[e] = "running" => c <= u + (r + q + h)
             /\ ~QueryOver(e) /\ worker[e] # "running" => c <= u + RowCap + 1 + q
    BY <2>p, <2>n DEF Numbers, Sound, Hands, Winding, Inflight
  <2>z. /\ q = 0 <=> qhand[e] = <<>>
        /\ h = 0 <=> held[e] = <<>>
        /\ r = 0 <=> rowq[e] = <<>>
    BY <2>p, <2>n DEF Numbers
  <2>v. QueryOver(e)' = QueryOver(e)
    BY <1>1, <2>1, <2>g, TypeAt DEF Sound, Hands, QueryOver, Pull, Running
  <2>w. worker'[e] = "done"
    BY <2>1
  <2>k. client[e] = "gone" =>
          /\ QueryOver(e)' => c <= u + RowCap + 2
          /\ ~QueryOver(e)' /\ worker'[e] = "running" => c <= u + (0 + q + 0)
          /\ ~QueryOver(e)' /\ worker'[e] # "running" => c <= u + RowCap + 1 + q
    BY <1>1, <2>o, <2>z, <2>g, <2>w, <2>v
  <2>4. Winding(e)'
    BY <1>1, <2>1, <2>2, <2>g, <2>n, <2>p, <2>o, <2>k DEF Winding, Inflight
  <2>. QED  BY <2>3, <2>4 DEF Sound
<1>2. CASE Head(rowq[e]) # RowError
  <2>1. /\ phase'[e] = phase[e]
        /\ conn'[e] = conn[e]
        /\ cursor'[e] = cursor[e]
        /\ qhand'[e] = qhand[e]
        /\ rowq'[e] = Tail(rowq[e])
        /\ worker'[e] = worker[e]
        /\ held'[e] = <<Head(rowq[e])>>
        /\ client'[e] = client[e]
        /\ hung'[e] = hung[e]
    BY <1>2, ZenonT(30) DEF TypeOK, Pull, Set, Stop, query, csv, browser
  <2>2. Len(rowq'[e]) = Len(rowq[e]) - 1 /\ Len(held'[e]) = 1
    BY <2>1, TypeAt DEF Pull
  <2>3. Hands(e)'
    BY <1>2, <2>1, <2>2, TypeAt, ChannelAssumption DEF Pull, Running, Sound, Hands, QueryOver
  <2>g. worker[e] = "running" /\ held[e] = <<>> /\ rowq[e] # <<>>
    BY <1>2, Zenon DEF Pull, Running
  <2>n. Numbers(e)
    BY NumbersAt
  <2>p. PICK q, r, h, c, u \in Nat :
          /\ q = Len(qhand[e]) /\ r = Len(rowq[e]) /\ h = Len(held[e])
          /\ c = cursor[e] /\ u = hung[e]
    BY <2>n, Zenon DEF Numbers
  <2>o. /\ q <= 1 /\ h <= 1 /\ RowCap \in Nat
        /\ ~QueryOver(e) => r <= RowCap
        /\ client[e] = "gone" =>
             /\ phase[e] \notin {"idle", "resolve", "fetch"}
             /\ QueryOver(e) => c <= u + RowCap + 2
             /\ ~QueryOver(e) /\ worker[e] = "running" => c <= u + (r + q + h)
             /\ ~QueryOver(e) /\ worker[e] # "running" => c <= u + RowCap + 1 + q
    BY <2>p, <2>n DEF Numbers, Sound, Hands, Winding, Inflight
  <2>z. /\ q = 0 <=> qhand[e] = <<>>
        /\ h = 0 <=> held[e] = <<>>
        /\ r = 0 <=> rowq[e] = <<>>
    BY <2>p, <2>n DEF Numbers
  <2>v. QueryOver(e)' = QueryOver(e)
    BY <1>2, <2>1, <2>g, TypeAt DEF Sound, Hands, QueryOver, Pull, Running
  <2>w. worker'[e] = worker[e]
    BY <2>1
  <2>k. client[e] = "gone" =>
          /\ QueryOver(e)' => c <= u + RowCap + 2
          /\ ~QueryOver(e)' /\ worker'[e] = "running" => c <= u + (r - 1 + q + 1)
          /\ ~QueryOver(e)' /\ worker'[e] # "running" => c <= u + RowCap + 1 + q
    BY <1>2, <2>o, <2>z, <2>g, <2>w, <2>v
  <2>4. Winding(e)'
    BY <1>2, <2>1, <2>2, <2>g, <2>n, <2>p, <2>o, <2>k DEF Winding, Inflight
  <2>. QED  BY <2>3, <2>4 DEF Sound
<1>. QED  BY <1>1, <1>2

LEMMA WindFirstRowTimesOut ==
  ASSUME TypeOK, NEW e \in Exports, FirstRowTimesOut(e), Sound(e)
  PROVE  Sound(e)'
<1>1. /\ phase'[e] = phase[e]
      /\ conn'[e] = conn[e]
      /\ cursor'[e] = cursor[e]
      /\ qhand'[e] = qhand[e]
      /\ rowq'[e] = rowq[e]
      /\ worker'[e] = worker[e]
      /\ held'[e] = <<Broken>>
      /\ client'[e] = client[e]
      /\ hung'[e] = hung[e]
  BY ZenonT(30) DEF TypeOK, FirstRowTimesOut, Set, Stop, query, csv, browser
<1>2. Len(held'[e]) = 1
  BY <1>1, TypeAt DEF FirstRowTimesOut
<1>3. Hands(e)'
  BY <1>1, <1>2, TypeAt, ChannelAssumption DEF FirstRowTimesOut, Running, Sound, Hands, QueryOver
<1>g. worker[e] = "running" /\ held[e] = <<>>
  BY Zenon DEF FirstRowTimesOut, Running
<1>n. Numbers(e)
  BY NumbersAt
<1>p. PICK q, r, h, c, u \in Nat :
        /\ q = Len(qhand[e]) /\ r = Len(rowq[e]) /\ h = Len(held[e])
        /\ c = cursor[e] /\ u = hung[e]
  BY <1>n, Zenon DEF Numbers
<1>o. /\ q <= 1 /\ h <= 1 /\ RowCap \in Nat
      /\ ~QueryOver(e) => r <= RowCap
      /\ client[e] = "gone" =>
           /\ phase[e] \notin {"idle", "resolve", "fetch"}
           /\ QueryOver(e) => c <= u + RowCap + 2
           /\ ~QueryOver(e) /\ worker[e] = "running" => c <= u + (r + q + h)
           /\ ~QueryOver(e) /\ worker[e] # "running" => c <= u + RowCap + 1 + q
  BY <1>p, <1>n DEF Numbers, Sound, Hands, Winding, Inflight
<1>z. /\ q = 0 <=> qhand[e] = <<>>
      /\ h = 0 <=> held[e] = <<>>
      /\ r = 0 <=> rowq[e] = <<>>
  BY <1>p, <1>n DEF Numbers
<1>v. ~QueryOver(e) /\ ~QueryOver(e)'
  BY <1>1, <1>g, TypeAt DEF Sound, Hands, QueryOver, FirstRowTimesOut, Running
<1>w. worker'[e] = worker[e]
  BY <1>1
<1>k. client[e] = "gone" =>
        /\ QueryOver(e)' => c <= u + RowCap + 2
        /\ ~QueryOver(e)' /\ worker'[e] = "running" => c <= u + (r + q + 1)
        /\ ~QueryOver(e)' /\ worker'[e] # "running" => c <= u + RowCap + 1 + q
  BY <1>o, <1>z, <1>g, <1>w, <1>v
<1>4. Winding(e)'
  BY <1>1, <1>2, <1>g, <1>n, <1>p, <1>o, <1>k DEF Winding, Inflight
<1>. QED  BY <1>3, <1>4 DEF Sound

LEMMA WindNoMoreRows ==
  ASSUME TypeOK, NEW e \in Exports, NoMoreRows(e), Sound(e)
  PROVE  Sound(e)'
<1>1. /\ phase'[e] = phase[e]
      /\ conn'[e] = conn[e]
      /\ cursor'[e] = cursor[e]
      /\ qhand'[e] = qhand[e]
      /\ rowq'[e] = <<>>
      /\ worker'[e] = "done"
      /\ held'[e] = <<>>
      /\ client'[e] = client[e]
      /\ hung'[e] = hung[e]
  BY ZenonT(30) DEF TypeOK, NoMoreRows, Set, Stop, query, csv, browser
<1>2. Len(rowq'[e]) = 0 /\ Len(held'[e]) = 0
  BY <1>1, TypeAt DEF NoMoreRows
<1>3. Hands(e)'
  BY <1>1, <1>2, TypeAt, ChannelAssumption DEF NoMoreRows, Running, Sound, Hands, QueryOver
<1>4. Winding(e)'
  BY <1>1, <1>2, TypeAt, ChannelAssumption DEF NoMoreRows, Running, Sound, Hands, Winding, Inflight, QueryOver
<1>. QED  BY <1>3, <1>4 DEF Sound

LEMMA WindRead ==
  ASSUME TypeOK, NEW e \in Exports, Read(e), Sound(e)
  PROVE  Sound(e)'
<1>1. CASE Head(csvq[e]) = Broken
  <2>1. /\ phase'[e] = phase[e]
        /\ conn'[e] = conn[e]
        /\ cursor'[e] = cursor[e]
        /\ qhand'[e] = qhand[e]
        /\ rowq'[e] = rowq[e]
        /\ worker'[e] = worker[e]
        /\ held'[e] = held[e]
        /\ client'[e] = "aborted"
        /\ hung'[e] = hung[e]
    BY <1>1, ZenonT(30) DEF TypeOK, Read, Set, Stop, query, csv, browser
  <2>3. Hands(e)'
    BY <1>1, <2>1, TypeAt, ChannelAssumption DEF Read, Sound, Hands, QueryOver
  <2>4. Winding(e)'
    BY <1>1, <2>1, TypeAt, ChannelAssumption DEF Read, Sound, Hands, Winding, Inflight, QueryOver
  <2>. QED  BY <2>3, <2>4 DEF Sound
<1>2. CASE Head(csvq[e]) # Broken
  <2>1. /\ phase'[e] = phase[e]
        /\ conn'[e] = conn[e]
        /\ cursor'[e] = cursor[e]
        /\ qhand'[e] = qhand[e]
        /\ rowq'[e] = rowq[e]
        /\ worker'[e] = worker[e]
        /\ held'[e] = held[e]
        /\ client'[e] = client[e]
        /\ hung'[e] = hung[e]
    BY <1>2, ZenonT(30) DEF TypeOK, Read, Set, Stop, query, csv, browser
  <2>3. Hands(e)'
    BY <1>2, <2>1, TypeAt, ChannelAssumption DEF Read, Sound, Hands, QueryOver
  <2>4. Winding(e)'
    BY <1>2, <2>1, TypeAt, ChannelAssumption DEF Read, Sound, Hands, Winding, Inflight, QueryOver
  <2>. QED  BY <2>3, <2>4 DEF Sound
<1>. QED  BY <1>1, <1>2

LEMMA WindSeeEnd ==
  ASSUME TypeOK, NEW e \in Exports, SeeEnd(e), Sound(e)
  PROVE  Sound(e)'
<1>1. /\ phase'[e] = phase[e]
      /\ conn'[e] = conn[e]
      /\ cursor'[e] = cursor[e]
      /\ qhand'[e] = qhand[e]
      /\ rowq'[e] = rowq[e]
      /\ worker'[e] = worker[e]
      /\ held'[e] = held[e]
      /\ client'[e] = "complete"
      /\ hung'[e] = hung[e]
  BY ZenonT(30) DEF TypeOK, SeeEnd, Set, Stop, query, csv, browser
<1>3. Hands(e)'
  BY <1>1, TypeAt, ChannelAssumption DEF SeeEnd, Sound, Hands, QueryOver
<1>4. Winding(e)'
  BY <1>1, TypeAt, ChannelAssumption DEF SeeEnd, Sound, Hands, Winding, Inflight, QueryOver
<1>. QED  BY <1>3, <1>4 DEF Sound

LEMMA WindHangUp ==
  ASSUME TypeOK, NEW e \in Exports, HangUp(e), Sound(e)
  PROVE  Sound(e)'
<1>1. CASE phase[e] = "streaming"
  <2>1. /\ phase'[e] = phase[e]
        /\ conn'[e] = conn[e]
        /\ cursor'[e] = cursor[e]
        /\ qhand'[e] = qhand[e]
        /\ rowq'[e] = rowq[e]
        /\ worker'[e] = worker[e]
        /\ held'[e] = held[e]
        /\ client'[e] = "gone"
        /\ hung'[e] = cursor[e]
    BY <1>1, ZenonT(30) DEF TypeOK, HangUp, Set, Stop, query, csv, browser
  <2>3. Hands(e)'
    BY <1>1, <2>1, TypeAt, ChannelAssumption DEF HangUp, Sound, Hands, QueryOver
  <2>g. phase[e] \in {"resolve", "fetch", "streaming"}
    BY <1>1, Zenon DEF HangUp
  <2>n. Numbers(e)
    BY NumbersAt
  <2>p. PICK q, r, h, c, u \in Nat :
          /\ q = Len(qhand[e]) /\ r = Len(rowq[e]) /\ h = Len(held[e])
          /\ c = cursor[e] /\ u = hung[e]
    BY <2>n, Zenon DEF Numbers
  <2>o. /\ q <= 1 /\ h <= 1 /\ RowCap \in Nat
        /\ ~QueryOver(e) => r <= RowCap
        /\ client[e] = "gone" =>
             /\ phase[e] \notin {"idle", "resolve", "fetch"}
             /\ QueryOver(e) => c <= u + RowCap + 2
             /\ ~QueryOver(e) /\ worker[e] = "running" => c <= u + (r + q + h)
             /\ ~QueryOver(e) /\ worker[e] # "running" => c <= u + RowCap + 1 + q
    BY <2>p, <2>n DEF Numbers, Sound, Hands, Winding, Inflight
  <2>z. /\ q = 0 <=> qhand[e] = <<>>
        /\ h = 0 <=> held[e] = <<>>
        /\ r = 0 <=> rowq[e] = <<>>
    BY <2>p, <2>n DEF Numbers
  <2>v. QueryOver(e)' = QueryOver(e)
    BY <1>1, <2>1, <2>g, TypeAt DEF Sound, Hands, QueryOver, HangUp
  <2>w. worker'[e] = worker[e]
    BY <2>1
  <2>k.
          /\ QueryOver(e)' => c <= c + RowCap + 2
          /\ ~QueryOver(e)' /\ worker'[e] = "running" => c <= c + (r + q + h)
          /\ ~QueryOver(e)' /\ worker'[e] # "running" => c <= c + RowCap + 1 + q
    BY <1>1, <2>o, <2>z, <2>g, <2>w, <2>v
  <2>4. Winding(e)'
    BY <1>1, <2>1, <2>g, <2>n, <2>p, <2>o, <2>k DEF Winding, Inflight
  <2>. QED  BY <2>3, <2>4 DEF Sound
<1>2. CASE phase[e] # "streaming"
  <2>1. /\ phase'[e] = "dropped"
        /\ conn'[e] = "done"
        /\ cursor'[e] = cursor[e]
        /\ qhand'[e] = qhand[e]
        /\ rowq'[e] = rowq[e]
        /\ worker'[e] = worker[e]
        /\ held'[e] = held[e]
        /\ client'[e] = "gone"
        /\ hung'[e] = cursor[e]
    BY <1>2, ZenonT(30) DEF TypeOK, HangUp, Set, Stop, query, csv, browser
  <2>3. Hands(e)'
    BY <1>2, <2>1, TypeAt, ChannelAssumption DEF HangUp, Sound, Hands, QueryOver
  <2>g. phase[e] \in {"resolve", "fetch", "streaming"}
    BY <1>2, Zenon DEF HangUp
  <2>n. Numbers(e)
    BY NumbersAt
  <2>p. PICK q, r, h, c, u \in Nat :
          /\ q = Len(qhand[e]) /\ r = Len(rowq[e]) /\ h = Len(held[e])
          /\ c = cursor[e] /\ u = hung[e]
    BY <2>n, Zenon DEF Numbers
  <2>o. /\ q <= 1 /\ h <= 1 /\ RowCap \in Nat
        /\ ~QueryOver(e) => r <= RowCap
        /\ client[e] = "gone" =>
             /\ phase[e] \notin {"idle", "resolve", "fetch"}
             /\ QueryOver(e) => c <= u + RowCap + 2
             /\ ~QueryOver(e) /\ worker[e] = "running" => c <= u + (r + q + h)
             /\ ~QueryOver(e) /\ worker[e] # "running" => c <= u + RowCap + 1 + q
    BY <2>p, <2>n DEF Numbers, Sound, Hands, Winding, Inflight
  <2>z. /\ q = 0 <=> qhand[e] = <<>>
        /\ h = 0 <=> held[e] = <<>>
        /\ r = 0 <=> rowq[e] = <<>>
    BY <2>p, <2>n DEF Numbers
  <2>v. QueryOver(e)'
    BY <1>2, <2>1, <2>g, TypeAt DEF Sound, Hands, QueryOver, HangUp
  <2>w. worker'[e] = worker[e]
    BY <2>1
  <2>k.
          /\ QueryOver(e)' => c <= c + RowCap + 2
          /\ ~QueryOver(e)' /\ worker'[e] = "running" => c <= c + (r + q + h)
          /\ ~QueryOver(e)' /\ worker'[e] # "running" => c <= c + RowCap + 1 + q
    BY <1>2, <2>o, <2>z, <2>g, <2>w, <2>v
  <2>4. Winding(e)'
    BY <1>2, <2>1, <2>g, <2>n, <2>p, <2>o, <2>k DEF Winding, Inflight
  <2>. QED  BY <2>3, <2>4 DEF Sound
<1>. QED  BY <1>1, <1>2
-----------------------------------------------------------------------------
(* A step of one export leaves the others alone.                           *)

LEMMA AloneAcquire ==
  ASSUME TypeOK, NEW e \in Exports, NEW d \in Exports, d # e, Acquire(e)
  PROVE  Mine(d)' = Mine(d)
BY ZenonT(60) DEF TypeOK, Acquire, Set, Stop, Mine, query, csv, browser

LEMMA AloneAcquireTimesOut ==
  ASSUME TypeOK, NEW e \in Exports, NEW d \in Exports, d # e, AcquireTimesOut(e)
  PROVE  Mine(d)' = Mine(d)
BY ZenonT(60) DEF TypeOK, AcquireTimesOut, Set, Stop, Mine, query, csv, browser

LEMMA AloneGet ==
  ASSUME TypeOK, NEW e \in Exports, NEW d \in Exports, d # e, Get(e)
  PROVE  Mine(d)' = Mine(d)
BY ZenonT(60) DEF TypeOK, Get, Set, Stop, Mine, query, csv, browser

LEMMA AlonePost ==
  ASSUME TypeOK, NEW e \in Exports, NEW d \in Exports, d # e, Post(e)
  PROVE  Mine(d)' = Mine(d)
BY ZenonT(60) DEF TypeOK, Post, Set, Stop, Mine, query, csv, browser

LEMMA AloneResolve ==
  ASSUME TypeOK, NEW e \in Exports, NEW d \in Exports, d # e, Resolve(e)
  PROVE  Mine(d)' = Mine(d)
BY ZenonT(60) DEF TypeOK, Resolve, Set, Stop, Mine, query, csv, browser

LEMMA AloneFetch ==
  ASSUME TypeOK, NEW e \in Exports, NEW d \in Exports, d # e, Fetch(e)
  PROVE  Mine(d)' = Mine(d)
BY ZenonT(60) DEF TypeOK, Fetch, Set, Stop, Mine, query, csv, browser

LEMMA AlonePostFails ==
  ASSUME TypeOK, NEW e \in Exports, NEW d \in Exports, d # e, PostFails(e)
  PROVE  Mine(d)' = Mine(d)
BY ZenonT(60) DEF TypeOK, PostFails, Set, Stop, Mine, query, csv, browser

LEMMA AloneExecute ==
  ASSUME TypeOK, NEW e \in Exports, NEW d \in Exports, d # e, Execute(e)
  PROVE  Mine(d)' = Mine(d)
BY ZenonT(60) DEF TypeOK, Execute, Set, Stop, Mine, query, csv, browser

LEMMA AloneNextRow ==
  ASSUME TypeOK, NEW e \in Exports, NEW d \in Exports, d # e, NextRow(e)
  PROVE  Mine(d)' = Mine(d)
BY ZenonT(60) DEF TypeOK, NextRow, Set, Stop, Mine, query, csv, browser

LEMMA AloneDbError ==
  ASSUME TypeOK, NEW e \in Exports, NEW d \in Exports, d # e, DbError(e)
  PROVE  Mine(d)' = Mine(d)
BY ZenonT(60) DEF TypeOK, DbError, Set, Stop, Mine, query, csv, browser

LEMMA AloneEndOfRows ==
  ASSUME TypeOK, NEW e \in Exports, NEW d \in Exports, d # e, EndOfRows(e)
  PROVE  Mine(d)' = Mine(d)
BY ZenonT(60) DEF TypeOK, EndOfRows, Set, Stop, Mine, query, csv, browser

LEMMA AloneSendRow ==
  ASSUME TypeOK, NEW e \in Exports, NEW d \in Exports, d # e, SendRow(e)
  PROVE  Mine(d)' = Mine(d)
BY ZenonT(60) DEF TypeOK, SendRow, Set, Stop, Mine, query, csv, browser

LEMMA AlonePush ==
  ASSUME TypeOK, NEW e \in Exports, NEW d \in Exports, d # e, Push(e)
  PROVE  Mine(d)' = Mine(d)
BY ZenonT(60) DEF TypeOK, Push, Set, Stop, Mine, query, csv, browser

LEMMA AlonePull ==
  ASSUME TypeOK, NEW e \in Exports, NEW d \in Exports, d # e, Pull(e)
  PROVE  Mine(d)' = Mine(d)
BY ZenonT(60) DEF TypeOK, Pull, Set, Stop, Mine, query, csv, browser

LEMMA AloneFirstRowTimesOut ==
  ASSUME TypeOK, NEW e \in Exports, NEW d \in Exports, d # e, FirstRowTimesOut(e)
  PROVE  Mine(d)' = Mine(d)
BY ZenonT(60) DEF TypeOK, FirstRowTimesOut, Set, Stop, Mine, query, csv, browser

LEMMA AloneNoMoreRows ==
  ASSUME TypeOK, NEW e \in Exports, NEW d \in Exports, d # e, NoMoreRows(e)
  PROVE  Mine(d)' = Mine(d)
BY ZenonT(60) DEF TypeOK, NoMoreRows, Set, Stop, Mine, query, csv, browser

LEMMA AloneRead ==
  ASSUME TypeOK, NEW e \in Exports, NEW d \in Exports, d # e, Read(e)
  PROVE  Mine(d)' = Mine(d)
BY ZenonT(60) DEF TypeOK, Read, Set, Stop, Mine, query, csv, browser

LEMMA AloneSeeEnd ==
  ASSUME TypeOK, NEW e \in Exports, NEW d \in Exports, d # e, SeeEnd(e)
  PROVE  Mine(d)' = Mine(d)
BY ZenonT(60) DEF TypeOK, SeeEnd, Set, Stop, Mine, query, csv, browser

LEMMA AloneHangUp ==
  ASSUME TypeOK, NEW e \in Exports, NEW d \in Exports, d # e, HangUp(e)
  PROVE  Mine(d)' = Mine(d)
BY ZenonT(60) DEF TypeOK, HangUp, Set, Stop, Mine, query, csv, browser

THEOREM WindInit == Init => IInv
<1>. SUFFICES ASSUME Init PROVE IInv
  OBVIOUS
<1>1. TypeOK
  BY TypeInit
<1>2. ASSUME NEW e \in Exports PROVE Sound(e)
  <2>1. /\ phase[e] = "idle" /\ qhand[e] = <<>> /\ rowq[e] = <<>> /\ held[e] = <<>>
        /\ client[e] = "reading"
    BY Zenon DEF Init
  <2>2. Hands(e)
    BY <2>1, ChannelAssumption DEF Hands
  <2>3. Winding(e)
    BY <2>1 DEF Winding
  <2>. QED  BY <2>2, <2>3 DEF Sound
<1>. QED  BY <1>1, <1>2 DEF IInv

THEOREM WindStep == IInv /\ [Next]_vars => IInv'
<1>. SUFFICES ASSUME IInv, [Next]_vars PROVE IInv'
  OBVIOUS
<1>1. TypeOK /\ TypeOK'
  BY TypeStep DEF IInv
<1>2. \A e \in Exports : Sound(e)
  BY DEF IInv
<1>3. ASSUME NEW e \in Exports, Acquire(e) PROVE \A d \in Exports : Sound(d)'
  BY <1>1, <1>2, <1>3, WindAcquire, AloneAcquire, Frame
<1>4. ASSUME NEW e \in Exports, AcquireTimesOut(e) PROVE \A d \in Exports : Sound(d)'
  BY <1>1, <1>2, <1>4, WindAcquireTimesOut, AloneAcquireTimesOut, Frame
<1>5. ASSUME NEW e \in Exports, Get(e) PROVE \A d \in Exports : Sound(d)'
  BY <1>1, <1>2, <1>5, WindGet, AloneGet, Frame
<1>6. ASSUME NEW e \in Exports, Post(e) PROVE \A d \in Exports : Sound(d)'
  BY <1>1, <1>2, <1>6, WindPost, AlonePost, Frame
<1>7. ASSUME NEW e \in Exports, Resolve(e) PROVE \A d \in Exports : Sound(d)'
  BY <1>1, <1>2, <1>7, WindResolve, AloneResolve, Frame
<1>8. ASSUME NEW e \in Exports, Fetch(e) PROVE \A d \in Exports : Sound(d)'
  BY <1>1, <1>2, <1>8, WindFetch, AloneFetch, Frame
<1>9. ASSUME NEW e \in Exports, PostFails(e) PROVE \A d \in Exports : Sound(d)'
  BY <1>1, <1>2, <1>9, WindPostFails, AlonePostFails, Frame
<1>10. ASSUME NEW e \in Exports, Execute(e) PROVE \A d \in Exports : Sound(d)'
  BY <1>1, <1>2, <1>10, WindExecute, AloneExecute, Frame
<1>11. ASSUME NEW e \in Exports, NextRow(e) PROVE \A d \in Exports : Sound(d)'
  BY <1>1, <1>2, <1>11, WindNextRow, AloneNextRow, Frame
<1>12. ASSUME NEW e \in Exports, DbError(e) PROVE \A d \in Exports : Sound(d)'
  BY <1>1, <1>2, <1>12, WindDbError, AloneDbError, Frame
<1>13. ASSUME NEW e \in Exports, EndOfRows(e) PROVE \A d \in Exports : Sound(d)'
  BY <1>1, <1>2, <1>13, WindEndOfRows, AloneEndOfRows, Frame
<1>14. ASSUME NEW e \in Exports, SendRow(e) PROVE \A d \in Exports : Sound(d)'
  BY <1>1, <1>2, <1>14, WindSendRow, AloneSendRow, Frame
<1>15. ASSUME NEW e \in Exports, Push(e) PROVE \A d \in Exports : Sound(d)'
  BY <1>1, <1>2, <1>15, WindPush, AlonePush, Frame
<1>16. ASSUME NEW e \in Exports, Pull(e) PROVE \A d \in Exports : Sound(d)'
  BY <1>1, <1>2, <1>16, WindPull, AlonePull, Frame
<1>17. ASSUME NEW e \in Exports, FirstRowTimesOut(e) PROVE \A d \in Exports : Sound(d)'
  BY <1>1, <1>2, <1>17, WindFirstRowTimesOut, AloneFirstRowTimesOut, Frame
<1>18. ASSUME NEW e \in Exports, NoMoreRows(e) PROVE \A d \in Exports : Sound(d)'
  BY <1>1, <1>2, <1>18, WindNoMoreRows, AloneNoMoreRows, Frame
<1>19. ASSUME NEW e \in Exports, Read(e) PROVE \A d \in Exports : Sound(d)'
  BY <1>1, <1>2, <1>19, WindRead, AloneRead, Frame
<1>20. ASSUME NEW e \in Exports, SeeEnd(e) PROVE \A d \in Exports : Sound(d)'
  BY <1>1, <1>2, <1>20, WindSeeEnd, AloneSeeEnd, Frame
<1>21. ASSUME NEW e \in Exports, HangUp(e) PROVE \A d \in Exports : Sound(d)'
  BY <1>1, <1>2, <1>21, WindHangUp, AloneHangUp, Frame
<1>22. ASSUME UNCHANGED exports PROVE \A d \in Exports : Sound(d)'
  <2>1. ASSUME NEW d \in Exports PROVE Mine(d)' = Mine(d)
    BY <1>22 DEF exports, query, csv, browser, Mine
  <2>. QED  BY <1>2, <2>1, Frame
<1>23. (\E p \in Pages : Page(p)) \/ Clean \/ UNCHANGED vars => UNCHANGED exports
  BY DEF Page, OpenPage, PageAcquires, PageAnswers, PageAcquireTimesOut, PageTimesOut, LeavePage,
         Clean, vars, exports, query, csv, browser
<1>24. \A d \in Exports : Sound(d)'
  BY <1>3, <1>4, <1>5, <1>6, <1>7, <1>8, <1>9, <1>10, <1>11, <1>12, <1>13, <1>14, <1>15, <1>16, <1>17, <1>18, <1>19, <1>20, <1>21, <1>22, <1>23, Zenon DEF Next, Handler, Database, Worker
<1>. QED  BY <1>1, <1>24 DEF IInv

THEOREM WindStops == IInv => StopsForTheGone
<1>. SUFFICES ASSUME IInv, NEW e \in Exports, client[e] = "gone"
              PROVE  cursor[e] <= hung[e] + RowCap + 2
  BY DEF StopsForTheGone
<1>1. Hands(e) /\ Winding(e) /\ Numbers(e)
  BY NumbersAt DEF IInv, Sound
<1>2. PICK q, r, h, c, u \in Nat :
        /\ q = Len(qhand[e]) /\ r = Len(rowq[e]) /\ h = Len(held[e])
        /\ c = cursor[e] /\ u = hung[e]
  BY <1>1, Zenon DEF Numbers
<1>3. /\ q <= 1 /\ h <= 1 /\ RowCap \in Nat
      /\ ~QueryOver(e) => r <= RowCap
      /\ QueryOver(e) => c <= u + RowCap + 2
      /\ ~QueryOver(e) /\ worker[e] = "running" => c <= u + (r + q + h)
      /\ ~QueryOver(e) /\ worker[e] # "running" => c <= u + RowCap + 1 + q
  BY <1>1, <1>2 DEF Numbers, Hands, Winding, Inflight
<1>4. c <= u + RowCap + 2
  BY <1>3
<1>. QED  BY <1>2, <1>4

-----------------------------------------------------------------------------

\* Every state of the exports and of the pool is well typed, for any channels,
\* requests and number of connections.
THEOREM TypeCorrect == Spec => []TypeOK
<1>. QED  BY TypeInit, TypeStep, PTL DEF Spec

\* An export whose client has gone stops reading from the database after what
\* still fits in its channel and its hands, however large its result.
THEOREM StopsSoon == Spec => []StopsForTheGone
<1>. QED  BY WindInit, WindStep, WindStops, PTL DEF Spec

-----------------------------------------------------------------------------
(* What an export puts on the wire has numbered slots: the header is 1,    *)
(* the k-th row of its result k + 1.  The client, the body, the worker's   *)
(* hand, the channel of rows and the query task's hand hold consecutive    *)
(* slots, up to the last that was read from the database (Lined).  It is a *)
(* predicate of values: of the result `res`, the number n of slots read,   *)
(* whether the query is over, what the client got, the channels c and q,   *)
(* the hands h and t, the worker and client.                               *)

Slot(res, k) == IF k = 1 THEN Header ELSE res[k - 1]

\* s holds the slots after `from`, none of them after n.
Fits(res, n, s, from) == \A k \in 1..Len(s) : from + k <= n /\ s[k] = Slot(res, from + k)

\* What the client got: slots, perhaps cut off.
Received(res, n, g) ==
  \A k \in 1..Len(g) : \/ g[k] = Broken /\ k = Len(g)
                       \/ k <= n /\ g[k] = Slot(res, k)

\* The body is cut off.
Cut(c) == Len(c) > 0 /\ c[Len(c)] = Broken

\* The body: slots, then perhaps the cut.
Sent(res, n, c, from, w) ==
  \A k \in 1..Len(c) : \/ c[k] = Broken /\ k = Len(c) /\ w = "done"
                       \/ from + k <= n /\ c[k] = Slot(res, from + k)

\* The rows: up to the last read, and then perhaps the error, in the hand of
\* the query task or in the channel.
Flow(res, n, over, q, t, from) ==
  \/ /\ Fits(res, n, q, from)
     /\ \/ t = <<>> /\ from + Len(q) = n
        \/ t = <<RowError>> /\ from + Len(q) = n /\ ~over
        \/ Len(t) = 1 /\ t[1] = Slot(res, n) /\ from + Len(q) + 1 = n /\ ~over
  \/ /\ over /\ t = <<>>
     /\ Len(q) > 0 /\ q[Len(q)] = RowError /\ from + Len(q) = n + 1
     /\ \A k \in 1..(Len(q) - 1) : q[k] = Slot(res, from + k)

Lined(res, n, over, g, c, h, q, t, w, cl) ==
  /\ Received(res, n, g)
  /\ cl = "complete" => Len(g) = n /\ over
  /\ w = "none" => /\ n = 1 /\ g = <<>> /\ c = <<>> /\ h = <<>> /\ q = <<>> /\ t = <<>>
                   /\ cl \in {"reading", "gone"}
  /\ cl = "reading" =>
       /\ Fits(res, n, g, 0)
       /\ Sent(res, n, c, Len(g), w)
       /\ w = "done" => Cut(c) \/ (Len(g) + Len(c) = n /\ over)
       /\ w = "running" => \/ h = <<Broken>>
                           \/ /\ Fits(res, n, h, Len(g) + Len(c))
                              /\ Flow(res, n, over, q, t, Len(g) + Len(c) + Len(h))

\* The slots are no messages of failure.
Proper(res, n) == \A k \in 1..n : Slot(res, k) \notin {RowError, Broken}

-----------------------------------------------------------------------------
(* What each move does to the line.                                        *)

\* Nobody reads any more: nothing else matters.
LEMMA MoveUnread ==
  ASSUME NEW res, NEW n \in Nat, NEW m \in Nat, n <= m, NEW over, NEW over2,
         NEW g \in Seq(Item), NEW c, NEW h, NEW q, NEW t, NEW w, NEW cl,
         NEW c2, NEW h2, NEW q2, NEW t2, NEW w2,
         cl \in {"gone", "aborted"}, w2 # "none",
         Lined(res, n, over, g, c, h, q, t, w, cl)
  PROVE  Lined(res, m, over2, g, c2, h2, q2, t2, w2, cl)
BY DEF Lined, Received

LEMMA MoveNextRow ==
  ASSUME NEW res, NEW n \in Nat, NEW g \in Seq(Item), NEW c \in Seq(Item),
         NEW h \in Seq(Item), NEW q \in Seq(Item), NEW i \in Item, NEW w, NEW cl,
         i = Slot(res, n + 1), w # "none",
         Lined(res, n, FALSE, g, c, h, q, <<>>, w, cl)
  PROVE  Lined(res, n + 1, FALSE, g, c, h, q, <<i>>, w, cl)
<1>1. Received(res, n + 1, g) /\ cl # "complete"
  BY DEF Lined, Received
<1>2. CASE cl # "reading"
  BY <1>1, <1>2 DEF Lined
<1>3. CASE cl = "reading"
  <2>1. Fits(res, n + 1, g, 0) /\ Sent(res, n + 1, c, Len(g), w)
    BY <1>3 DEF Lined, Fits, Sent
  <2>2. w = "done" => Cut(c)
    BY <1>3 DEF Lined
  <2>3. w = "running" /\ h # <<Broken>> =>
          /\ Fits(res, n + 1, h, Len(g) + Len(c))
          /\ Flow(res, n + 1, FALSE, q, <<i>>, Len(g) + Len(c) + Len(h))
    <3>1. SUFFICES ASSUME w = "running", h # <<Broken>>
                   PROVE  /\ Fits(res, n + 1, h, Len(g) + Len(c))
                          /\ Flow(res, n + 1, FALSE, q, <<i>>, Len(g) + Len(c) + Len(h))
      BY <3>1
    <3>2. Fits(res, n, h, Len(g) + Len(c)) /\ Flow(res, n, FALSE, q, <<>>, Len(g) + Len(c) + Len(h))
      BY <1>3, <3>1 DEF Lined
    <3>3. PICK from \in Nat : from = Len(g) + Len(c) + Len(h)
      OBVIOUS
    <3>4. Flow(res, n + 1, FALSE, q, <<i>>, from)
      <4>1. Fits(res, n, q, from) /\ from + Len(q) = n
        BY <3>2, <3>3 DEF Flow
      <4>2. Fits(res, n + 1, q, from)
        BY <3>3, <4>1 DEF Fits
      <4>3. Len(<<i>>) = 1 /\ <<i>>[1] = i
        OBVIOUS
      <4>. QED  BY <4>1, <4>2, <4>3 DEF Flow
    <3>5. Fits(res, n + 1, h, Len(g) + Len(c))
      BY <3>2 DEF Fits
    <3>. QED  BY <3>3, <3>4, <3>5
  <2>. QED  BY <1>1, <1>3, <2>1, <2>2, <2>3 DEF Lined
<1>. QED  BY <1>2, <1>3

LEMMA MoveError ==
  ASSUME NEW res, NEW n \in Nat, NEW g \in Seq(Item), NEW c \in Seq(Item),
         NEW h \in Seq(Item), NEW q \in Seq(Item), NEW w, NEW cl, w # "none",
         Lined(res, n, FALSE, g, c, h, q, <<>>, w, cl)
  PROVE  Lined(res, n, FALSE, g, c, h, q, <<RowError>>, w, cl)
<1>1. \A from : Flow(res, n, FALSE, q, <<>>, from) => Flow(res, n, FALSE, q, <<RowError>>, from)
  <2>1. Len(<<>>) = 0 /\ <<>> # <<RowError>>
    OBVIOUS
  <2>. QED  BY <2>1 DEF Flow
<1>. QED  BY <1>1 DEF Lined

LEMMA MoveEndOfRows ==
  ASSUME NEW res, NEW n \in Nat, NEW g \in Seq(Item), NEW c \in Seq(Item),
         NEW h \in Seq(Item), NEW q \in Seq(Item), NEW w, NEW cl,
         Lined(res, n, FALSE, g, c, h, q, <<>>, w, cl)
  PROVE  Lined(res, n, TRUE, g, c, h, q, <<>>, w, cl)
<1>1. \A from : Flow(res, n, FALSE, q, <<>>, from) => Flow(res, n, TRUE, q, <<>>, from)
  <2>1. Len(<<>>) = 0 /\ <<>> # <<RowError>>
    OBVIOUS
  <2>. QED  BY <2>1 DEF Flow
<1>. QED  BY <1>1 DEF Lined

LEMMA MoveSendRow ==
  ASSUME NEW res, NEW n \in Nat, NEW g \in Seq(Item), NEW c \in Seq(Item),
         NEW h \in Seq(Item), NEW q \in Seq(Item), NEW i \in Item, NEW w, NEW cl,
         w = "running", Proper(res, n),
         Lined(res, n, FALSE, g, c, h, q, <<i>>, w, cl)
  PROVE  Lined(res, n, i = RowError, g, c, h, Append(q, i), <<>>, w, cl)
<1>1. ASSUME NEW from \in Nat, Flow(res, n, FALSE, q, <<i>>, from)
      PROVE  Flow(res, n, i = RowError, Append(q, i), <<>>, from)
  <2>1. /\ Len(Append(q, i)) = Len(q) + 1 /\ Len(q) \in Nat
        /\ \A k \in 1..Len(q) : Append(q, i)[k] = q[k]
        /\ Append(q, i)[Len(q) + 1] = i
    OBVIOUS
  <2>2. Len(<<i>>) = 1 /\ <<i>>[1] = i /\ <<i>> # <<>> /\ (<<i>> = <<RowError>> <=> i = RowError)
    OBVIOUS
  <2>3. /\ Fits(res, n, q, from)
        /\ \/ i = RowError /\ from + Len(q) = n
           \/ i = Slot(res, n) /\ from + Len(q) + 1 = n
    BY <1>1, <2>2 DEF Flow
  <2>4. CASE i = RowError /\ from + Len(q) = n
    <3>1. \A k \in 1..Len(q) : Append(q, i)[k] = Slot(res, from + k)
      BY <2>1, <2>3 DEF Fits
    <3>. QED  BY <2>1, <2>4, <3>1 DEF Flow
  <2>5. CASE i = Slot(res, n) /\ from + Len(q) + 1 = n
    <3>1. i # RowError
      BY <2>5, <2>1 DEF Proper
    <3>2. \A k \in 1..Len(q) : from + k <= n /\ Append(q, i)[k] = Slot(res, from + k)
      BY <2>1, <2>3 DEF Fits
    <3>3. \A k \in 1..(Len(q) + 1) : k \in 1..Len(q) \/ k = Len(q) + 1
      BY <2>1
    <3>4. from + (Len(q) + 1) = n
      BY <2>1, <2>5
    <3>5. Fits(res, n, Append(q, i), from)
      BY <2>1, <2>5, <3>2, <3>3, <3>4 DEF Fits
    <3>. QED  BY <2>1, <2>5, <3>1, <3>5 DEF Flow
  <2>. QED  BY <2>3, <2>4, <2>5
<1>2. Len(g) + Len(c) + Len(h) \in Nat
  OBVIOUS
<1>. QED  BY <1>1, <1>2 DEF Lined

LEMMA MoveDropRow ==
  ASSUME NEW res, NEW n \in Nat, NEW g \in Seq(Item), NEW c \in Seq(Item),
         NEW h, NEW q, NEW t, NEW cl,
         Lined(res, n, FALSE, g, c, h, q, t, "done", cl)
  PROVE  Lined(res, n, TRUE, g, c, h, q, <<>>, "done", cl)
BY DEF Lined

LEMMA MovePush ==
  ASSUME NEW res, NEW n \in Nat, NEW over \in BOOLEAN, NEW g \in Seq(Item), NEW c \in Seq(Item),
         NEW i \in Item, NEW q \in Seq(Item), NEW t \in Seq(Item), NEW cl, i # Broken, cl # "gone",
         Lined(res, n, over, g, c, <<i>>, q, t, "running", cl)
  PROVE  Lined(res, n, over, g, Append(c, i), <<>>, q, t, "running", cl)
<1>1. /\ Len(Append(c, i)) = Len(c) + 1 /\ Len(c) \in Nat /\ Len(g) \in Nat
      /\ \A k \in 1..Len(c) : Append(c, i)[k] = c[k]
      /\ Append(c, i)[Len(c) + 1] = i
      /\ Len(<<i>>) = 1 /\ <<i>>[1] = i /\ <<i>> # <<Broken>> /\ Len(<<>>) = 0
  OBVIOUS
<1>2. CASE cl # "reading"
  BY <1>2 DEF Lined
<1>3. CASE cl = "reading"
  <2>1. /\ Fits(res, n, <<i>>, Len(g) + Len(c)) /\ Sent(res, n, c, Len(g), "running")
        /\ Flow(res, n, over, q, t, Len(g) + Len(c) + Len(<<i>>))
    BY <1>1, <1>3 DEF Lined
  <2>2. Len(g) + Len(c) + 1 <= n /\ i = Slot(res, Len(g) + Len(c) + 1)
    BY <1>1, <2>1 DEF Fits
  <2>3. Sent(res, n, Append(c, i), Len(g), "running")
    BY <1>1, <2>1, <2>2 DEF Sent
  <2>4. Fits(res, n, <<>>, Len(g) + Len(Append(c, i)))
    BY <1>1 DEF Fits
  <2>5. Len(g) + Len(Append(c, i)) + Len(<<>>) = Len(g) + Len(c) + Len(<<i>>)
    BY <1>1
  <2>6. Flow(res, n, over, q, t, Len(g) + Len(Append(c, i)) + Len(<<>>))
    BY <2>1, <2>5
  <2>. QED  BY <1>3, <2>3, <2>4, <2>6 DEF Lined
<1>. QED  BY <1>2, <1>3

LEMMA MovePushCut ==
  ASSUME NEW res, NEW n \in Nat, NEW over \in BOOLEAN, NEW g \in Seq(Item), NEW c \in Seq(Item),
         NEW q \in Seq(Item), NEW t \in Seq(Item), NEW cl,
         Lined(res, n, over, g, c, <<Broken>>, q, t, "running", cl)
  PROVE  Lined(res, n, over, g, Append(c, Broken), <<>>, <<>>, t, "done", cl)
<1>1. /\ Len(Append(c, Broken)) = Len(c) + 1 /\ Len(c) \in Nat /\ Len(g) \in Nat
      /\ \A k \in 1..Len(c) : Append(c, Broken)[k] = c[k]
      /\ Append(c, Broken)[Len(c) + 1] = Broken
  BY ItemType
<1>2. CASE cl # "reading"
  BY <1>2 DEF Lined
<1>3. CASE cl = "reading"
  <2>1. Fits(res, n, g, 0) /\ Sent(res, n, c, Len(g), "running") /\ Received(res, n, g)
    BY <1>3 DEF Lined
  <2>2. \A k \in 1..Len(c) : Len(g) + k <= n /\ Append(c, Broken)[k] = Slot(res, Len(g) + k)
    BY <1>1, <2>1 DEF Sent
  <2>3. \A k \in 1..(Len(c) + 1) : k \in 1..Len(c) \/ k = Len(c) + 1
    BY <1>1
  <2>4. Sent(res, n, Append(c, Broken), Len(g), "done")
    BY <1>1, <2>2, <2>3 DEF Sent
  <2>5. Cut(Append(c, Broken))
    BY <1>1 DEF Cut
  <2>. QED  BY <1>3, <2>1, <2>4, <2>5 DEF Lined
<1>. QED  BY <1>2, <1>3

LEMMA MovePull ==
  ASSUME NEW res, NEW n \in Nat, NEW over \in BOOLEAN, NEW g \in Seq(Item), NEW c \in Seq(Item),
         NEW q \in Seq(Item), NEW t \in Seq(Item), NEW cl, q # <<>>, Head(q) # RowError,
         Lined(res, n, over, g, c, <<>>, q, t, "running", cl)
  PROVE  Lined(res, n, over, g, c, <<Head(q)>>, Tail(q), t, "running", cl)
<1>1. /\ Len(q) \in Nat /\ Len(q) > 0 /\ Len(Tail(q)) = Len(q) - 1
      /\ \A k \in 1..(Len(q) - 1) : Tail(q)[k] = q[k + 1]
      /\ Head(q) = q[1] /\ Len(<<Head(q)>>) = 1 /\ <<Head(q)>>[1] = q[1]
      /\ <<>> # <<Broken>> /\ Len(<<>>) = 0
  OBVIOUS
<1>2. CASE cl # "reading"
  BY <1>2 DEF Lined
<1>3. CASE cl = "reading"
  <2>1. PICK from \in Nat : from = Len(g) + Len(c)
    OBVIOUS
  <2>2. Flow(res, n, over, q, t, from)
    BY <1>1, <1>3, <2>1 DEF Lined
  <2>3. from + 1 <= n /\ q[1] = Slot(res, from + 1)
    <3>1. CASE Fits(res, n, q, from)
      BY <1>1, <3>1 DEF Fits
    <3>2. CASE ~Fits(res, n, q, from)
      <4>1. /\ q[Len(q)] = RowError /\ from + Len(q) = n + 1
            /\ \A k \in 1..(Len(q) - 1) : q[k] = Slot(res, from + k)
        BY <2>2, <3>2 DEF Flow
      <4>. QED  BY <1>1, <2>1, <4>1
    <3>. QED  BY <3>1, <3>2
  <2>4. Fits(res, n, <<Head(q)>>, from)
    BY <1>1, <2>1, <2>3 DEF Fits
  <2>5. Flow(res, n, over, Tail(q), t, from + 1)
    <3>1. CASE Fits(res, n, q, from)
      <4>1. \A k \in 1..(Len(q) - 1) : (from + 1) + k <= n /\ q[k + 1] = Slot(res, (from + 1) + k)
        <5>1. SUFFICES ASSUME NEW k \in 1..(Len(q) - 1)
                       PROVE  (from + 1) + k <= n /\ q[k + 1] = Slot(res, (from + 1) + k)
          BY <5>1
        <5>2. k + 1 \in 1..Len(q) /\ from + (k + 1) = (from + 1) + k
          BY <1>1, <2>1
        <5>3. from + (k + 1) <= n /\ q[k + 1] = Slot(res, from + (k + 1))
          BY <3>1, <5>2 DEF Fits
        <5>. QED  BY <5>2, <5>3
      <4>2. Fits(res, n, Tail(q), from + 1)
        BY <1>1, <4>1 DEF Fits
      <4>3. (from + 1) + Len(Tail(q)) = from + Len(q)
        BY <1>1, <2>1
      <4>4. \/ t = <<>> /\ from + Len(q) = n
            \/ t = <<RowError>> /\ from + Len(q) = n /\ ~over
            \/ Len(t) = 1 /\ t[1] = Slot(res, n) /\ from + Len(q) + 1 = n /\ ~over
            \/ over /\ t = <<>> /\ q[Len(q)] = RowError /\ from + Len(q) = n + 1
        BY <2>2 DEF Flow
      <4>5. from + Len(q) # n + 1
        <5>1. PICK l \in Nat : l = Len(q) /\ l \in 1..Len(q)
          <6>1. Len(q) \in Nat /\ Len(q) > 0
            BY Zenon, <1>1
          <6>. QED  BY <6>1
        <5>2. from + l <= n
          BY <3>1, <5>1 DEF Fits
        <5>. QED  BY <2>1, <5>1, <5>2
      <4>. QED  BY <4>2, <4>3, <4>4, <4>5 DEF Flow
    <3>2. CASE ~Fits(res, n, q, from)
      <4>1. /\ over /\ t = <<>> /\ q[Len(q)] = RowError /\ from + Len(q) = n + 1
            /\ \A k \in 1..(Len(q) - 1) : q[k] = Slot(res, from + k)
        BY <2>2, <3>2 DEF Flow
      <4>2. Len(q) >= 2 /\ Len(Tail(q)) > 0 /\ (from + 1) + Len(Tail(q)) = n + 1
        <5>1. Len(q) # 1
          BY <1>1, <4>1
        <5>2. over /\ t = <<>> /\ from + Len(q) = n + 1
          BY <4>1
        <5>. HIDE <4>1
        <5>. QED  BY <1>1, <2>1, <5>1, <5>2
      <4>3. Tail(q)[Len(Tail(q))] = RowError
        BY <1>1, <4>1, <4>2
      <4>4. \A k \in 1..(Len(Tail(q)) - 1) : Tail(q)[k] = Slot(res, (from + 1) + k)
        <5>1. SUFFICES ASSUME NEW k \in 1..(Len(Tail(q)) - 1)
                       PROVE  Tail(q)[k] = Slot(res, (from + 1) + k)
          BY <5>1
        <5>2. /\ k \in 1..(Len(q) - 1) /\ k + 1 \in 1..(Len(q) - 1)
              /\ from + (k + 1) = (from + 1) + k
          BY <1>1, <2>1
        <5>. QED  BY <1>1, <4>1, <5>2
      <4>. QED  BY <4>1, <4>2, <4>3, <4>4 DEF Flow
    <3>. QED  BY <3>1, <3>2
  <2>6. from + 1 = Len(g) + Len(c) + Len(<<Head(q)>>)
    BY <1>1, <2>1
  <2>7. Fits(res, n, <<Head(q)>>, Len(g) + Len(c))
    BY <2>1, <2>4
  <2>8. Flow(res, n, over, Tail(q), t, Len(g) + Len(c) + Len(<<Head(q)>>))
    BY <2>5, <2>6
  <2>. QED  BY <1>3, <2>7, <2>8 DEF Lined
<1>. QED  BY <1>2, <1>3

LEMMA MovePullError ==
  ASSUME NEW res, NEW n \in Nat, NEW over \in BOOLEAN, NEW g \in Seq(Item), NEW c \in Seq(Item),
         NEW q \in Seq(Item), NEW t \in Seq(Item), NEW cl, q # <<>>, Head(q) = RowError,
         Proper(res, n), Lined(res, n, over, g, c, <<>>, q, t, "running", cl)
  PROVE  Lined(res, n, over, g, c, <<>>, <<>>, t, "done", cl)
<1>1. /\ Len(q) \in Nat /\ Len(q) > 0 /\ q[1] = RowError
      /\ <<>> # <<Broken>> /\ Len(<<>>) = 0
  OBVIOUS
<1>2. CASE cl # "reading"
  BY <1>2 DEF Lined
<1>3. CASE cl = "reading"
  <2>1. PICK from \in Nat : from = Len(g) + Len(c)
    OBVIOUS
  <2>2. Flow(res, n, over, q, t, from)
    BY <1>1, <1>3, <2>1 DEF Lined
  <2>3. \A k \in 1..n : Slot(res, k) # RowError
    BY DEF Proper
  <2>4. ~Fits(res, n, q, from)
    <3>1. SUFFICES ASSUME Fits(res, n, q, from)  PROVE FALSE
      OBVIOUS
    <3>2. from + 1 <= n /\ q[1] = Slot(res, from + 1)
      BY <1>1, <3>1 DEF Fits
    <3>3. from + 1 \in 1..n
      BY <2>1, <3>2
    <3>. QED  BY <1>1, <2>3, <3>2, <3>3
  <2>5. /\ over /\ from + Len(q) = n + 1
        /\ \A k \in 1..(Len(q) - 1) : q[k] = Slot(res, from + k)
    BY <2>2, <2>4 DEF Flow
  <2>6. Len(q) = 1
    <3>1. SUFFICES ASSUME Len(q) # 1  PROVE FALSE
      OBVIOUS
    <3>2. from + Len(q) = n + 1 /\ Len(q) >= 2
      <4>1. from + Len(q) = n + 1
        BY <2>5
      <4>2. Len(q) \in Nat /\ Len(q) > 0 /\ Len(q) # 1
        BY <1>1, <3>1
      <4>3. \A l \in Nat : l > 0 /\ l # 1 => l >= 2
        OBVIOUS
      <4>4. Len(q) >= 2
        BY <4>2, <4>3, Zenon
      <4>. QED  BY <4>1, <4>4, Zenon
    <3>3. 1 \in 1..(Len(q) - 1) /\ from + 1 \in 1..n
      BY <1>1, <2>1, <3>2
    <3>. QED  BY <1>1, <2>3, <2>5, <3>3
  <2>7. over /\ Len(g) + Len(c) = n
    BY <2>1, <2>5, <2>6
  <2>8. Sent(res, n, c, Len(g), "done")
    BY <1>3 DEF Lined, Sent
  <2>. QED  BY <1>3, <2>7, <2>8 DEF Lined
<1>. QED  BY <1>2, <1>3

LEMMA MoveTimesOut ==
  ASSUME NEW res, NEW n \in Nat, NEW over \in BOOLEAN, NEW g, NEW c, NEW q, NEW t, NEW cl,
         Lined(res, n, over, g, c, <<>>, q, t, "running", cl)
  PROVE  Lined(res, n, over, g, c, <<Broken>>, q, t, "running", cl)
BY DEF Lined

LEMMA MoveNoMoreRows ==
  ASSUME NEW res, NEW n \in Nat, NEW g \in Seq(Item), NEW c \in Seq(Item),
         NEW t \in Seq(Item), NEW cl,
         Lined(res, n, TRUE, g, c, <<>>, <<>>, t, "running", cl)
  PROVE  Lined(res, n, TRUE, g, c, <<>>, <<>>, t, "done", cl)
<1>1. <<>> # <<Broken>> /\ Len(<<>>) = 0
  OBVIOUS
<1>2. CASE cl # "reading"
  BY <1>2 DEF Lined
<1>3. CASE cl = "reading"
  <2>1. PICK from \in Nat : from = Len(g) + Len(c)
    OBVIOUS
  <2>0. Len(g) + Len(c) + Len(<<>>) = from
    BY <1>1, <2>1
  <2>2. Flow(res, n, TRUE, <<>>, t, from)
    <3>1. Flow(res, n, TRUE, <<>>, t, Len(g) + Len(c) + Len(<<>>))
      BY <1>1, <1>3 DEF Lined
    <3>. QED  BY <2>0, <3>1
  <2>3. from = n
    BY <1>1, <2>1, <2>2 DEF Flow
  <2>4. Sent(res, n, c, Len(g), "done")
    BY <1>3 DEF Lined, Sent
  <2>. QED  BY <1>3, <2>1, <2>3, <2>4 DEF Lined
<1>. QED  BY <1>2, <1>3

LEMMA MoveRead ==
  ASSUME NEW res, NEW n \in Nat, NEW over \in BOOLEAN, NEW g \in Seq(Item), NEW c \in Seq(Item),
         NEW h \in Seq(Item), NEW q \in Seq(Item), NEW t \in Seq(Item), NEW w,
         c # <<>>, Head(c) # Broken,
         Lined(res, n, over, g, c, h, q, t, w, "reading")
  PROVE  Lined(res, n, over, Append(g, Head(c)), Tail(c), h, q, t, w, "reading")
<1>1. /\ Len(c) \in Nat /\ Len(c) > 0 /\ Len(Tail(c)) = Len(c) - 1 /\ Tail(c) \in Seq(Item)
      /\ \A k \in 1..(Len(c) - 1) : Tail(c)[k] = c[k + 1]
      /\ Head(c) = c[1] /\ Head(c) \in Item
  OBVIOUS
<1>2. /\ Len(g) \in Nat /\ Len(Append(g, Head(c))) = Len(g) + 1 /\ Append(g, Head(c)) \in Seq(Item)
      /\ \A k \in 1..Len(g) : Append(g, Head(c))[k] = g[k]
      /\ Append(g, Head(c))[Len(g) + 1] = Head(c)
  BY <1>1
<1>3. /\ Fits(res, n, g, 0) /\ Sent(res, n, c, Len(g), w)
      /\ w = "done" => Cut(c) \/ (Len(g) + Len(c) = n /\ over)
  BY DEF Lined
<1>4. Len(g) + 1 <= n /\ c[1] = Slot(res, Len(g) + 1)
  <2>1. 1 \in 1..Len(c) /\ c[1] # Broken
    BY <1>1
  <2>. QED  BY <1>3, <2>1 DEF Sent
<1>5. \A k \in 1..(Len(g) + 1) : k <= n /\ Append(g, Head(c))[k] = Slot(res, k)
  <2>1. \A k \in 1..Len(g) : 0 + k <= n /\ g[k] = Slot(res, 0 + k)
    BY <1>3 DEF Fits
  <2>2. \A k \in 1..(Len(g) + 1) : (k \in 1..Len(g) /\ 0 + k = k) \/ k = Len(g) + 1
    BY <1>2
  <2>. QED  BY <1>1, <1>2, <1>4, <2>1, <2>2
<1>6. Fits(res, n, Append(g, Head(c)), 0) /\ Received(res, n, Append(g, Head(c)))
  <2>1. \A k \in 1..(Len(g) + 1) : 0 + k = k
    OBVIOUS
  <2>2. Fits(res, n, Append(g, Head(c)), 0)
    BY <1>2, <1>5, <2>1 DEF Fits
  <2>3. Received(res, n, Append(g, Head(c)))
    BY <1>2, <1>5 DEF Received
  <2>. QED  BY <2>2, <2>3
<1>7. Sent(res, n, Tail(c), Len(g) + 1, w)
  <2>1. SUFFICES ASSUME NEW k \in 1..(Len(c) - 1)
                 PROVE  \/ Tail(c)[k] = Broken /\ k = Len(c) - 1 /\ w = "done"
                        \/ (Len(g) + 1) + k <= n /\ Tail(c)[k] = Slot(res, (Len(g) + 1) + k)
    BY <1>1, <2>1 DEF Sent
  <2>2. k + 1 \in 1..Len(c) /\ Len(g) + (k + 1) = (Len(g) + 1) + k
    BY <1>1, <1>2
  <2>3. \/ c[k + 1] = Broken /\ k + 1 = Len(c) /\ w = "done"
        \/ Len(g) + (k + 1) <= n /\ c[k + 1] = Slot(res, Len(g) + (k + 1))
    BY <1>3, <2>2 DEF Sent
  <2>4. Tail(c)[k] = c[k + 1]
    BY <1>1
  <2>5. k + 1 = Len(c) => k = Len(c) - 1
    <3>1. Len(c) \in Nat /\ k \in Nat
      OBVIOUS
    <3>. QED  BY <3>1
  <2>. QED  BY <2>2, <2>3, <2>4, <2>5
<1>8. w = "done" => Cut(Tail(c)) \/ ((Len(g) + 1) + Len(Tail(c)) = n /\ over)
  <2>1. Cut(c) => Cut(Tail(c))
    BY <1>1 DEF Cut
  <2>2. (Len(g) + 1) + Len(Tail(c)) = Len(g) + Len(c)
    BY <1>1, <1>2
  <2>. QED  BY <1>3, <2>1, <2>2
<1>9. (Len(g) + 1) + Len(Tail(c)) = Len(g) + Len(c) /\ w # "none"
  BY <1>1, <1>2 DEF Lined
<1>. QED  BY <1>2, <1>6, <1>7, <1>8, <1>9 DEF Lined

LEMMA MoveReadCut ==
  ASSUME NEW res, NEW n \in Nat, NEW over \in BOOLEAN, NEW g \in Seq(Item), NEW c \in Seq(Item),
         NEW h, NEW q, NEW t, NEW w, NEW i \in Item, NEW c2, c # <<>>, i = Broken,
         Lined(res, n, over, g, c, h, q, t, w, "reading")
  PROVE  Lined(res, n, over, Append(g, i), c2, h, q, t, w, "aborted")
<1>1. /\ Len(g) \in Nat /\ Len(Append(g, i)) = Len(g) + 1
      /\ \A k \in 1..Len(g) : Append(g, i)[k] = g[k]
      /\ Append(g, i)[Len(g) + 1] = i
  OBVIOUS
<1>2. Fits(res, n, g, 0) /\ w # "none"
  BY DEF Lined
<1>3. \A k \in 1..Len(g) : k <= n /\ Append(g, i)[k] = Slot(res, k)
  <2>1. \A k \in 1..Len(g) : 0 + k <= n /\ g[k] = Slot(res, 0 + k) /\ 0 + k = k
    BY <1>2 DEF Fits
  <2>. QED  BY <1>1, <2>1
<1>4. \A k \in 1..(Len(g) + 1) : k \in 1..Len(g) \/ k = Len(g) + 1
  BY <1>1
<1>5. Received(res, n, Append(g, i))
  BY <1>1, <1>3, <1>4 DEF Received
<1>. QED  BY <1>2, <1>5 DEF Lined

LEMMA MoveSeeEnd ==
  ASSUME NEW res, NEW n \in Nat, NEW over \in BOOLEAN, NEW g \in Seq(Item), NEW h, NEW q, NEW t,
         Lined(res, n, over, g, <<>>, h, q, t, "done", "reading")
  PROVE  Lined(res, n, over, g, <<>>, h, q, t, "done", "complete")
<1>1. Len(<<>>) = 0 /\ Len(g) \in Nat
  OBVIOUS
<1>2. Len(g) = n /\ over
  BY <1>1 DEF Lined, Cut
<1>. QED  BY <1>2 DEF Lined

LEMMA MoveHangUp ==
  ASSUME NEW res, NEW n \in Nat, NEW over, NEW over2, NEW g, NEW c, NEW h, NEW q, NEW t, NEW w,
         Lined(res, n, over, g, c, h, q, t, w, "reading")
  PROVE  Lined(res, n, over2, g, <<>>, h, q, t, w, "gone")
BY DEF Lined

LEMMA MoveGet ==
  ASSUME NEW res, NEW over, NEW g, NEW c, NEW h, NEW q, NEW t, NEW cl,
         Lined(res, 1, over, g, c, h, q, t, "none", cl)
  PROVE  Lined(res, 1, FALSE, g, c, <<Header>>, q, t, "running", cl)
<1>1. /\ Len(<<>>) = 0 /\ Len(<<Header>>) = 1 /\ <<Header>>[1] = Header
      /\ 1..0 = {} /\ 0 + 0 = 0 /\ 0 + 0 + 1 = 1 /\ 1 + 0 = 1
  OBVIOUS
<1>2. /\ g = <<>> /\ c = <<>> /\ q = <<>> /\ t = <<>> /\ Received(res, 1, g)
      /\ cl \in {"reading", "gone"}
  BY DEF Lined
<1>3. Fits(res, 1, <<>>, 0) /\ Fits(res, 1, <<>>, 1) /\ Sent(res, 1, <<>>, 0, "running")
  BY <1>1 DEF Fits, Sent
<1>4. Fits(res, 1, <<Header>>, 0)
  BY <1>1 DEF Fits, Slot
<1>5. Flow(res, 1, FALSE, <<>>, <<>>, 1)
  BY <1>1, <1>3 DEF Flow
<1>. QED  BY <1>1, <1>2, <1>3, <1>4, <1>5 DEF Lined

LEMMA MoveFetch ==
  ASSUME NEW res, NEW n, NEW over, NEW g, NEW c, NEW h, NEW q, NEW t, NEW cl,
         NEW found \in Seq(Item),
         Lined(res, n, over, g, c, h, q, t, "none", cl)
  PROVE  Lined(found, Len(found) + 1, TRUE, g, c, <<Header>>, found, t, "running", cl)
<1>. DEFINE m == Len(found) + 1
<1>1. /\ Len(<<>>) = 0 /\ Len(<<Header>>) = 1 /\ <<Header>>[1] = Header
      /\ 1..0 = {} /\ 0 + 0 = 0 /\ 0 + 0 + 1 = 1 /\ Len(found) \in Nat
  OBVIOUS
<1>2. /\ g = <<>> /\ c = <<>> /\ t = <<>> /\ cl \in {"reading", "gone"}
  BY DEF Lined
<1>3. Fits(found, m, <<>>, 0) /\ Sent(found, m, <<>>, 0, "running") /\ Received(found, m, <<>>)
  BY <1>1 DEF Fits, Sent, Received
<1>4. Fits(found, m, <<Header>>, 0)
  BY <1>1 DEF Fits, Slot
<1>5. Fits(found, m, found, 1)
  <2>1. SUFFICES ASSUME NEW k \in 1..Len(found)
                 PROVE  1 + k <= m /\ found[k] = Slot(found, 1 + k)
    BY <2>1 DEF Fits
  <2>2. 1 + k # 1 /\ 1 + k - 1 = k /\ 1 + k <= m
    BY <1>1
  <2>. QED  BY <2>2 DEF Slot
<1>6. Flow(found, m, TRUE, found, <<>>, 1)
  <2>1. 1 + Len(found) = m
    BY <1>1
  <2>. QED  BY <1>5, <2>1 DEF Flow
<1>. HIDE DEF m
<1>7. Lined(found, m, TRUE, g, c, <<Header>>, found, t, "running", cl)
  BY <1>1, <1>2, <1>3, <1>4, <1>6 DEF Lined
<1>. QED  BY <1>7 DEF m

\* A connection that no stream uses.
LEMMA MoveIdle ==
  ASSUME NEW res, NEW n, NEW over, NEW over2, NEW g, NEW c, NEW h, NEW q, NEW t, NEW cl,
         Lined(res, n, over, g, c, h, q, t, "none", cl)
  PROVE  Lined(res, n, over2, g, c, h, q, t, "none", cl)
BY DEF Lined

\* The result becomes known when none of it has been read.
LEMMA MoveExecute ==
  ASSUME NEW res, NEW res2, NEW over \in BOOLEAN, NEW g \in Seq(Item), NEW c \in Seq(Item),
         NEW h \in Seq(Item), NEW q \in Seq(Item), NEW t \in Seq(Item), NEW w, NEW cl,
         Lined(res, 1, over, g, c, h, q, t, w, cl)
  PROVE  Lined(res2, 1, over, g, c, h, q, t, w, cl)
<1>1. Slot(res, 1) = Header /\ Slot(res2, 1) = Header
  BY DEF Slot
<1>2. ASSUME NEW s \in Seq(Item), NEW from \in Nat, Fits(res, 1, s, from)
      PROVE  Fits(res2, 1, s, from)
  <2>1. \A k \in 1..Len(s) : from + k <= 1 => from + k = 1
    OBVIOUS
  <2>. QED  BY <1>1, <1>2, <2>1 DEF Fits
<1>3. Sent(res, 1, c, Len(g), w) => Sent(res2, 1, c, Len(g), w)
  <2>1. \A k \in 1..Len(c) : Len(g) + k <= 1 => Len(g) + k = 1
    OBVIOUS
  <2>. QED  BY <1>1, <2>1 DEF Sent
<1>4. Received(res, 1, g) => Received(res2, 1, g)
  <2>1. \A k \in 1..Len(g) : k <= 1 => k = 1
    OBVIOUS
  <2>. QED  BY <1>1, <2>1 DEF Received
<1>5. ASSUME NEW from \in Nat, Flow(res, 1, over, q, t, from)
      PROVE  Flow(res2, 1, over, q, t, from)
  <2>1. CASE Fits(res, 1, q, from)
    <3>1. Fits(res2, 1, q, from)
      BY <1>2, <2>1
    <3>2. \/ t = <<>> /\ from + Len(q) = 1
          \/ t = <<RowError>> /\ from + Len(q) = 1 /\ ~over
          \/ Len(t) = 1 /\ t[1] = Slot(res, 1) /\ from + Len(q) + 1 = 1 /\ ~over
          \/ over /\ t = <<>> /\ Len(q) > 0 /\ q[Len(q)] = RowError /\ from + Len(q) = 2
      BY <1>5 DEF Flow
    <3>3. Len(q) > 0 => from + Len(q) <= 1
      BY <2>1 DEF Fits
    <3>4. ~(over /\ t = <<>> /\ Len(q) > 0 /\ q[Len(q)] = RowError /\ from + Len(q) = 2)
      BY <3>3
    <3>. QED  BY <1>1, <3>1, <3>2, <3>4 DEF Flow
  <2>2. CASE ~Fits(res, 1, q, from)
    <3>1. /\ over /\ t = <<>>
          /\ Len(q) > 0 /\ q[Len(q)] = RowError /\ from + Len(q) = 2
          /\ \A k \in 1..(Len(q) - 1) : q[k] = Slot(res, from + k)
      BY <1>5, <2>2 DEF Flow
    <3>2. \A k \in 1..(Len(q) - 1) : from + k = 1
      BY <3>1
    <3>3. \A k \in 1..(Len(q) - 1) : q[k] = Slot(res2, from + k)
      BY <1>1, <3>1, <3>2
    <3>4. from + Len(q) = 1 + 1
      BY <3>1
    <3>. QED  BY <3>1, <3>3, <3>4 DEF Flow
  <2>. QED  BY <2>1, <2>2
<1>6. /\ Len(g) + Len(c) \in Nat /\ Len(g) + Len(c) + Len(h) \in Nat /\ 0 \in Nat
  OBVIOUS
<1>. QED  BY <1>2, <1>3, <1>4, <1>5, <1>6 DEF Lined

-----------------------------------------------------------------------------
(* The line of an export of the specification.                             *)

Reach(e) ==
  /\ phase[e] = "streaming" <=> worker[e] # "none"
  /\ result[e] = None => cursor[e] = 0
  /\ result[e] # None => cursor[e] <= Len(result[e])
  /\ qhand[e] # <<>> => \/ conn[e] = "open"
                        \/ conn[e] = "done" /\ qhand[e] = <<RowError>>

Line(e) ==
  /\ Reach(e)
  /\ Lined(result[e], cursor[e] + 1, QueryOver(e), got[e], csvq[e], held[e], rowq[e], qhand[e],
           worker[e], client[e])

LEMMA LineFrame ==
  ASSUME NEW e, Line(e), Mine(e)' = Mine(e)
  PROVE  Line(e)'
BY DEF Line, Reach, Mine, QueryOver

LEMMA LineType ==
  ASSUME TypeOK, NEW e \in Exports
  PROVE  /\ cursor[e] \in Nat /\ cursor[e] + 1 \in Nat /\ QueryOver(e) \in BOOLEAN
         /\ got[e] \in Seq(Item) /\ csvq[e] \in Seq(Item) /\ held[e] \in Seq(Item)
         /\ rowq[e] \in Seq(Item) /\ qhand[e] \in Seq(Item)
         /\ result[e] \in Seq(Cdr) \cup {None} /\ None \notin Seq(Cdr)
         /\ phase[e] \in {"idle", "resolve", "fetch", "streaming", "bad_request", "error",
                          "dropped"}
         /\ conn[e] \in {"none", "acquire", "open", "done"}
         /\ worker[e] \in {"none", "running", "done"}
         /\ client[e] \in {"reading", "complete", "aborted", "gone"}
BY NoneAssumption DEF TypeOK, QueryOver

LEMMA LineProper ==
  ASSUME TypeOK, NEW e \in Exports, Reach(e)
  PROVE  Proper(result[e], cursor[e] + 1)
<1>1. SUFFICES ASSUME NEW k \in 1..(cursor[e] + 1)
               PROVE  Slot(result[e], k) \notin {RowError, Broken}
  BY <1>1 DEF Proper
<1>2. CASE k = 1
  BY <1>2, ItemType DEF Slot
<1>3. CASE k # 1
  <2>1. cursor[e] \in Nat /\ k - 1 \in 1..cursor[e] /\ cursor[e] # 0
    BY <1>3, LineType
  <2>2. result[e] \in Seq(Cdr) /\ cursor[e] <= Len(result[e]) /\ Len(result[e]) \in Nat
    BY <2>1, LineType DEF Reach
  <2>3. result[e][k - 1] \in Cdr
    BY <2>1, <2>2
  <2>. QED  BY <1>3, <2>3, ItemType DEF Slot
<1>. QED  BY <1>2, <1>3

\* A handler that streams nothing yet, or nothing at all.
LEMMA LineIdle ==
  ASSUME TypeOK, NEW e \in Exports, Line(e), phase[e] # "streaming", phase'[e] # "streaming",
         result'[e] = result[e], cursor'[e] = cursor[e], qhand'[e] = qhand[e],
         rowq'[e] = rowq[e], worker'[e] = worker[e], held'[e] = held[e], csvq'[e] = csvq[e],
         client'[e] = client[e], got'[e] = got[e]
  PROVE  Line(e)'
<1>1. worker[e] = "none"
  BY LineType DEF Line, Reach
<1>2. qhand[e] = <<>>
  BY <1>1 DEF Line, Lined
<1>3. Reach(e)'
  BY <1>1, <1>2 DEF Line, Reach
<1>4. Lined(result[e], cursor[e] + 1, QueryOver(e), got[e], csvq[e], held[e], rowq[e],
            qhand[e], "none", client[e])
  BY <1>1, Zenon DEF Line
<1>5. Lined(result[e], cursor[e] + 1, QueryOver(e)', got[e], csvq[e], held[e], rowq[e],
            qhand[e], "none", client[e])
  BY <1>4, MoveIdle
<1>. QED  BY <1>1, <1>3, <1>5, Zenon DEF Line

LEMMA LineAcquire ==
  ASSUME TypeOK, NEW e \in Exports, Acquire(e), Sound(e), Line(e)
  PROVE  Line(e)'
<1>1. /\ phase'[e] = phase[e] /\ result'[e] = result[e] /\ conn'[e] = "open"
      /\ cursor'[e] = cursor[e] /\ qhand'[e] = qhand[e] /\ rowq'[e] = rowq[e]
      /\ worker'[e] = worker[e] /\ held'[e] = held[e] /\ csvq'[e] = csvq[e]
      /\ client'[e] = client[e] /\ got'[e] = got[e]
  BY ZenonT(30) DEF TypeOK, Acquire, Set, Stop, query, csv, browser
<1>2. conn[e] = "acquire"
  BY Zenon DEF Acquire
<1>3. Reach(e)'
  BY <1>1 DEF Line, Reach
<1>4. QueryOver(e) = FALSE /\ QueryOver(e)' = FALSE
  BY <1>1, <1>2 DEF QueryOver
<1>. QED  BY <1>1, <1>3, <1>4, Zenon DEF Line

LEMMA LineAcquireTimesOut ==
  ASSUME TypeOK, NEW e \in Exports, AcquireTimesOut(e), Sound(e), Line(e)
  PROVE  Line(e)'
<1>1. CASE phase[e] = "streaming"
  <2>1. /\ phase'[e] = phase[e] /\ result'[e] = result[e] /\ conn'[e] = "done"
        /\ cursor'[e] = cursor[e] /\ qhand'[e] = <<RowError>> /\ rowq'[e] = rowq[e]
        /\ worker'[e] = worker[e] /\ held'[e] = held[e] /\ csvq'[e] = csvq[e]
        /\ client'[e] = client[e] /\ got'[e] = got[e]
    BY <1>1, ZenonT(30) DEF TypeOK, AcquireTimesOut, Set, Stop, query, csv, browser
  <2>2. conn[e] = "acquire"
    BY <1>1, Zenon DEF AcquireTimesOut
  <2>q. qhand[e] = <<>> /\ <<RowError>> # <<>>
    BY <2>2 DEF Line, Reach
  <2>3. Reach(e)'
    BY <1>1, <2>1, <2>2, LineType DEF Line, Reach
  <2>4. QueryOver(e) = FALSE /\ QueryOver(e)' = FALSE
    BY <2>1, <2>2, <2>q DEF QueryOver
  <2>5. Lined(result[e], cursor[e] + 1, FALSE, got[e], csvq[e], held[e], rowq[e], <<>>,
            worker[e], client[e])
    BY <1>1, <2>2, <2>4, <2>q, Zenon DEF Line
  <2>6. Lined(result[e], cursor[e] + 1, FALSE, got[e], csvq[e], held[e], rowq[e], <<RowError>>,
            worker[e], client[e])
    BY <1>1, <2>2, <2>5, LineType, MoveError DEF Line, Reach
  <2>. QED  BY <2>1, <2>3, <2>4, <2>6, Zenon DEF Line
<1>2. CASE phase[e] # "streaming"
  <2>1. /\ result'[e] = result[e] /\ cursor'[e] = cursor[e] /\ qhand'[e] = qhand[e] /\ rowq'[e] = rowq[e]
       /\ worker'[e] = worker[e] /\ held'[e] = held[e] /\ csvq'[e] = csvq[e]
       /\ client'[e] = client[e] /\ got'[e] = got[e]
    BY <1>2, ZenonT(30) DEF TypeOK, AcquireTimesOut, Set, query, csv, browser
  <2>2. phase[e] # "streaming" /\ phase'[e] # "streaming"
    <3>1. phase'[e] = "error"
      BY <1>2, ZenonT(30) DEF TypeOK, AcquireTimesOut, Set
    <3>. QED  BY <1>2, <3>1
  <2>. QED  BY <2>1, <2>2, LineIdle
<1>. QED  BY <1>1, <1>2

LEMMA LineGet ==
  ASSUME TypeOK, NEW e \in Exports, Get(e), Sound(e), Line(e)
  PROVE  Line(e)'
<1>1. /\ phase'[e] = "streaming" /\ result'[e] = result[e] /\ conn'[e] = "acquire"
      /\ cursor'[e] = cursor[e] /\ qhand'[e] = qhand[e] /\ rowq'[e] = rowq[e]
      /\ worker'[e] = "running" /\ held'[e] = <<Header>> /\ csvq'[e] = csvq[e]
      /\ client'[e] = client[e] /\ got'[e] = got[e]
  BY ZenonT(30) DEF TypeOK, Get, Set, Stop, query, csv, browser
<1>2. phase[e] = "idle"
  BY Zenon DEF Get
<1>w. worker[e] = "none"
  BY <1>2, LineType DEF Line, Reach
<1>n. cursor[e] = 0 /\ cursor[e] + 1 = 1 /\ qhand[e] = <<>>
  <2>1. cursor[e] + 1 = 1 /\ qhand[e] = <<>>
    BY <1>w DEF Line, Lined
  <2>. QED  BY <2>1, LineType
<1>3. Reach(e)'
  BY <1>1, <1>2, <1>w, <1>n, LineType DEF Line, Reach
<1>4. QueryOver(e) = QueryOver(e) /\ QueryOver(e)' = FALSE
  BY <1>1 DEF QueryOver
<1>5. Lined(result[e], 1, QueryOver(e), got[e], csvq[e], held[e], rowq[e], qhand[e], "none",
          client[e])
  BY <1>2, <1>4, <1>w, <1>n, Zenon DEF Line
<1>6. Lined(result[e], 1, FALSE, got[e], csvq[e], <<Header>>, rowq[e], qhand[e], "running",
          client[e])
  BY <1>2, <1>5, LineType, MoveGet DEF Line, Reach
<1>. QED  BY <1>1, <1>3, <1>4, <1>6, <1>n, Zenon DEF Line

LEMMA LinePost ==
  ASSUME TypeOK, NEW e \in Exports, Post(e), Sound(e), Line(e)
  PROVE  Line(e)'
<1>1. /\ result'[e] = result[e] /\ cursor'[e] = cursor[e] /\ qhand'[e] = qhand[e] /\ rowq'[e] = rowq[e]
     /\ worker'[e] = worker[e] /\ held'[e] = held[e] /\ csvq'[e] = csvq[e]
     /\ client'[e] = client[e] /\ got'[e] = got[e]
  BY ZenonT(30) DEF TypeOK, Post, Set, query, csv, browser
<1>2. phase[e] # "streaming" /\ phase'[e] # "streaming"
  <2>1. phase[e] = "idle"
    BY Zenon DEF Post
  <2>2. phase'[e] = "fetch" \/ phase'[e] = "resolve" \/ phase'[e] = "bad_request"
    BY ZenonT(30) DEF TypeOK, Post, Set
  <2>. QED  BY <2>1, <2>2
<1>. QED  BY <1>1, <1>2, LineIdle

LEMMA LineResolve ==
  ASSUME TypeOK, NEW e \in Exports, Resolve(e), Sound(e), Line(e)
  PROVE  Line(e)'
<1>1. /\ result'[e] = result[e] /\ cursor'[e] = cursor[e] /\ qhand'[e] = qhand[e] /\ rowq'[e] = rowq[e]
     /\ worker'[e] = worker[e] /\ held'[e] = held[e] /\ csvq'[e] = csvq[e]
     /\ client'[e] = client[e] /\ got'[e] = got[e]
  BY ZenonT(30) DEF TypeOK, Resolve, Set, query, csv, browser
<1>2. phase[e] # "streaming" /\ phase'[e] # "streaming"
  <2>1. phase[e] = "resolve"
    BY Zenon DEF Resolve
  <2>2. phase'[e] = "fetch" \/ phase'[e] = "bad_request"
    BY ZenonT(30) DEF TypeOK, Resolve, Set
  <2>. QED  BY <2>1, <2>2
<1>. QED  BY <1>1, <1>2, LineIdle

LEMMA LineFetch ==
  ASSUME TypeOK, NEW e \in Exports, Fetch(e), Sound(e), Line(e)
  PROVE  Line(e)'
<1>1. CASE Present(cdr_ids[e]) = <<>>
  <2>1. /\ result'[e] = result[e] /\ cursor'[e] = cursor[e] /\ qhand'[e] = qhand[e] /\ rowq'[e] = rowq[e]
       /\ worker'[e] = worker[e] /\ held'[e] = held[e] /\ csvq'[e] = csvq[e]
       /\ client'[e] = client[e] /\ got'[e] = got[e]
    BY <1>1, ZenonT(30) DEF TypeOK, Fetch, Set, query, csv, browser
  <2>2. phase[e] # "streaming" /\ phase'[e] # "streaming"
    <3>1. phase[e] = "fetch"
      BY Zenon DEF Fetch
    <3>2. phase'[e] = "bad_request"
      BY <1>1, ZenonT(30) DEF TypeOK, Fetch, Set
    <3>. QED  BY <3>1, <3>2
  <2>. QED  BY <2>1, <2>2, LineIdle
<1>2. CASE Present(cdr_ids[e]) # <<>>
  <2>1. /\ phase'[e] = "streaming" /\ result'[e] = Present(cdr_ids[e]) /\ conn'[e] = "done"
        /\ cursor'[e] = Len(Present(cdr_ids[e])) /\ qhand'[e] = qhand[e]
        /\ rowq'[e] = Present(cdr_ids[e]) /\ worker'[e] = "running" /\ held'[e] = <<Header>>
        /\ csvq'[e] = csvq[e] /\ client'[e] = client[e] /\ got'[e] = got[e]
    BY <1>2, ZenonT(30) DEF TypeOK, Fetch, Set, Stop, query, csv, browser
  <2>2. phase[e] = "fetch"
    BY <1>2, Zenon DEF Fetch
  <2>w. worker[e] = "none"
    BY <2>2, LineType DEF Line, Reach
  <2>n. qhand[e] = <<>>
    BY <2>w DEF Line, Lined
  <2>p. Present(cdr_ids[e]) \in Seq(Cdr) /\ Present(cdr_ids[e]) \in Seq(Item) /\ Len(Present(cdr_ids[e])) \in Nat
    <3>1. Present(cdr_ids[e]) \in Seq(Cdr)
      BY PresentType DEF TypeOK
    <3>. QED  BY <3>1, ItemSequences
  <2>3. Reach(e)'
    BY <1>2, <2>1, <2>2, <2>w, <2>n, <2>p, LineType DEF Line, Reach
  <2>4. QueryOver(e) = QueryOver(e) /\ QueryOver(e)' = TRUE
    BY <2>1, <2>n DEF QueryOver
  <2>5. Lined(result[e], cursor[e] + 1, QueryOver(e), got[e], csvq[e], held[e], rowq[e],
            qhand[e], "none", client[e])
    BY <1>2, <2>2, <2>4, <2>w, Zenon DEF Line
  <2>6. Lined(Present(cdr_ids[e]), Len(Present(cdr_ids[e])) + 1, TRUE, got[e], csvq[e],
            <<Header>>, Present(cdr_ids[e]), qhand[e], "running", client[e])
    BY <1>2, <2>2, <2>5, <2>p, LineType, MoveFetch DEF Line, Reach
  <2>. QED  BY <2>1, <2>3, <2>4, <2>6, Zenon DEF Line
<1>. QED  BY <1>1, <1>2

LEMMA LinePostFails ==
  ASSUME TypeOK, NEW e \in Exports, PostFails(e), Sound(e), Line(e)
  PROVE  Line(e)'
<1>1. /\ result'[e] = result[e] /\ cursor'[e] = cursor[e] /\ qhand'[e] = qhand[e] /\ rowq'[e] = rowq[e]
     /\ worker'[e] = worker[e] /\ held'[e] = held[e] /\ csvq'[e] = csvq[e]
     /\ client'[e] = client[e] /\ got'[e] = got[e]
  BY ZenonT(30) DEF TypeOK, PostFails, Set, query, csv, browser
<1>2. phase[e] # "streaming" /\ phase'[e] # "streaming"
  <2>1. phase[e] \in {"resolve", "fetch"}
    BY Zenon DEF PostFails
  <2>2. phase'[e] = "error"
    BY ZenonT(30) DEF TypeOK, PostFails, Set
  <2>. QED  BY <2>1, <2>2
<1>. QED  BY <1>1, <1>2, LineIdle

LEMMA LineExecute ==
  ASSUME TypeOK, NEW e \in Exports, Execute(e), Sound(e), Line(e)
  PROVE  Line(e)'
<1>1. /\ phase'[e] = phase[e] /\ result'[e] = Matching(asked[e]) /\ conn'[e] = conn[e]
      /\ cursor'[e] = cursor[e] /\ qhand'[e] = qhand[e] /\ rowq'[e] = rowq[e]
      /\ worker'[e] = worker[e] /\ held'[e] = held[e] /\ csvq'[e] = csvq[e]
      /\ client'[e] = client[e] /\ got'[e] = got[e]
  BY ZenonT(30) DEF TypeOK, Execute, Set, Stop, query, csv, browser
<1>2. result[e] = None
  BY Zenon DEF Execute
<1>n. cursor[e] = 0 /\ cursor[e] + 1 = 1
  BY <1>2 DEF Line, Reach
<1>p. Matching(asked[e]) \in Seq(Cdr) /\ Len(Matching(asked[e])) \in Nat
  <2>1. asked[e] \in Requests /\ rows \subseteq Cdr
    BY DEF TypeOK
  <2>. QED  BY <2>1, MatchingType
<1>3. Reach(e)'
  BY <1>1, <1>2, <1>n, <1>p, LineType DEF Line, Reach
<1>4. QueryOver(e) = QueryOver(e) /\ QueryOver(e)' = QueryOver(e)
  BY <1>1 DEF QueryOver
<1>5. Lined(result[e], 1, QueryOver(e), got[e], csvq[e], held[e], rowq[e], qhand[e], worker[e],
          client[e])
  BY <1>n, Zenon DEF Line
<1>6. Lined(Matching(asked[e]), 1, QueryOver(e), got[e], csvq[e], held[e], rowq[e], qhand[e],
          worker[e], client[e])
  BY <1>2, <1>5, LineType, MoveExecute DEF Line, Reach
<1>. QED  BY <1>1, <1>3, <1>4, <1>6, <1>n, Zenon DEF Line

LEMMA LineNextRow ==
  ASSUME TypeOK, NEW e \in Exports, NextRow(e), Sound(e), Line(e)
  PROVE  Line(e)'
<1>1. /\ phase'[e] = phase[e] /\ result'[e] = result[e] /\ conn'[e] = conn[e]
      /\ cursor'[e] = cursor[e] + 1 /\ qhand'[e] = <<result[e][cursor[e] + 1]>>
      /\ rowq'[e] = rowq[e] /\ worker'[e] = worker[e] /\ held'[e] = held[e]
      /\ csvq'[e] = csvq[e] /\ client'[e] = client[e] /\ got'[e] = got[e]
  BY ZenonT(30) DEF TypeOK, NextRow, Set, Stop, query, csv, browser
<1>2. /\ phase[e] = "streaming" /\ conn[e] = "open" /\ qhand[e] = <<>>
      /\ cursor[e] < Len(result[e]) /\ result[e] # None
  BY Zenon DEF NextRow, Streaming
<1>s. result[e][cursor[e] + 1] = Slot(result[e], cursor[e] + 1 + 1) /\ result[e][cursor[e] + 1] \in Item
  BY <1>2, LineType, ItemType DEF Slot
<1>3. Reach(e)'
  BY <1>1, <1>2, LineType DEF Line, Reach
<1>4. QueryOver(e) = FALSE /\ QueryOver(e)' = FALSE
  BY <1>1, <1>2 DEF QueryOver
<1>5. Lined(result[e], cursor[e] + 1, FALSE, got[e], csvq[e], held[e], rowq[e], <<>>, worker[e],
          client[e])
  BY <1>2, <1>4, Zenon DEF Line
<1>6. Lined(result[e], cursor[e] + 1 + 1, FALSE, got[e], csvq[e], held[e], rowq[e],
          <<result[e][cursor[e] + 1]>>, worker[e], client[e])
  BY <1>2, <1>5, <1>s, LineType, MoveNextRow DEF Line, Reach
<1>. QED  BY <1>1, <1>3, <1>4, <1>6, Zenon DEF Line

LEMMA LineDbError ==
  ASSUME TypeOK, NEW e \in Exports, DbError(e), Sound(e), Line(e)
  PROVE  Line(e)'
<1>1. /\ phase'[e] = phase[e] /\ result'[e] = result[e] /\ conn'[e] = conn[e]
      /\ cursor'[e] = cursor[e] /\ qhand'[e] = <<RowError>> /\ rowq'[e] = rowq[e]
      /\ worker'[e] = worker[e] /\ held'[e] = held[e] /\ csvq'[e] = csvq[e]
      /\ client'[e] = client[e] /\ got'[e] = got[e]
  BY ZenonT(30) DEF TypeOK, DbError, Set, Stop, query, csv, browser
<1>2. phase[e] = "streaming" /\ conn[e] = "open" /\ qhand[e] = <<>>
  BY Zenon DEF DbError, Streaming
<1>3. Reach(e)'
  BY <1>1, <1>2, LineType DEF Line, Reach
<1>4. QueryOver(e) = FALSE /\ QueryOver(e)' = FALSE
  BY <1>1, <1>2 DEF QueryOver
<1>5. Lined(result[e], cursor[e] + 1, FALSE, got[e], csvq[e], held[e], rowq[e], <<>>, worker[e],
          client[e])
  BY <1>2, <1>4, Zenon DEF Line
<1>6. Lined(result[e], cursor[e] + 1, FALSE, got[e], csvq[e], held[e], rowq[e], <<RowError>>,
          worker[e], client[e])
  BY <1>2, <1>5, LineType, MoveError DEF Line, Reach
<1>. QED  BY <1>1, <1>3, <1>4, <1>6, Zenon DEF Line

LEMMA LineEndOfRows ==
  ASSUME TypeOK, NEW e \in Exports, EndOfRows(e), Sound(e), Line(e)
  PROVE  Line(e)'
<1>1. /\ phase'[e] = phase[e] /\ result'[e] = result[e] /\ conn'[e] = "done"
      /\ cursor'[e] = cursor[e] /\ qhand'[e] = qhand[e] /\ rowq'[e] = rowq[e]
      /\ worker'[e] = worker[e] /\ held'[e] = held[e] /\ csvq'[e] = csvq[e]
      /\ client'[e] = client[e] /\ got'[e] = got[e]
  BY ZenonT(30) DEF TypeOK, EndOfRows, Set, Stop, query, csv, browser
<1>2. phase[e] = "streaming" /\ conn[e] = "open" /\ qhand[e] = <<>>
  BY Zenon DEF EndOfRows, Streaming
<1>3. Reach(e)'
  BY <1>1, <1>2, LineType DEF Line, Reach
<1>4. QueryOver(e) = FALSE /\ QueryOver(e)' = TRUE
  BY <1>1, <1>2 DEF QueryOver
<1>5. Lined(result[e], cursor[e] + 1, FALSE, got[e], csvq[e], held[e], rowq[e], <<>>, worker[e],
          client[e])
  BY <1>2, <1>4, Zenon DEF Line
<1>6. Lined(result[e], cursor[e] + 1, TRUE, got[e], csvq[e], held[e], rowq[e], <<>>, worker[e],
          client[e])
  BY <1>2, <1>5, LineType, MoveEndOfRows DEF Line, Reach
<1>. QED  BY <1>1, <1>2, <1>3, <1>4, <1>6, Zenon DEF Line

LEMMA LineSendRow ==
  ASSUME TypeOK, NEW e \in Exports, SendRow(e), Sound(e), Line(e)
  PROVE  Line(e)'
<1>0. qhand[e] # <<>> /\ qhand[e] = <<Head(qhand[e])>> /\ Head(qhand[e]) \in Item
  <2>1. Len(qhand[e]) <= 1 /\ qhand[e] # <<>> /\ qhand[e] \in Seq(Item)
    BY LineType DEF SendRow, Sound, Hands
  <2>. QED  BY <2>1
<1>w. worker[e] # "none"
  BY <1>0 DEF Line, Lined
<1>1. CASE worker[e] = "done"
  <2>1. /\ phase'[e] = phase[e] /\ result'[e] = result[e] /\ conn'[e] = "done"
        /\ cursor'[e] = cursor[e] /\ qhand'[e] = <<>> /\ rowq'[e] = rowq[e]
        /\ worker'[e] = worker[e] /\ held'[e] = held[e] /\ csvq'[e] = csvq[e]
        /\ client'[e] = client[e] /\ got'[e] = got[e]
    BY <1>1, ZenonT(30) DEF TypeOK, SendRow, Set, Stop, query, csv, browser
  <2>2. qhand[e] # <<>>
    BY <1>1, Zenon DEF SendRow
  <2>3. Reach(e)'
    BY <1>1, <2>1, <2>2, LineType DEF Line, Reach
  <2>4. QueryOver(e) = FALSE /\ QueryOver(e)' = TRUE
    BY <1>1, <2>1, <2>2 DEF QueryOver
  <2>5. Lined(result[e], cursor[e] + 1, FALSE, got[e], csvq[e], held[e], rowq[e], qhand[e],
            "done", client[e])
    BY <1>1, <2>2, <2>4, Zenon DEF Line
  <2>6. Lined(result[e], cursor[e] + 1, TRUE, got[e], csvq[e], held[e], rowq[e], <<>>, "done",
            client[e])
    BY <1>1, <2>2, <2>5, LineType, MoveDropRow DEF Line, Reach
  <2>. QED  BY <1>1, <2>1, <2>3, <2>4, <2>6, Zenon DEF Line
<1>2. CASE worker[e] # "done" /\ Head(qhand[e]) = RowError
  <2>1. /\ phase'[e] = phase[e] /\ result'[e] = result[e] /\ conn'[e] = "done"
        /\ cursor'[e] = cursor[e] /\ qhand'[e] = <<>>
        /\ rowq'[e] = Append(rowq[e], Head(qhand[e])) /\ worker'[e] = worker[e]
        /\ held'[e] = held[e] /\ csvq'[e] = csvq[e] /\ client'[e] = client[e]
        /\ got'[e] = got[e]
    BY <1>2, ZenonT(30) DEF TypeOK, SendRow, Set, Stop, query, csv, browser
  <2>2. qhand[e] # <<>>
    BY <1>2, Zenon DEF SendRow
  <2>w. worker[e] = "running"
    BY <1>2, <1>w, LineType
  <2>p. Proper(result[e], cursor[e] + 1)
    BY LineProper DEF Line
  <2>o. (Head(qhand[e]) = RowError) = TRUE
    BY <1>2
  <2>3. Reach(e)'
    BY <1>2, <2>1, <2>2, LineType DEF Line, Reach
  <2>4. QueryOver(e) = FALSE /\ QueryOver(e)' = TRUE
    BY <1>2, <2>1, <2>2 DEF QueryOver
  <2>5. Lined(result[e], cursor[e] + 1, FALSE, got[e], csvq[e], held[e], rowq[e],
            <<Head(qhand[e])>>, "running", client[e])
    BY <1>2, <2>2, <2>4, <1>0, <2>w, Zenon DEF Line
  <2>6. Lined(result[e], cursor[e] + 1, TRUE, got[e], csvq[e], held[e], Append(rowq[e],
            Head(qhand[e])), <<>>, "running", client[e])
    BY <1>2, <2>2, <2>5, <1>0, <2>w, <2>p, <2>o, LineType, MoveSendRow DEF Line, Reach
  <2>. QED  BY <2>1, <2>3, <2>4, <2>6, <2>w, Zenon DEF Line
<1>3. CASE worker[e] # "done" /\ Head(qhand[e]) # RowError
  <2>1. /\ phase'[e] = phase[e] /\ result'[e] = result[e] /\ conn'[e] = conn[e]
        /\ cursor'[e] = cursor[e] /\ qhand'[e] = <<>>
        /\ rowq'[e] = Append(rowq[e], Head(qhand[e])) /\ worker'[e] = worker[e]
        /\ held'[e] = held[e] /\ csvq'[e] = csvq[e] /\ client'[e] = client[e]
        /\ got'[e] = got[e]
    BY <1>3, ZenonT(30) DEF TypeOK, SendRow, Set, Stop, query, csv, browser
  <2>2. qhand[e] # <<>>
    BY <1>3, Zenon DEF SendRow
  <2>w. worker[e] = "running"
    BY <1>3, <1>w, LineType
  <2>p. Proper(result[e], cursor[e] + 1)
    BY LineProper DEF Line
  <2>o. (Head(qhand[e]) = RowError) = FALSE
    BY <1>3
  <2>3. Reach(e)'
    BY <1>3, <2>1, <2>2, LineType DEF Line, Reach
  <2>4. QueryOver(e) = FALSE /\ QueryOver(e)' = FALSE
    BY <1>3, <1>0, <2>1, <2>2 DEF QueryOver, Line, Reach
  <2>5. Lined(result[e], cursor[e] + 1, FALSE, got[e], csvq[e], held[e], rowq[e],
            <<Head(qhand[e])>>, "running", client[e])
    BY <1>3, <2>2, <2>4, <1>0, <2>w, Zenon DEF Line
  <2>6. Lined(result[e], cursor[e] + 1, FALSE, got[e], csvq[e], held[e], Append(rowq[e],
            Head(qhand[e])), <<>>, "running", client[e])
    BY <1>3, <2>2, <2>5, <1>0, <2>w, <2>p, <2>o, LineType, MoveSendRow DEF Line, Reach
  <2>. QED  BY <2>1, <2>3, <2>4, <2>6, <2>w, Zenon DEF Line
<1>. QED  BY <1>1, <1>2, <1>3

LEMMA LinePush ==
  ASSUME TypeOK, NEW e \in Exports, Push(e), Sound(e), Line(e)
  PROVE  Line(e)'
<1>0. worker[e] = "running" /\ held[e] # <<>> /\ held[e] = <<Head(held[e])>> /\ Head(held[e]) \in Item
  <2>1. /\ Len(held[e]) <= 1 /\ held[e] # <<>> /\ held[e] \in Seq(Item)
        /\ worker[e] = "running"
    BY LineType DEF Push, Running, Sound, Hands
  <2>. QED  BY <2>1
<1>1. CASE client[e] = "gone"
  <2>1. /\ phase'[e] = phase[e] /\ result'[e] = result[e] /\ conn'[e] = conn[e]
        /\ cursor'[e] = cursor[e] /\ qhand'[e] = qhand[e] /\ rowq'[e] = <<>>
        /\ worker'[e] = "done" /\ held'[e] = <<>> /\ csvq'[e] = csvq[e]
        /\ client'[e] = client[e] /\ got'[e] = got[e]
    BY <1>1, ZenonT(30) DEF TypeOK, Push, Set, Stop, query, csv, browser
  <2>2. worker[e] = "running" /\ client[e] = "gone"
    BY <1>1, Zenon DEF Push, Running
  <2>3. Reach(e)'
    BY <1>1, <2>1, <2>2, LineType DEF Line, Reach
  <2>4. QueryOver(e)' = QueryOver(e)
    BY <2>1 DEF QueryOver
  <2>5. Lined(result[e], cursor[e] + 1, QueryOver(e), got[e], csvq[e], held[e], rowq[e],
            qhand[e], worker[e], client[e])
    BY <1>1, <2>2, Zenon DEF Line
  <2>6. Lined(result[e], cursor[e] + 1, QueryOver(e), got[e], csvq[e], <<>>, <<>>, qhand[e],
            "done", client[e])
    BY <1>1, <2>2, <2>5, LineType, MoveUnread DEF Line, Reach
  <2>. QED  BY <2>1, <2>2, <2>3, <2>4, <2>6, Zenon DEF Line
<1>2. CASE client[e] # "gone" /\ Head(held[e]) = Broken
  <2>1. /\ phase'[e] = phase[e] /\ result'[e] = result[e] /\ conn'[e] = conn[e]
        /\ cursor'[e] = cursor[e] /\ qhand'[e] = qhand[e] /\ rowq'[e] = <<>>
        /\ worker'[e] = "done" /\ held'[e] = <<>> /\ csvq'[e] = Append(csvq[e], Broken)
        /\ client'[e] = client[e] /\ got'[e] = got[e]
    BY <1>2, ZenonT(30) DEF TypeOK, Push, Set, Stop, query, csv, browser
  <2>2. worker[e] = "running"
    BY <1>2, Zenon DEF Push, Running
  <2>h. held[e] = <<Broken>>
    BY <1>0, <1>2
  <2>3. Reach(e)'
    BY <1>2, <2>1, <2>2, LineType DEF Line, Reach
  <2>4. QueryOver(e)' = QueryOver(e)
    BY <2>1 DEF QueryOver
  <2>5. Lined(result[e], cursor[e] + 1, QueryOver(e), got[e], csvq[e], <<Broken>>, rowq[e],
            qhand[e], "running", client[e])
    BY <1>2, <2>2, <2>h, Zenon DEF Line
  <2>6. Lined(result[e], cursor[e] + 1, QueryOver(e), got[e], Append(csvq[e], Broken), <<>>,
            <<>>, qhand[e], "done", client[e])
    BY <1>2, <2>2, <2>5, LineType, MovePushCut DEF Line, Reach
  <2>. QED  BY <2>1, <2>2, <2>3, <2>4, <2>6, Zenon DEF Line
<1>3. CASE client[e] # "gone" /\ Head(held[e]) # Broken
  <2>1. /\ phase'[e] = phase[e] /\ result'[e] = result[e] /\ conn'[e] = conn[e]
        /\ cursor'[e] = cursor[e] /\ qhand'[e] = qhand[e] /\ rowq'[e] = rowq[e]
        /\ worker'[e] = worker[e] /\ held'[e] = <<>>
        /\ csvq'[e] = Append(csvq[e], Head(held[e])) /\ client'[e] = client[e]
        /\ got'[e] = got[e]
    BY <1>3, ZenonT(30) DEF TypeOK, Push, Set, Stop, query, csv, browser
  <2>2. worker[e] = "running"
    BY <1>3, Zenon DEF Push, Running
  <2>3. Reach(e)'
    BY <1>3, <2>1, <2>2, LineType DEF Line, Reach
  <2>4. QueryOver(e)' = QueryOver(e)
    BY <2>1 DEF QueryOver
  <2>5. Lined(result[e], cursor[e] + 1, QueryOver(e), got[e], csvq[e], <<Head(held[e])>>,
            rowq[e], qhand[e], "running", client[e])
    BY <1>3, <2>2, <1>0, Zenon DEF Line
  <2>6. Lined(result[e], cursor[e] + 1, QueryOver(e), got[e], Append(csvq[e], Head(held[e])),
            <<>>, rowq[e], qhand[e], "running", client[e])
    BY <1>3, <2>2, <2>5, <1>0, LineType, MovePush DEF Line, Reach
  <2>. QED  BY <2>1, <2>2, <2>3, <2>4, <2>6, Zenon DEF Line
<1>. QED  BY <1>1, <1>2, <1>3

LEMMA LinePull ==
  ASSUME TypeOK, NEW e \in Exports, Pull(e), Sound(e), Line(e)
  PROVE  Line(e)'
<1>1. CASE Head(rowq[e]) = RowError
  <2>1. /\ phase'[e] = phase[e] /\ result'[e] = result[e] /\ conn'[e] = conn[e]
        /\ cursor'[e] = cursor[e] /\ qhand'[e] = qhand[e] /\ rowq'[e] = <<>>
        /\ worker'[e] = "done" /\ held'[e] = <<>> /\ csvq'[e] = csvq[e]
        /\ client'[e] = client[e] /\ got'[e] = got[e]
    BY <1>1, ZenonT(30) DEF TypeOK, Pull, Set, Stop, query, csv, browser
  <2>2. worker[e] = "running" /\ held[e] = <<>> /\ rowq[e] # <<>>
    BY <1>1, Zenon DEF Pull, Running
  <2>p. Proper(result[e], cursor[e] + 1)
    BY LineProper DEF Line
  <2>3. Reach(e)'
    BY <1>1, <2>1, <2>2, LineType DEF Line, Reach
  <2>4. QueryOver(e)' = QueryOver(e)
    BY <2>1 DEF QueryOver
  <2>5. Lined(result[e], cursor[e] + 1, QueryOver(e), got[e], csvq[e], <<>>, rowq[e], qhand[e],
            "running", client[e])
    BY <1>1, <2>2, Zenon DEF Line
  <2>6. Lined(result[e], cursor[e] + 1, QueryOver(e), got[e], csvq[e], <<>>, <<>>, qhand[e],
            "done", client[e])
    BY <1>1, <2>2, <2>5, <2>p, LineType, MovePullError DEF Line, Reach
  <2>. QED  BY <2>1, <2>2, <2>3, <2>4, <2>6, Zenon DEF Line
<1>2. CASE Head(rowq[e]) # RowError
  <2>1. /\ phase'[e] = phase[e] /\ result'[e] = result[e] /\ conn'[e] = conn[e]
        /\ cursor'[e] = cursor[e] /\ qhand'[e] = qhand[e] /\ rowq'[e] = Tail(rowq[e])
        /\ worker'[e] = worker[e] /\ held'[e] = <<Head(rowq[e])>> /\ csvq'[e] = csvq[e]
        /\ client'[e] = client[e] /\ got'[e] = got[e]
    BY <1>2, ZenonT(30) DEF TypeOK, Pull, Set, Stop, query, csv, browser
  <2>2. worker[e] = "running" /\ held[e] = <<>> /\ rowq[e] # <<>>
    BY <1>2, Zenon DEF Pull, Running
  <2>3. Reach(e)'
    BY <1>2, <2>1, <2>2, LineType DEF Line, Reach
  <2>4. QueryOver(e)' = QueryOver(e)
    BY <2>1 DEF QueryOver
  <2>5. Lined(result[e], cursor[e] + 1, QueryOver(e), got[e], csvq[e], <<>>, rowq[e], qhand[e],
            "running", client[e])
    BY <1>2, <2>2, Zenon DEF Line
  <2>6. Lined(result[e], cursor[e] + 1, QueryOver(e), got[e], csvq[e], <<Head(rowq[e])>>,
            Tail(rowq[e]), qhand[e], "running", client[e])
    BY <1>2, <2>2, <2>5, LineType, MovePull DEF Line, Reach
  <2>. QED  BY <2>1, <2>2, <2>3, <2>4, <2>6, Zenon DEF Line
<1>. QED  BY <1>1, <1>2

LEMMA LineFirstRowTimesOut ==
  ASSUME TypeOK, NEW e \in Exports, FirstRowTimesOut(e), Sound(e), Line(e)
  PROVE  Line(e)'
<1>1. /\ phase'[e] = phase[e] /\ result'[e] = result[e] /\ conn'[e] = conn[e]
      /\ cursor'[e] = cursor[e] /\ qhand'[e] = qhand[e] /\ rowq'[e] = rowq[e]
      /\ worker'[e] = worker[e] /\ held'[e] = <<Broken>> /\ csvq'[e] = csvq[e]
      /\ client'[e] = client[e] /\ got'[e] = got[e]
  BY ZenonT(30) DEF TypeOK, FirstRowTimesOut, Set, Stop, query, csv, browser
<1>2. worker[e] = "running" /\ held[e] = <<>>
  BY Zenon DEF FirstRowTimesOut, Running
<1>3. Reach(e)'
  BY <1>1, <1>2, LineType DEF Line, Reach
<1>4. QueryOver(e)' = QueryOver(e)
  BY <1>1 DEF QueryOver
<1>5. Lined(result[e], cursor[e] + 1, QueryOver(e), got[e], csvq[e], <<>>, rowq[e], qhand[e],
          "running", client[e])
  BY <1>2, Zenon DEF Line
<1>6. Lined(result[e], cursor[e] + 1, QueryOver(e), got[e], csvq[e], <<Broken>>, rowq[e],
          qhand[e], "running", client[e])
  BY <1>2, <1>5, LineType, MoveTimesOut DEF Line, Reach
<1>. QED  BY <1>1, <1>2, <1>3, <1>4, <1>6, Zenon DEF Line

LEMMA LineNoMoreRows ==
  ASSUME TypeOK, NEW e \in Exports, NoMoreRows(e), Sound(e), Line(e)
  PROVE  Line(e)'
<1>1. /\ phase'[e] = phase[e] /\ result'[e] = result[e] /\ conn'[e] = conn[e]
      /\ cursor'[e] = cursor[e] /\ qhand'[e] = qhand[e] /\ rowq'[e] = <<>>
      /\ worker'[e] = "done" /\ held'[e] = <<>> /\ csvq'[e] = csvq[e]
      /\ client'[e] = client[e] /\ got'[e] = got[e]
  BY ZenonT(30) DEF TypeOK, NoMoreRows, Set, Stop, query, csv, browser
<1>2. worker[e] = "running" /\ held[e] = <<>> /\ rowq[e] = <<>> /\ QueryOver(e)
  BY Zenon DEF NoMoreRows, Running
<1>3. Reach(e)'
  BY <1>1, <1>2, LineType DEF Line, Reach
<1>4. QueryOver(e) = TRUE /\ QueryOver(e)' = TRUE
  BY <1>1, <1>2 DEF QueryOver
<1>5. Lined(result[e], cursor[e] + 1, TRUE, got[e], csvq[e], <<>>, <<>>, qhand[e], "running",
          client[e])
  BY <1>2, <1>4, Zenon DEF Line
<1>6. Lined(result[e], cursor[e] + 1, TRUE, got[e], csvq[e], <<>>, <<>>, qhand[e], "done",
          client[e])
  BY <1>2, <1>5, LineType, MoveNoMoreRows DEF Line, Reach
<1>. QED  BY <1>1, <1>3, <1>4, <1>6, Zenon DEF Line

LEMMA LineRead ==
  ASSUME TypeOK, NEW e \in Exports, Read(e), Sound(e), Line(e)
  PROVE  Line(e)'
<1>1. CASE Head(csvq[e]) = Broken
  <2>1. /\ phase'[e] = phase[e] /\ result'[e] = result[e] /\ conn'[e] = conn[e]
        /\ cursor'[e] = cursor[e] /\ qhand'[e] = qhand[e] /\ rowq'[e] = rowq[e]
        /\ worker'[e] = worker[e] /\ held'[e] = held[e] /\ csvq'[e] = Tail(csvq[e])
        /\ client'[e] = "aborted" /\ got'[e] = Append(got[e], Head(csvq[e]))
    BY <1>1, ZenonT(30) DEF TypeOK, Read, Set, Stop, query, csv, browser
  <2>2. client[e] = "reading" /\ csvq[e] # <<>>
    BY <1>1, Zenon DEF Read
  <2>i. Head(csvq[e]) \in Item
    BY <2>2, LineType
  <2>3. Reach(e)'
    BY <1>1, <2>1, <2>2, LineType DEF Line, Reach
  <2>4. QueryOver(e)' = QueryOver(e)
    BY <2>1 DEF QueryOver
  <2>5. Lined(result[e], cursor[e] + 1, QueryOver(e), got[e], csvq[e], held[e], rowq[e],
            qhand[e], worker[e], "reading")
    BY <1>1, <2>2, Zenon DEF Line
  <2>6. Lined(result[e], cursor[e] + 1, QueryOver(e), Append(got[e], Head(csvq[e])),
            Tail(csvq[e]), held[e], rowq[e], qhand[e], worker[e], "aborted")
    BY <1>1, <2>2, <2>5, <2>i, LineType, MoveReadCut DEF Line, Reach
  <2>. QED  BY <2>1, <2>2, <2>3, <2>4, <2>6, Zenon DEF Line
<1>2. CASE Head(csvq[e]) # Broken
  <2>1. /\ phase'[e] = phase[e] /\ result'[e] = result[e] /\ conn'[e] = conn[e]
        /\ cursor'[e] = cursor[e] /\ qhand'[e] = qhand[e] /\ rowq'[e] = rowq[e]
        /\ worker'[e] = worker[e] /\ held'[e] = held[e] /\ csvq'[e] = Tail(csvq[e])
        /\ client'[e] = client[e] /\ got'[e] = Append(got[e], Head(csvq[e]))
    BY <1>2, ZenonT(30) DEF TypeOK, Read, Set, Stop, query, csv, browser
  <2>2. client[e] = "reading" /\ csvq[e] # <<>>
    BY <1>2, Zenon DEF Read
  <2>3. Reach(e)'
    BY <1>2, <2>1, <2>2, LineType DEF Line, Reach
  <2>4. QueryOver(e)' = QueryOver(e)
    BY <2>1 DEF QueryOver
  <2>5. Lined(result[e], cursor[e] + 1, QueryOver(e), got[e], csvq[e], held[e], rowq[e],
            qhand[e], worker[e], "reading")
    BY <1>2, <2>2, Zenon DEF Line
  <2>6. Lined(result[e], cursor[e] + 1, QueryOver(e), Append(got[e], Head(csvq[e])),
            Tail(csvq[e]), held[e], rowq[e], qhand[e], worker[e], "reading")
    BY <1>2, <2>2, <2>5, LineType, MoveRead DEF Line, Reach
  <2>. QED  BY <2>1, <2>2, <2>3, <2>4, <2>6, Zenon DEF Line
<1>. QED  BY <1>1, <1>2

LEMMA LineSeeEnd ==
  ASSUME TypeOK, NEW e \in Exports, SeeEnd(e), Sound(e), Line(e)
  PROVE  Line(e)'
<1>1. /\ phase'[e] = phase[e] /\ result'[e] = result[e] /\ conn'[e] = conn[e]
      /\ cursor'[e] = cursor[e] /\ qhand'[e] = qhand[e] /\ rowq'[e] = rowq[e]
      /\ worker'[e] = worker[e] /\ held'[e] = held[e] /\ csvq'[e] = csvq[e]
      /\ client'[e] = "complete" /\ got'[e] = got[e]
  BY ZenonT(30) DEF TypeOK, SeeEnd, Set, Stop, query, csv, browser
<1>2. client[e] = "reading" /\ worker[e] = "done" /\ csvq[e] = <<>>
  BY Zenon DEF SeeEnd
<1>3. Reach(e)'
  BY <1>1, <1>2, LineType DEF Line, Reach
<1>4. QueryOver(e)' = QueryOver(e)
  BY <1>1 DEF QueryOver
<1>5. Lined(result[e], cursor[e] + 1, QueryOver(e), got[e], <<>>, held[e], rowq[e], qhand[e],
          "done", "reading")
  BY <1>2, Zenon DEF Line
<1>6. Lined(result[e], cursor[e] + 1, QueryOver(e), got[e], <<>>, held[e], rowq[e], qhand[e],
          "done", "complete")
  BY <1>2, <1>5, LineType, MoveSeeEnd DEF Line, Reach
<1>. QED  BY <1>1, <1>2, <1>3, <1>4, <1>6, Zenon DEF Line

LEMMA LineHangUp ==
  ASSUME TypeOK, NEW e \in Exports, HangUp(e), Sound(e), Line(e)
  PROVE  Line(e)'
<1>1. CASE phase[e] = "streaming"
  <2>1. /\ phase'[e] = phase[e] /\ result'[e] = result[e] /\ conn'[e] = conn[e]
        /\ cursor'[e] = cursor[e] /\ qhand'[e] = qhand[e] /\ rowq'[e] = rowq[e]
        /\ worker'[e] = worker[e] /\ held'[e] = held[e] /\ csvq'[e] = <<>>
        /\ client'[e] = "gone" /\ got'[e] = got[e]
    BY <1>1, ZenonT(30) DEF TypeOK, HangUp, Set, Stop, query, csv, browser
  <2>2. client[e] = "reading"
    BY <1>1, Zenon DEF HangUp
  <2>3. Reach(e)'
    BY <1>1, <2>1, <2>2, LineType DEF Line, Reach
  <2>4. QueryOver(e)' = QueryOver(e)
    BY <2>1 DEF QueryOver
  <2>5. Lined(result[e], cursor[e] + 1, QueryOver(e), got[e], csvq[e], held[e], rowq[e],
            qhand[e], worker[e], "reading")
    BY <1>1, <2>2, Zenon DEF Line
  <2>6. Lined(result[e], cursor[e] + 1, QueryOver(e), got[e], <<>>, held[e], rowq[e], qhand[e],
            worker[e], "gone")
    BY <1>1, <2>2, <2>5, LineType, MoveHangUp DEF Line, Reach
  <2>. QED  BY <2>1, <2>2, <2>3, <2>4, <2>6, Zenon DEF Line
<1>2. CASE phase[e] # "streaming"
  <2>1. /\ phase'[e] = "dropped" /\ result'[e] = result[e] /\ conn'[e] = "done"
        /\ cursor'[e] = cursor[e] /\ qhand'[e] = qhand[e] /\ rowq'[e] = rowq[e]
        /\ worker'[e] = worker[e] /\ held'[e] = held[e] /\ csvq'[e] = <<>>
        /\ client'[e] = "gone" /\ got'[e] = got[e]
    BY <1>2, ZenonT(30) DEF TypeOK, HangUp, Set, Stop, query, csv, browser
  <2>2. client[e] = "reading"
    BY <1>2, Zenon DEF HangUp
  <2>w. worker[e] = "none"
    BY <1>2, LineType DEF Line, Reach
  <2>n. qhand[e] = <<>>
    BY <2>w DEF Line, Lined
  <2>3. Reach(e)'
    BY <1>2, <2>1, <2>2, <2>w, <2>n, LineType DEF Line, Reach
  <2>5. Lined(result[e], cursor[e] + 1, QueryOver(e), got[e], csvq[e], held[e], rowq[e],
            qhand[e], worker[e], "reading")
    BY <1>2, <2>2, Zenon DEF Line
  <2>6. Lined(result[e], cursor[e] + 1, QueryOver(e)', got[e], <<>>, held[e], rowq[e], qhand[e],
            worker[e], "gone")
    BY <1>2, <2>2, <2>5, LineType, MoveHangUp DEF Line, Reach
  <2>. QED  BY <2>1, <2>3, <2>6, Zenon DEF Line
<1>. QED  BY <1>1, <1>2

-----------------------------------------------------------------------------

RowsInv == IInv /\ \A e \in Exports : Line(e)

LEMMA LineInit == Init => RowsInv
<1>. SUFFICES ASSUME Init  PROVE RowsInv
  OBVIOUS
<1>1. ASSUME NEW e \in Exports  PROVE Line(e)
  <2>1. /\ phase[e] = "idle" /\ result[e] = None /\ conn[e] = "none" /\ cursor[e] = 0
        /\ qhand[e] = <<>> /\ rowq[e] = <<>> /\ worker[e] = "none" /\ held[e] = <<>>
        /\ csvq[e] = <<>> /\ client[e] = "reading" /\ got[e] = <<>>
    BY Zenon DEF Init
  <2>2. Reach(e)
    BY <2>1 DEF Reach
  <2>3. Lined(None, 1, QueryOver(e), <<>>, <<>>, <<>>, <<>>, <<>>, "none", "reading")
    BY DEF Lined, Received, Fits, Sent
  <2>4. cursor[e] + 1 = 1
    BY <2>1
  <2>. QED  BY <2>1, <2>2, <2>3, <2>4, Zenon DEF Line
<1>. QED  BY <1>1, WindInit DEF RowsInv

LEMMA LineStep == RowsInv /\ [Next]_vars => RowsInv'
<1>. SUFFICES ASSUME RowsInv, [Next]_vars  PROVE RowsInv'
  OBVIOUS
<1>1. TypeOK /\ IInv'
  BY WindStep DEF RowsInv, IInv
<1>2. \A e \in Exports : Sound(e) /\ Line(e)
  BY DEF RowsInv, IInv
<1>3. ASSUME NEW e \in Exports, Acquire(e)  PROVE \A d \in Exports : Line(d)'
  BY <1>1, <1>2, <1>3, LineAcquire, AloneAcquire, LineFrame
<1>4. ASSUME NEW e \in Exports, AcquireTimesOut(e)  PROVE \A d \in Exports : Line(d)'
  BY <1>1, <1>2, <1>4, LineAcquireTimesOut, AloneAcquireTimesOut, LineFrame
<1>5. ASSUME NEW e \in Exports, Get(e)  PROVE \A d \in Exports : Line(d)'
  BY <1>1, <1>2, <1>5, LineGet, AloneGet, LineFrame
<1>6. ASSUME NEW e \in Exports, Post(e)  PROVE \A d \in Exports : Line(d)'
  BY <1>1, <1>2, <1>6, LinePost, AlonePost, LineFrame
<1>7. ASSUME NEW e \in Exports, Resolve(e)  PROVE \A d \in Exports : Line(d)'
  BY <1>1, <1>2, <1>7, LineResolve, AloneResolve, LineFrame
<1>8. ASSUME NEW e \in Exports, Fetch(e)  PROVE \A d \in Exports : Line(d)'
  BY <1>1, <1>2, <1>8, LineFetch, AloneFetch, LineFrame
<1>9. ASSUME NEW e \in Exports, PostFails(e)  PROVE \A d \in Exports : Line(d)'
  BY <1>1, <1>2, <1>9, LinePostFails, AlonePostFails, LineFrame
<1>10. ASSUME NEW e \in Exports, Execute(e)  PROVE \A d \in Exports : Line(d)'
  BY <1>1, <1>2, <1>10, LineExecute, AloneExecute, LineFrame
<1>11. ASSUME NEW e \in Exports, NextRow(e)  PROVE \A d \in Exports : Line(d)'
  BY <1>1, <1>2, <1>11, LineNextRow, AloneNextRow, LineFrame
<1>12. ASSUME NEW e \in Exports, DbError(e)  PROVE \A d \in Exports : Line(d)'
  BY <1>1, <1>2, <1>12, LineDbError, AloneDbError, LineFrame
<1>13. ASSUME NEW e \in Exports, EndOfRows(e)  PROVE \A d \in Exports : Line(d)'
  BY <1>1, <1>2, <1>13, LineEndOfRows, AloneEndOfRows, LineFrame
<1>14. ASSUME NEW e \in Exports, SendRow(e)  PROVE \A d \in Exports : Line(d)'
  BY <1>1, <1>2, <1>14, LineSendRow, AloneSendRow, LineFrame
<1>15. ASSUME NEW e \in Exports, Push(e)  PROVE \A d \in Exports : Line(d)'
  BY <1>1, <1>2, <1>15, LinePush, AlonePush, LineFrame
<1>16. ASSUME NEW e \in Exports, Pull(e)  PROVE \A d \in Exports : Line(d)'
  BY <1>1, <1>2, <1>16, LinePull, AlonePull, LineFrame
<1>17. ASSUME NEW e \in Exports, FirstRowTimesOut(e)  PROVE \A d \in Exports : Line(d)'
  BY <1>1, <1>2, <1>17, LineFirstRowTimesOut, AloneFirstRowTimesOut, LineFrame
<1>18. ASSUME NEW e \in Exports, NoMoreRows(e)  PROVE \A d \in Exports : Line(d)'
  BY <1>1, <1>2, <1>18, LineNoMoreRows, AloneNoMoreRows, LineFrame
<1>19. ASSUME NEW e \in Exports, Read(e)  PROVE \A d \in Exports : Line(d)'
  BY <1>1, <1>2, <1>19, LineRead, AloneRead, LineFrame
<1>20. ASSUME NEW e \in Exports, SeeEnd(e)  PROVE \A d \in Exports : Line(d)'
  BY <1>1, <1>2, <1>20, LineSeeEnd, AloneSeeEnd, LineFrame
<1>21. ASSUME NEW e \in Exports, HangUp(e)  PROVE \A d \in Exports : Line(d)'
  BY <1>1, <1>2, <1>21, LineHangUp, AloneHangUp, LineFrame
<1>22. ASSUME UNCHANGED exports  PROVE \A d \in Exports : Line(d)'
  <2>1. ASSUME NEW d \in Exports  PROVE Mine(d)' = Mine(d)
    BY <1>22 DEF exports, query, csv, browser, Mine
  <2>. QED  BY <1>2, <2>1, LineFrame
<1>23. (\E p \in Pages : Page(p)) \/ Clean \/ UNCHANGED vars => UNCHANGED exports
  BY DEF Page, OpenPage, PageAcquires, PageAnswers, PageAcquireTimesOut, PageTimesOut, LeavePage,
         Clean, vars, exports, query, csv, browser
<1>24. \A d \in Exports : Line(d)'
  BY <1>3, <1>4, <1>5, <1>6, <1>7, <1>8, <1>9, <1>10, <1>11, <1>12, <1>13,
     <1>14, <1>15, <1>16, <1>17, <1>18, <1>19, <1>20, <1>21, <1>22, <1>23,
     Zenon DEF Next, Handler, Database, Worker
<1>. QED  BY <1>1, <1>24 DEF RowsInv

LEMMA LineRows == RowsInv => RowsArrive
<1>. SUFFICES ASSUME RowsInv, NEW e \in Exports
              PROVE  /\ \A k \in DOMAIN got[e] :
                          \/ got[e][k] = Broken /\ k = Len(got[e])
                          \/ k <= cursor[e] + 1 /\ got[e][k] = At(e, k)
                     /\ client[e] = "complete" => Len(got[e]) = cursor[e] + 1
  BY DEF RowsArrive
<1>1. TypeOK /\ Line(e)
  BY DEF RowsInv, IInv
<1>2. DOMAIN got[e] = 1..Len(got[e])
  BY <1>1, LineType
<1>3. \A k : At(e, k) = Slot(result[e], k)
  BY Zenon DEF At, Slot
<1>4. Received(result[e], cursor[e] + 1, got[e])
  BY <1>1 DEF Line, Lined
<1>5. client[e] = "complete" => Len(got[e]) = cursor[e] + 1
  BY <1>1 DEF Line, Lined
<1>. QED  BY <1>2, <1>3, <1>4, <1>5 DEF Received

\* What a client receives is the header and the rows of the result in order,
\* without a gap and each once, and an export that ends as it should is
\* complete, for any table, channels and number of exports.
THEOREM RowsInOrder == Spec => []RowsArrive
<1>. QED  BY LineInit, LineStep, LineRows, PTL DEF Spec

-----------------------------------------------------------------------------
(* The rows of a POST with ids: its result follows the list it was asked   *)
(* for, and nothing cuts its body off.                                     *)

Follows(s, ids) ==
  /\ \A k \in 1..Len(s) : s[k] \in ToSet(ids)
  /\ \A j, k \in 1..Len(s) : j < k => Place(ids, s[j]) < Place(ids, s[k])

Whole(s) == \A k \in 1..Len(s) : s[k] # Broken

ByIds(e) == asked[e].how = "post" /\ asked[e].ids # <<>>

Chosen(e) ==
  /\ phase[e] # "resolve"
  /\ phase[e] = "fetch" => Follows(cdr_ids[e], asked[e].ids)
  /\ phase[e] = "streaming" => result[e] # None
  /\ result[e] # None => Follows(result[e], asked[e].ids)

Unbroken(e) ==
  /\ first[e] = FALSE
  /\ Whole(qhand[e]) /\ Whole(rowq[e]) /\ Whole(held[e]) /\ Whole(csvq[e]) /\ Whole(got[e])

Ticked(e) == ByIds(e) => Chosen(e) /\ Unbroken(e)

LEMMA TickFrame ==
  ASSUME NEW e, Ticked(e), Mine(e)' = Mine(e)
  PROVE  Ticked(e)'
BY DEF Ticked, ByIds, Chosen, Unbroken, Mine

LEMMA WholeMoves ==
  /\ Whole(<<>>) /\ Whole(<<RowError>>) /\ Whole(<<Header>>)
  /\ \A i \in Item \ {Broken} : Whole(<<i>>)
  /\ \A s \in Seq(Item) : s # <<>> /\ Whole(s) => Whole(Tail(s)) /\ Head(s) \in Item \ {Broken}
  /\ \A s \in Seq(Item) : \A i \in Item \ {Broken} : Whole(s) => Whole(Append(s, i))
  /\ \A s \in Seq(Cdr) : Whole(s)
<1>1. Whole(<<>>)
  BY DEF Whole
<1>2. ASSUME NEW i \in Item \ {Broken}  PROVE Whole(<<i>>)
  BY DEF Whole
<1>3. RowError \in Item \ {Broken} /\ Header \in Item \ {Broken}
  BY ItemType
<1>4. ASSUME NEW s \in Seq(Item), s # <<>>, Whole(s)
      PROVE  Whole(Tail(s)) /\ Head(s) \in Item \ {Broken}
  <2>1. /\ Len(s) \in Nat /\ Len(s) > 0 /\ Len(Tail(s)) = Len(s) - 1 /\ Head(s) = s[1]
        /\ \A k \in 1..(Len(s) - 1) : Tail(s)[k] = s[k + 1] /\ k + 1 \in 1..Len(s)
        /\ 1 \in 1..Len(s) /\ s[1] \in Item
    BY <1>4
  <2>2. \A k \in 1..(Len(s) - 1) : Tail(s)[k] # Broken
    BY <1>4, <2>1 DEF Whole
  <2>. QED  BY <1>4, <2>1, <2>2 DEF Whole
<1>5. ASSUME NEW s \in Seq(Item), NEW i \in Item \ {Broken}, Whole(s)  PROVE Whole(Append(s, i))
  <2>1. /\ Len(s) \in Nat /\ Len(Append(s, i)) = Len(s) + 1 /\ Append(s, i)[Len(s) + 1] = i
        /\ \A k \in 1..Len(s) : Append(s, i)[k] = s[k]
    OBVIOUS
  <2>2. \A k \in 1..(Len(s) + 1) : k \in 1..Len(s) \/ k = Len(s) + 1
    BY <2>1
  <2>3. \A k \in 1..(Len(s) + 1) : Append(s, i)[k] # Broken
    BY <1>5, <2>1, <2>2 DEF Whole
  <2>. QED  BY <2>1, <2>3 DEF Whole
<1>6. ASSUME NEW s \in Seq(Cdr)  PROVE Whole(s)
  <2>1. \A k \in 1..Len(s) : s[k] \in Cdr
    OBVIOUS
  <2>. QED  BY <2>1, ItemType DEF Whole
<1>. QED  BY <1>1, <1>2, <1>3, <1>4, <1>5, <1>6

\* What is asked for, and what of it is still there, follow the list.
LEMMA WantedFollows ==
  ASSUME NEW ids \in Seq(Nat), NEW cap \in Nat \ {0}
  PROVE  Follows(Truncate(Wanted(ids), cap), ids)
<1>1. /\ Wanted(ids) \in Seq(ToSet(ids) \ {0})
      /\ \A j, k \in DOMAIN Wanted(ids) :
           j < k => Place(ids, Wanted(ids)[j]) < Place(ids, Wanted(ids)[k])
  <2>1. ToSet(ids) \ {0} \subseteq ToSet(ids)
    OBVIOUS
  <2>. QED  BY <2>1, ListedProperties DEF Wanted
<1>2. PICK s \in Seq(ToSet(ids) \ {0}) : s = Wanted(ids)
  BY <1>1
<1>3. PICK u : u = Truncate(s, cap)
  OBVIOUS
<1>4. /\ u \in Seq(ToSet(ids) \ {0}) /\ Len(u) <= Len(s) /\ \A k \in 1..Len(u) : u[k] = s[k]
  BY <1>3, TruncateProperties
<1>5. \A k \in 1..Len(u) : u[k] \in ToSet(ids) /\ k \in DOMAIN s
  BY <1>4
<1>6. \A j, k \in 1..Len(u) : j < k => Place(ids, u[j]) < Place(ids, u[k])
  BY <1>1, <1>2, <1>4, <1>5
<1>7. Follows(u, ids)
  BY <1>5, <1>6 DEF Follows
<1>. QED  BY <1>2, <1>3, <1>7

LEMMA PresentFollows ==
  ASSUME NEW s \in Seq(Nat), NEW ids \in Seq(Nat), rows \subseteq Cdr, Follows(s, ids)
  PROVE  Follows(Present(s), ids)
<1>1. PICK p : p = Present(s)
  OBVIOUS
<1>2. p \in Seq(rows \cap ToSet(s)) /\ \A j, k \in DOMAIN p : j < k => Place(s, p[j]) < Place(s, p[k])
  BY <1>1, ListedProperties DEF Present
<1>3. \A x \in ToSet(s) : Place(s, x) \in 1..Len(s) /\ s[Place(s, x)] = x
  BY PlaceProperties
<1>4. \A k \in 1..Len(p) : k \in DOMAIN p /\ p[k] \in ToSet(s)
  BY <1>2
<1>5. \A k \in 1..Len(p) : p[k] \in ToSet(ids)
  BY <1>3, <1>4 DEF Follows
<1>6. ASSUME NEW j \in 1..Len(p), NEW k \in 1..Len(p), j < k
      PROVE  Place(ids, p[j]) < Place(ids, p[k])
  <2>1. Place(s, p[j]) < Place(s, p[k])
    BY <1>2, <1>4, <1>6
  <2>. QED  BY <1>3, <1>4, <2>1 DEF Follows
<1>7. Follows(p, ids)
  BY <1>5, <1>6 DEF Follows
<1>. QED  BY <1>1, <1>7

LEMMA TickType ==
  ASSUME TypeOK, NEW e \in Exports
  PROVE  /\ rows \subseteq Cdr /\ asked[e] \in Requests /\ cdr_ids[e] \in Seq(Nat)
         /\ asked[e].ids \in Seq(Nat) /\ asked[e].cap \in Nat \ {0}
BY RequestType DEF TypeOK

LEMMA TickAcquire ==
  ASSUME TypeOK, NEW e \in Exports, Acquire(e), Sound(e), Ticked(e)
  PROVE  Ticked(e)'
<1>1. /\ asked'[e] = asked[e] /\ phase'[e] = phase[e] /\ cdr_ids'[e] = cdr_ids[e]
      /\ result'[e] = result[e] /\ first'[e] = first[e] /\ qhand'[e] = qhand[e]
      /\ rowq'[e] = rowq[e] /\ held'[e] = held[e] /\ csvq'[e] = csvq[e]
      /\ got'[e] = got[e]
  BY ZenonT(30) DEF TypeOK, Acquire, Set, Stop, query, csv, browser
<1>2. ByIds(e)' = ByIds(e)
  BY <1>1 DEF ByIds
<1>3. ByIds(e) => Chosen(e)'
  BY <1>1, Zenon DEF Ticked, Chosen
<1>4. ByIds(e) => Unbroken(e)'
  BY <1>1, Zenon DEF Ticked, Unbroken
<1>. QED  BY <1>2, <1>3, <1>4 DEF Ticked

LEMMA TickAcquireTimesOut ==
  ASSUME TypeOK, NEW e \in Exports, AcquireTimesOut(e), Sound(e), Ticked(e)
  PROVE  Ticked(e)'
<1>1. CASE phase[e] = "streaming"
  <2>1. /\ asked'[e] = asked[e] /\ phase'[e] = phase[e] /\ cdr_ids'[e] = cdr_ids[e]
        /\ result'[e] = result[e] /\ first'[e] = first[e] /\ qhand'[e] = <<RowError>>
        /\ rowq'[e] = rowq[e] /\ held'[e] = held[e] /\ csvq'[e] = csvq[e]
        /\ got'[e] = got[e]
    BY <1>1, ZenonT(30) DEF TypeOK, AcquireTimesOut, Set, Stop, query, csv, browser
  <2>2. ByIds(e)' = ByIds(e)
    BY <2>1 DEF ByIds
  <2>3. ByIds(e) => Chosen(e)'
    BY <1>1, <2>1, Zenon DEF Ticked, Chosen
  <2>4. ByIds(e) => Unbroken(e)'
    BY <1>1, <2>1, WholeMoves, Zenon DEF Ticked, Unbroken
  <2>. QED  BY <2>2, <2>3, <2>4 DEF Ticked
<1>2. CASE phase[e] # "streaming"
  <2>1. /\ asked'[e] = asked[e] /\ phase'[e] = "error" /\ cdr_ids'[e] = cdr_ids[e]
        /\ result'[e] = result[e] /\ first'[e] = first[e] /\ qhand'[e] = qhand[e]
        /\ rowq'[e] = rowq[e] /\ held'[e] = held[e] /\ csvq'[e] = csvq[e]
        /\ got'[e] = got[e]
    BY <1>2, ZenonT(30) DEF TypeOK, AcquireTimesOut, Set, Stop, query, csv, browser
  <2>2. ByIds(e)' = ByIds(e)
    BY <2>1 DEF ByIds
  <2>3. ByIds(e) => Chosen(e)'
    BY <1>2, <2>1, TickType DEF Ticked, Chosen
  <2>4. ByIds(e) => Unbroken(e)'
    BY <1>2, <2>1, Zenon DEF Ticked, Unbroken
  <2>. QED  BY <2>2, <2>3, <2>4 DEF Ticked
<1>. QED  BY <1>1, <1>2

LEMMA TickGet ==
  ASSUME TypeOK, NEW e \in Exports, Get(e), Sound(e), Ticked(e)
  PROVE  Ticked(e)'
<1>1. ~ByIds(e) /\ asked'[e] = asked[e]
  BY DEF Get, ByIds
<1>. QED  BY <1>1 DEF Ticked, ByIds

LEMMA TickPost ==
  ASSUME TypeOK, NEW e \in Exports, Post(e), Sound(e), Ticked(e)
  PROVE  Ticked(e)'
<1>1. CASE asked[e].ids = <<>>
  <2>1. asked'[e] = asked[e]
    BY DEF Post
  <2>. QED  BY <1>1, <2>1 DEF Ticked, ByIds
<1>2. CASE asked[e].ids # <<>>
  <2>1. /\ asked'[e] = asked[e] /\ result'[e] = result[e] /\ first'[e] = first[e]
        /\ qhand'[e] = qhand[e] /\ rowq'[e] = rowq[e] /\ held'[e] = held[e]
        /\ csvq'[e] = csvq[e] /\ got'[e] = got[e]
    BY ZenonT(30) DEF Post, query, csv, browser
  <2>2. \/ /\ phase'[e] = "fetch"
           /\ cdr_ids'[e] = Truncate(Wanted(asked[e].ids), asked[e].cap)
        \/ phase'[e] = "bad_request"
    BY <1>2, ZenonT(30) DEF TypeOK, Post, Set
  <2>3. Follows(Truncate(Wanted(asked[e].ids), asked[e].cap), asked[e].ids)
    BY TickType, WantedFollows
  <2>4. ByIds(e)' = ByIds(e)
    BY <2>1 DEF ByIds
  <2>5. ByIds(e) => Chosen(e)'
    BY <2>1, <2>2, <2>3 DEF Ticked, Chosen
  <2>6. ByIds(e) => Unbroken(e)'
    BY <2>1, Zenon DEF Ticked, Unbroken
  <2>. QED  BY <2>4, <2>5, <2>6 DEF Ticked
<1>. QED  BY <1>1, <1>2

LEMMA TickResolve ==
  ASSUME TypeOK, NEW e \in Exports, Resolve(e), Sound(e), Ticked(e)
  PROVE  Ticked(e)'
<1>1. phase[e] = "resolve" /\ asked'[e] = asked[e]
  BY DEF Resolve
<1>2. ~ByIds(e)
  BY <1>1 DEF Ticked, Chosen
<1>. QED  BY <1>1, <1>2 DEF Ticked, ByIds

LEMMA TickFetch ==
  ASSUME TypeOK, NEW e \in Exports, Fetch(e), Sound(e), Ticked(e)
  PROVE  Ticked(e)'
<1>1. CASE Present(cdr_ids[e]) = <<>>
  <2>1. /\ asked'[e] = asked[e] /\ phase'[e] = "bad_request" /\ cdr_ids'[e] = cdr_ids[e]
        /\ result'[e] = result[e] /\ first'[e] = first[e] /\ qhand'[e] = qhand[e]
        /\ rowq'[e] = rowq[e] /\ held'[e] = held[e] /\ csvq'[e] = csvq[e]
        /\ got'[e] = got[e]
    BY <1>1, ZenonT(30) DEF TypeOK, Fetch, Set, Stop, query, csv, browser
  <2>2. ByIds(e)' = ByIds(e)
    BY <2>1 DEF ByIds
  <2>3. ByIds(e) => Chosen(e)'
    BY <1>1, <2>1, TickType DEF Ticked, Chosen
  <2>4. ByIds(e) => Unbroken(e)'
    BY <1>1, <2>1, Zenon DEF Ticked, Unbroken
  <2>. QED  BY <2>2, <2>3, <2>4 DEF Ticked
<1>2. CASE Present(cdr_ids[e]) # <<>>
  <2>1. /\ asked'[e] = asked[e] /\ phase'[e] = "streaming" /\ cdr_ids'[e] = cdr_ids[e]
        /\ result'[e] = Present(cdr_ids[e]) /\ first'[e] = first[e] /\ qhand'[e] = qhand[e]
        /\ rowq'[e] = Present(cdr_ids[e]) /\ held'[e] = <<Header>> /\ csvq'[e] = csvq[e]
        /\ got'[e] = got[e]
    BY <1>2, ZenonT(30) DEF TypeOK, Fetch, Set, Stop, query, csv, browser
  <2>f. phase[e] = "fetch"
    BY DEF Fetch
  <2>p. ByIds(e) => Follows(Present(cdr_ids[e]), asked[e].ids)
    BY <2>f, TickType, PresentFollows DEF Ticked, Chosen
  <2>w. Present(cdr_ids[e]) \in Seq(Cdr) /\ Present(cdr_ids[e]) # None /\ Whole(Present(cdr_ids[e]))
    BY TickType, PresentType, NoneAssumption, WholeMoves
  <2>2. ByIds(e)' = ByIds(e)
    BY <2>1 DEF ByIds
  <2>3. ByIds(e) => Chosen(e)'
    BY <1>2, <2>1, <2>p, <2>w DEF Ticked, Chosen
  <2>4. ByIds(e) => Unbroken(e)'
    BY <1>2, <2>1, <2>w, WholeMoves, Zenon DEF Ticked, Unbroken
  <2>. QED  BY <2>2, <2>3, <2>4 DEF Ticked
<1>. QED  BY <1>1, <1>2

LEMMA TickPostFails ==
  ASSUME TypeOK, NEW e \in Exports, PostFails(e), Sound(e), Ticked(e)
  PROVE  Ticked(e)'
<1>1. /\ asked'[e] = asked[e] /\ phase'[e] = "error" /\ cdr_ids'[e] = cdr_ids[e]
      /\ result'[e] = result[e] /\ first'[e] = first[e] /\ qhand'[e] = qhand[e]
      /\ rowq'[e] = rowq[e] /\ held'[e] = held[e] /\ csvq'[e] = csvq[e]
      /\ got'[e] = got[e]
  BY ZenonT(30) DEF TypeOK, PostFails, Set, Stop, query, csv, browser
<1>2. ByIds(e)' = ByIds(e)
  BY <1>1 DEF ByIds
<1>3. ByIds(e) => Chosen(e)'
  BY <1>1, TickType DEF Ticked, Chosen
<1>4. ByIds(e) => Unbroken(e)'
  BY <1>1, Zenon DEF Ticked, Unbroken
<1>. QED  BY <1>2, <1>3, <1>4 DEF Ticked

LEMMA TickExecute ==
  ASSUME TypeOK, NEW e \in Exports, Execute(e), Sound(e), Ticked(e)
  PROVE  Ticked(e)'
<1>1. phase[e] = "streaming" /\ result[e] = None /\ asked'[e] = asked[e]
  BY DEF Execute, Streaming
<1>2. ~ByIds(e)
  BY <1>1 DEF Ticked, Chosen
<1>. QED  BY <1>1, <1>2 DEF Ticked, ByIds

LEMMA TickNextRow ==
  ASSUME TypeOK, NEW e \in Exports, NextRow(e), Sound(e), Ticked(e)
  PROVE  Ticked(e)'
<1>1. /\ asked'[e] = asked[e] /\ phase'[e] = phase[e] /\ cdr_ids'[e] = cdr_ids[e]
      /\ result'[e] = result[e] /\ first'[e] = first[e]
      /\ qhand'[e] = <<result[e][cursor[e] + 1]>> /\ rowq'[e] = rowq[e]
      /\ held'[e] = held[e] /\ csvq'[e] = csvq[e] /\ got'[e] = got[e]
  BY ZenonT(30) DEF TypeOK, NextRow, Set, Stop, query, csv, browser
<1>w. Whole(<<result[e][cursor[e] + 1]>>)
  <2>1. result[e] # None /\ cursor[e] < Len(result[e])
    BY DEF NextRow
  <2>2. result[e][cursor[e] + 1] \in Cdr
    BY <2>1, LineType
  <2>. QED  BY <2>2, ItemType, WholeMoves
<1>2. ByIds(e)' = ByIds(e)
  BY <1>1 DEF ByIds
<1>3. ByIds(e) => Chosen(e)'
  BY <1>1, Zenon DEF Ticked, Chosen
<1>4. ByIds(e) => Unbroken(e)'
  BY <1>1, <1>w, Zenon DEF Ticked, Unbroken
<1>. QED  BY <1>2, <1>3, <1>4 DEF Ticked

LEMMA TickDbError ==
  ASSUME TypeOK, NEW e \in Exports, DbError(e), Sound(e), Ticked(e)
  PROVE  Ticked(e)'
<1>1. /\ asked'[e] = asked[e] /\ phase'[e] = phase[e] /\ cdr_ids'[e] = cdr_ids[e]
      /\ result'[e] = result[e] /\ first'[e] = first[e] /\ qhand'[e] = <<RowError>>
      /\ rowq'[e] = rowq[e] /\ held'[e] = held[e] /\ csvq'[e] = csvq[e]
      /\ got'[e] = got[e]
  BY ZenonT(30) DEF TypeOK, DbError, Set, Stop, query, csv, browser
<1>2. ByIds(e)' = ByIds(e)
  BY <1>1 DEF ByIds
<1>3. ByIds(e) => Chosen(e)'
  BY <1>1, Zenon DEF Ticked, Chosen
<1>4. ByIds(e) => Unbroken(e)'
  BY <1>1, WholeMoves, Zenon DEF Ticked, Unbroken
<1>. QED  BY <1>2, <1>3, <1>4 DEF Ticked

LEMMA TickEndOfRows ==
  ASSUME TypeOK, NEW e \in Exports, EndOfRows(e), Sound(e), Ticked(e)
  PROVE  Ticked(e)'
<1>1. /\ asked'[e] = asked[e] /\ phase'[e] = phase[e] /\ cdr_ids'[e] = cdr_ids[e]
      /\ result'[e] = result[e] /\ first'[e] = first[e] /\ qhand'[e] = qhand[e]
      /\ rowq'[e] = rowq[e] /\ held'[e] = held[e] /\ csvq'[e] = csvq[e]
      /\ got'[e] = got[e]
  BY ZenonT(30) DEF TypeOK, EndOfRows, Set, Stop, query, csv, browser
<1>2. ByIds(e)' = ByIds(e)
  BY <1>1 DEF ByIds
<1>3. ByIds(e) => Chosen(e)'
  BY <1>1, Zenon DEF Ticked, Chosen
<1>4. ByIds(e) => Unbroken(e)'
  BY <1>1, Zenon DEF Ticked, Unbroken
<1>. QED  BY <1>2, <1>3, <1>4 DEF Ticked

LEMMA TickSendRow ==
  ASSUME TypeOK, NEW e \in Exports, SendRow(e), Sound(e), Ticked(e)
  PROVE  Ticked(e)'
<1>1. CASE worker[e] = "done"
  <2>1. /\ asked'[e] = asked[e] /\ phase'[e] = phase[e] /\ cdr_ids'[e] = cdr_ids[e]
        /\ result'[e] = result[e] /\ first'[e] = first[e] /\ qhand'[e] = <<>>
        /\ rowq'[e] = rowq[e] /\ held'[e] = held[e] /\ csvq'[e] = csvq[e]
        /\ got'[e] = got[e]
    BY <1>1, ZenonT(30) DEF TypeOK, SendRow, Set, Stop, query, csv, browser
  <2>2. ByIds(e)' = ByIds(e)
    BY <2>1 DEF ByIds
  <2>3. ByIds(e) => Chosen(e)'
    BY <1>1, <2>1, Zenon DEF Ticked, Chosen
  <2>4. ByIds(e) => Unbroken(e)'
    BY <1>1, <2>1, WholeMoves, Zenon DEF Ticked, Unbroken
  <2>. QED  BY <2>2, <2>3, <2>4 DEF Ticked
<1>2. CASE worker[e] # "done"
  <2>1. /\ asked'[e] = asked[e] /\ phase'[e] = phase[e] /\ cdr_ids'[e] = cdr_ids[e]
        /\ result'[e] = result[e] /\ first'[e] = first[e] /\ qhand'[e] = <<>>
        /\ rowq'[e] = Append(rowq[e], Head(qhand[e])) /\ held'[e] = held[e]
        /\ csvq'[e] = csvq[e] /\ got'[e] = got[e]
    BY <1>2, ZenonT(30) DEF TypeOK, SendRow, Set, Stop, query, csv, browser
  <2>w. Whole(qhand[e]) /\ Whole(rowq[e]) => Whole(Append(rowq[e], Head(qhand[e])))
    <3>1. qhand[e] # <<>>
      BY DEF SendRow
    <3>. QED  BY <3>1, LineType, WholeMoves
  <2>2. ByIds(e)' = ByIds(e)
    BY <2>1 DEF ByIds
  <2>3. ByIds(e) => Chosen(e)'
    BY <1>2, <2>1, Zenon DEF Ticked, Chosen
  <2>4. ByIds(e) => Unbroken(e)'
    BY <1>2, <2>1, <2>w, WholeMoves, Zenon DEF Ticked, Unbroken
  <2>. QED  BY <2>2, <2>3, <2>4 DEF Ticked
<1>. QED  BY <1>1, <1>2

LEMMA TickPush ==
  ASSUME TypeOK, NEW e \in Exports, Push(e), Sound(e), Ticked(e)
  PROVE  Ticked(e)'
<1>1. CASE client[e] = "gone"
  <2>1. /\ asked'[e] = asked[e] /\ phase'[e] = phase[e] /\ cdr_ids'[e] = cdr_ids[e]
        /\ result'[e] = result[e] /\ first'[e] = first[e] /\ qhand'[e] = qhand[e]
        /\ rowq'[e] = <<>> /\ held'[e] = <<>> /\ csvq'[e] = csvq[e] /\ got'[e] = got[e]
    BY <1>1, ZenonT(30) DEF TypeOK, Push, Set, Stop, query, csv, browser
  <2>2. ByIds(e)' = ByIds(e)
    BY <2>1 DEF ByIds
  <2>3. ByIds(e) => Chosen(e)'
    BY <1>1, <2>1, Zenon DEF Ticked, Chosen
  <2>4. ByIds(e) => Unbroken(e)'
    BY <1>1, <2>1, WholeMoves, Zenon DEF Ticked, Unbroken
  <2>. QED  BY <2>2, <2>3, <2>4 DEF Ticked
<1>2. CASE client[e] # "gone" /\ Head(held[e]) = Broken
  <2>1. /\ asked'[e] = asked[e] /\ phase'[e] = phase[e] /\ cdr_ids'[e] = cdr_ids[e]
        /\ result'[e] = result[e] /\ first'[e] = first[e] /\ qhand'[e] = qhand[e]
        /\ rowq'[e] = <<>> /\ held'[e] = <<>> /\ csvq'[e] = Append(csvq[e], Head(held[e]))
        /\ got'[e] = got[e]
    BY <1>2, ZenonT(30) DEF TypeOK, Push, Set, Stop, query, csv, browser
  <2>w. Whole(held[e]) /\ Whole(csvq[e]) => Whole(Append(csvq[e], Head(held[e])))
    <3>1. held[e] # <<>>
      BY DEF Push
    <3>. QED  BY <3>1, LineType, WholeMoves
  <2>2. ByIds(e)' = ByIds(e)
    BY <2>1 DEF ByIds
  <2>3. ByIds(e) => Chosen(e)'
    BY <1>2, <2>1, Zenon DEF Ticked, Chosen
  <2>4. ByIds(e) => Unbroken(e)'
    BY <1>2, <2>1, <2>w, WholeMoves, Zenon DEF Ticked, Unbroken
  <2>. QED  BY <2>2, <2>3, <2>4 DEF Ticked
<1>3. CASE client[e] # "gone" /\ Head(held[e]) # Broken
  <2>1. /\ asked'[e] = asked[e] /\ phase'[e] = phase[e] /\ cdr_ids'[e] = cdr_ids[e]
        /\ result'[e] = result[e] /\ first'[e] = first[e] /\ qhand'[e] = qhand[e]
        /\ rowq'[e] = rowq[e] /\ held'[e] = <<>>
        /\ csvq'[e] = Append(csvq[e], Head(held[e])) /\ got'[e] = got[e]
    BY <1>3, ZenonT(30) DEF TypeOK, Push, Set, Stop, query, csv, browser
  <2>w. Whole(held[e]) /\ Whole(csvq[e]) => Whole(Append(csvq[e], Head(held[e])))
    <3>1. held[e] # <<>>
      BY DEF Push
    <3>. QED  BY <3>1, LineType, WholeMoves
  <2>2. ByIds(e)' = ByIds(e)
    BY <2>1 DEF ByIds
  <2>3. ByIds(e) => Chosen(e)'
    BY <1>3, <2>1, Zenon DEF Ticked, Chosen
  <2>4. ByIds(e) => Unbroken(e)'
    BY <1>3, <2>1, <2>w, WholeMoves, Zenon DEF Ticked, Unbroken
  <2>. QED  BY <2>2, <2>3, <2>4 DEF Ticked
<1>. QED  BY <1>1, <1>2, <1>3

LEMMA TickPull ==
  ASSUME TypeOK, NEW e \in Exports, Pull(e), Sound(e), Ticked(e)
  PROVE  Ticked(e)'
<1>1. CASE Head(rowq[e]) = RowError
  <2>1. /\ asked'[e] = asked[e] /\ phase'[e] = phase[e] /\ cdr_ids'[e] = cdr_ids[e]
        /\ result'[e] = result[e] /\ first'[e] = FALSE /\ qhand'[e] = qhand[e]
        /\ rowq'[e] = <<>> /\ held'[e] = <<>> /\ csvq'[e] = csvq[e] /\ got'[e] = got[e]
    BY <1>1, ZenonT(30) DEF TypeOK, Pull, Set, Stop, query, csv, browser
  <2>2. ByIds(e)' = ByIds(e)
    BY <2>1 DEF ByIds
  <2>3. ByIds(e) => Chosen(e)'
    BY <1>1, <2>1, Zenon DEF Ticked, Chosen
  <2>4. ByIds(e) => Unbroken(e)'
    BY <1>1, <2>1, WholeMoves, Zenon DEF Ticked, Unbroken
  <2>. QED  BY <2>2, <2>3, <2>4 DEF Ticked
<1>2. CASE Head(rowq[e]) # RowError
  <2>1. /\ asked'[e] = asked[e] /\ phase'[e] = phase[e] /\ cdr_ids'[e] = cdr_ids[e]
        /\ result'[e] = result[e] /\ first'[e] = FALSE /\ qhand'[e] = qhand[e]
        /\ rowq'[e] = Tail(rowq[e]) /\ held'[e] = <<Head(rowq[e])>> /\ csvq'[e] = csvq[e]
        /\ got'[e] = got[e]
    BY <1>2, ZenonT(30) DEF TypeOK, Pull, Set, Stop, query, csv, browser
  <2>w. Whole(rowq[e]) => Whole(<<Head(rowq[e])>>) /\ Whole(Tail(rowq[e]))
    <3>1. rowq[e] # <<>>
      BY DEF Pull
    <3>. QED  BY <3>1, LineType, WholeMoves
  <2>2. ByIds(e)' = ByIds(e)
    BY <2>1 DEF ByIds
  <2>3. ByIds(e) => Chosen(e)'
    BY <1>2, <2>1, Zenon DEF Ticked, Chosen
  <2>4. ByIds(e) => Unbroken(e)'
    BY <1>2, <2>1, <2>w, Zenon DEF Ticked, Unbroken
  <2>. QED  BY <2>2, <2>3, <2>4 DEF Ticked
<1>. QED  BY <1>1, <1>2

LEMMA TickFirstRowTimesOut ==
  ASSUME TypeOK, NEW e \in Exports, FirstRowTimesOut(e), Sound(e), Ticked(e)
  PROVE  Ticked(e)'
<1>1. first[e] /\ asked'[e] = asked[e]
  BY DEF FirstRowTimesOut
<1>2. ~ByIds(e)
  BY <1>1 DEF Ticked, Unbroken
<1>. QED  BY <1>1, <1>2 DEF Ticked, ByIds

LEMMA TickNoMoreRows ==
  ASSUME TypeOK, NEW e \in Exports, NoMoreRows(e), Sound(e), Ticked(e)
  PROVE  Ticked(e)'
<1>1. /\ asked'[e] = asked[e] /\ phase'[e] = phase[e] /\ cdr_ids'[e] = cdr_ids[e]
      /\ result'[e] = result[e] /\ first'[e] = first[e] /\ qhand'[e] = qhand[e]
      /\ rowq'[e] = <<>> /\ held'[e] = <<>> /\ csvq'[e] = csvq[e] /\ got'[e] = got[e]
  BY ZenonT(30) DEF TypeOK, NoMoreRows, Set, Stop, query, csv, browser
<1>2. ByIds(e)' = ByIds(e)
  BY <1>1 DEF ByIds
<1>3. ByIds(e) => Chosen(e)'
  BY <1>1, Zenon DEF Ticked, Chosen
<1>4. ByIds(e) => Unbroken(e)'
  BY <1>1, WholeMoves, Zenon DEF Ticked, Unbroken
<1>. QED  BY <1>2, <1>3, <1>4 DEF Ticked

LEMMA TickRead ==
  ASSUME TypeOK, NEW e \in Exports, Read(e), Sound(e), Ticked(e)
  PROVE  Ticked(e)'
<1>1. /\ asked'[e] = asked[e] /\ phase'[e] = phase[e] /\ cdr_ids'[e] = cdr_ids[e]
      /\ result'[e] = result[e] /\ first'[e] = first[e] /\ qhand'[e] = qhand[e]
      /\ rowq'[e] = rowq[e] /\ held'[e] = held[e] /\ csvq'[e] = Tail(csvq[e])
      /\ got'[e] = Append(got[e], Head(csvq[e]))
  BY ZenonT(30) DEF TypeOK, Read, Set, Stop, query, csv, browser
<1>w. Whole(csvq[e]) /\ Whole(got[e]) => Whole(Tail(csvq[e])) /\ Whole(Append(got[e], Head(csvq[e])))
  <2>1. csvq[e] # <<>>
    BY DEF Read
  <2>. QED  BY <2>1, LineType, WholeMoves
<1>2. ByIds(e)' = ByIds(e)
  BY <1>1 DEF ByIds
<1>3. ByIds(e) => Chosen(e)'
  BY <1>1, Zenon DEF Ticked, Chosen
<1>4. ByIds(e) => Unbroken(e)'
  BY <1>1, <1>w, Zenon DEF Ticked, Unbroken
<1>. QED  BY <1>2, <1>3, <1>4 DEF Ticked

LEMMA TickSeeEnd ==
  ASSUME TypeOK, NEW e \in Exports, SeeEnd(e), Sound(e), Ticked(e)
  PROVE  Ticked(e)'
<1>1. /\ asked'[e] = asked[e] /\ phase'[e] = phase[e] /\ cdr_ids'[e] = cdr_ids[e]
      /\ result'[e] = result[e] /\ first'[e] = first[e] /\ qhand'[e] = qhand[e]
      /\ rowq'[e] = rowq[e] /\ held'[e] = held[e] /\ csvq'[e] = csvq[e]
      /\ got'[e] = got[e]
  BY ZenonT(30) DEF TypeOK, SeeEnd, Set, Stop, query, csv, browser
<1>2. ByIds(e)' = ByIds(e)
  BY <1>1 DEF ByIds
<1>3. ByIds(e) => Chosen(e)'
  BY <1>1, Zenon DEF Ticked, Chosen
<1>4. ByIds(e) => Unbroken(e)'
  BY <1>1, Zenon DEF Ticked, Unbroken
<1>. QED  BY <1>2, <1>3, <1>4 DEF Ticked

LEMMA TickHangUp ==
  ASSUME TypeOK, NEW e \in Exports, HangUp(e), Sound(e), Ticked(e)
  PROVE  Ticked(e)'
<1>1. CASE phase[e] = "streaming"
  <2>1. /\ asked'[e] = asked[e] /\ phase'[e] = phase[e] /\ cdr_ids'[e] = cdr_ids[e]
        /\ result'[e] = result[e] /\ first'[e] = first[e] /\ qhand'[e] = qhand[e]
        /\ rowq'[e] = rowq[e] /\ held'[e] = held[e] /\ csvq'[e] = <<>> /\ got'[e] = got[e]
    BY <1>1, ZenonT(30) DEF TypeOK, HangUp, Set, Stop, query, csv, browser
  <2>2. ByIds(e)' = ByIds(e)
    BY <2>1 DEF ByIds
  <2>3. ByIds(e) => Chosen(e)'
    BY <1>1, <2>1, Zenon DEF Ticked, Chosen
  <2>4. ByIds(e) => Unbroken(e)'
    BY <1>1, <2>1, WholeMoves, Zenon DEF Ticked, Unbroken
  <2>. QED  BY <2>2, <2>3, <2>4 DEF Ticked
<1>2. CASE phase[e] # "streaming"
  <2>1. /\ asked'[e] = asked[e] /\ phase'[e] = "dropped" /\ cdr_ids'[e] = cdr_ids[e]
        /\ result'[e] = result[e] /\ first'[e] = first[e] /\ qhand'[e] = qhand[e]
        /\ rowq'[e] = rowq[e] /\ held'[e] = held[e] /\ csvq'[e] = <<>> /\ got'[e] = got[e]
    BY <1>2, ZenonT(30) DEF TypeOK, HangUp, Set, Stop, query, csv, browser
  <2>2. ByIds(e)' = ByIds(e)
    BY <2>1 DEF ByIds
  <2>3. ByIds(e) => Chosen(e)'
    BY <1>2, <2>1, TickType DEF Ticked, Chosen
  <2>4. ByIds(e) => Unbroken(e)'
    BY <1>2, <2>1, WholeMoves, Zenon DEF Ticked, Unbroken
  <2>. QED  BY <2>2, <2>3, <2>4 DEF Ticked
<1>. QED  BY <1>1, <1>2

TicksInv == RowsInv /\ \A e \in Exports : Ticked(e)

LEMMA TickInit == Init => TicksInv
<1>. SUFFICES ASSUME Init  PROVE TicksInv
  OBVIOUS
<1>1. ASSUME NEW e \in Exports  PROVE Ticked(e)
  <2>1. /\ phase[e] = "idle" /\ result[e] = None /\ first[e] = FALSE
        /\ qhand[e] = <<>> /\ rowq[e] = <<>> /\ held[e] = <<>> /\ csvq[e] = <<>> /\ got[e] = <<>>
    BY Zenon DEF Init
  <2>2. Chosen(e)
    BY <2>1 DEF Chosen
  <2>3. Unbroken(e)
    BY <2>1, WholeMoves, Zenon DEF Unbroken
  <2>. QED  BY <2>2, <2>3 DEF Ticked
<1>. QED  BY <1>1, LineInit DEF TicksInv

LEMMA TickStep == TicksInv /\ [Next]_vars => TicksInv'
<1>. SUFFICES ASSUME TicksInv, [Next]_vars  PROVE TicksInv'
  OBVIOUS
<1>1. TypeOK /\ RowsInv'
  BY LineStep DEF TicksInv, RowsInv, IInv
<1>2. \A e \in Exports : Sound(e) /\ Ticked(e)
  BY DEF TicksInv, RowsInv, IInv
<1>3. ASSUME NEW e \in Exports, Acquire(e)  PROVE \A d \in Exports : Ticked(d)'
  BY <1>1, <1>2, <1>3, TickAcquire, AloneAcquire, TickFrame
<1>4. ASSUME NEW e \in Exports, AcquireTimesOut(e)  PROVE \A d \in Exports : Ticked(d)'
  BY <1>1, <1>2, <1>4, TickAcquireTimesOut, AloneAcquireTimesOut, TickFrame
<1>5. ASSUME NEW e \in Exports, Get(e)  PROVE \A d \in Exports : Ticked(d)'
  BY <1>1, <1>2, <1>5, TickGet, AloneGet, TickFrame
<1>6. ASSUME NEW e \in Exports, Post(e)  PROVE \A d \in Exports : Ticked(d)'
  BY <1>1, <1>2, <1>6, TickPost, AlonePost, TickFrame
<1>7. ASSUME NEW e \in Exports, Resolve(e)  PROVE \A d \in Exports : Ticked(d)'
  BY <1>1, <1>2, <1>7, TickResolve, AloneResolve, TickFrame
<1>8. ASSUME NEW e \in Exports, Fetch(e)  PROVE \A d \in Exports : Ticked(d)'
  BY <1>1, <1>2, <1>8, TickFetch, AloneFetch, TickFrame
<1>9. ASSUME NEW e \in Exports, PostFails(e)  PROVE \A d \in Exports : Ticked(d)'
  BY <1>1, <1>2, <1>9, TickPostFails, AlonePostFails, TickFrame
<1>10. ASSUME NEW e \in Exports, Execute(e)  PROVE \A d \in Exports : Ticked(d)'
  BY <1>1, <1>2, <1>10, TickExecute, AloneExecute, TickFrame
<1>11. ASSUME NEW e \in Exports, NextRow(e)  PROVE \A d \in Exports : Ticked(d)'
  BY <1>1, <1>2, <1>11, TickNextRow, AloneNextRow, TickFrame
<1>12. ASSUME NEW e \in Exports, DbError(e)  PROVE \A d \in Exports : Ticked(d)'
  BY <1>1, <1>2, <1>12, TickDbError, AloneDbError, TickFrame
<1>13. ASSUME NEW e \in Exports, EndOfRows(e)  PROVE \A d \in Exports : Ticked(d)'
  BY <1>1, <1>2, <1>13, TickEndOfRows, AloneEndOfRows, TickFrame
<1>14. ASSUME NEW e \in Exports, SendRow(e)  PROVE \A d \in Exports : Ticked(d)'
  BY <1>1, <1>2, <1>14, TickSendRow, AloneSendRow, TickFrame
<1>15. ASSUME NEW e \in Exports, Push(e)  PROVE \A d \in Exports : Ticked(d)'
  BY <1>1, <1>2, <1>15, TickPush, AlonePush, TickFrame
<1>16. ASSUME NEW e \in Exports, Pull(e)  PROVE \A d \in Exports : Ticked(d)'
  BY <1>1, <1>2, <1>16, TickPull, AlonePull, TickFrame
<1>17. ASSUME NEW e \in Exports, FirstRowTimesOut(e)  PROVE \A d \in Exports : Ticked(d)'
  BY <1>1, <1>2, <1>17, TickFirstRowTimesOut, AloneFirstRowTimesOut, TickFrame
<1>18. ASSUME NEW e \in Exports, NoMoreRows(e)  PROVE \A d \in Exports : Ticked(d)'
  BY <1>1, <1>2, <1>18, TickNoMoreRows, AloneNoMoreRows, TickFrame
<1>19. ASSUME NEW e \in Exports, Read(e)  PROVE \A d \in Exports : Ticked(d)'
  BY <1>1, <1>2, <1>19, TickRead, AloneRead, TickFrame
<1>20. ASSUME NEW e \in Exports, SeeEnd(e)  PROVE \A d \in Exports : Ticked(d)'
  BY <1>1, <1>2, <1>20, TickSeeEnd, AloneSeeEnd, TickFrame
<1>21. ASSUME NEW e \in Exports, HangUp(e)  PROVE \A d \in Exports : Ticked(d)'
  BY <1>1, <1>2, <1>21, TickHangUp, AloneHangUp, TickFrame
<1>22. ASSUME UNCHANGED exports  PROVE \A d \in Exports : Ticked(d)'
  <2>1. ASSUME NEW d \in Exports  PROVE Mine(d)' = Mine(d)
    BY <1>22 DEF exports, query, csv, browser, Mine
  <2>. QED  BY <1>2, <2>1, TickFrame
<1>23. (\E p \in Pages : Page(p)) \/ Clean \/ UNCHANGED vars => UNCHANGED exports
  BY DEF Page, OpenPage, PageAcquires, PageAnswers, PageAcquireTimesOut, PageTimesOut, LeavePage,
         Clean, vars, exports, query, csv, browser
<1>24. \A d \in Exports : Ticked(d)'
  BY <1>3, <1>4, <1>5, <1>6, <1>7, <1>8, <1>9, <1>10, <1>11, <1>12, <1>13,
     <1>14, <1>15, <1>16, <1>17, <1>18, <1>19, <1>20, <1>21, <1>22, <1>23,
     Zenon DEF Next, Handler, Database, Worker
<1>. QED  BY <1>1, <1>24 DEF TicksInv

LEMMA TickRows == TicksInv => AsTicked
<1>. SUFFICES ASSUME TicksInv, NEW e \in Exports, ByIds(e),
                     NEW j \in 2..Len(got[e]), NEW k \in 2..Len(got[e])
              PROVE  /\ got[e][j] \in ToSet(asked[e].ids)
                     /\ j < k => Place(asked[e].ids, got[e][j]) < Place(asked[e].ids, got[e][k])
  BY DEF AsTicked, ByIds
<1>1. TypeOK /\ Line(e) /\ Chosen(e) /\ Unbroken(e)
  BY DEF TicksInv, RowsInv, IInv, Ticked
<1>2. ASSUME NEW m \in 2..Len(got[e])
      PROVE  m - 1 \in 1..Len(result[e]) /\ got[e][m] = result[e][m - 1] /\ result[e] # None
  <2>1. Received(result[e], cursor[e] + 1, got[e]) /\ Reach(e)
    BY <1>1 DEF Line, Lined
  <2>2. m \in 1..Len(got[e]) /\ Len(got[e]) \in Nat /\ cursor[e] \in Nat
    BY <1>1, LineType
  <2>3. got[e][m] # Broken
    BY <1>1, <2>2 DEF Unbroken, Whole
  <2>4. m <= cursor[e] + 1 /\ got[e][m] = Slot(result[e], m)
    BY <2>1, <2>2, <2>3 DEF Received
  <2>5. m # 1 /\ m - 1 \in 1..cursor[e] /\ cursor[e] # 0
    BY <2>2, <2>4
  <2>6. result[e] # None /\ cursor[e] <= Len(result[e]) /\ Len(result[e]) \in Nat
    BY <1>1, <2>1, <2>5, LineType DEF Reach
  <2>7. got[e][m] = result[e][m - 1]
    BY <2>4, <2>5 DEF Slot
  <2>. QED  BY <2>2, <2>5, <2>6, <2>7
<1>3. Follows(result[e], asked[e].ids)
  BY <1>1, <1>2 DEF Chosen
<1>4. j < k => j - 1 < k - 1
  OBVIOUS
<1>. QED  BY <1>2, <1>3, <1>4 DEF Follows

\* The rows a POST delivers are CDRs that were asked for, in the order asked
\* for and each once, whatever was cleaned up before they were fetched.
THEOREM OrderAsTicked == Spec => []AsTicked
<1>. QED  BY TickInit, TickStep, TickRows, PTL DEF Spec

-----------------------------------------------------------------------------
(* Sequences: what is taken of one, and the total of one.                  *)

\* R tells for every two members of I which of them comes first.
IsOrder(R, I) ==
  /\ \A i \in I : <<i, i>> \notin R
  /\ \A i, j \in I : i # j => <<i, j>> \in R \/ <<j, i>> \in R
  /\ \A i, j, k \in I : <<i, j>> \in R /\ <<j, k>> \in R => <<i, k>> \in R

UpTo(R, I, i) == {j \in I : j = i \/ <<j, i>> \in R}

\* The members of I get ranks 1, 2, ... without a gap.
Ranks(R, I) ==
  /\ Cardinality(I) \in Nat
  /\ \A i \in I : IsFiniteSet(UpTo(R, I, i)) /\ Cardinality(UpTo(R, I, i)) \in 1..Cardinality(I)
  /\ \A i, j \in I : <<i, j>> \in R => Cardinality(UpTo(R, I, i)) < Cardinality(UpTo(R, I, j))
  /\ \A k \in 1..Cardinality(I) : \E i \in I : Cardinality(UpTo(R, I, i)) = k

LEMMA OrderRanks ==
  ASSUME NEW I, IsFiniteSet(I), NEW R, IsOrder(R, I)
  PROVE  Ranks(R, I)
<1>. DEFINE n == Cardinality(I)
<1>1. n \in Nat
  BY FS_CardinalityType
<1>2. ASSUME NEW i \in I
      PROVE  IsFiniteSet(UpTo(R, I, i)) /\ Cardinality(UpTo(R, I, i)) \in 1..n
  <2>1. PICK U : U = UpTo(R, I, i) /\ U \subseteq I /\ i \in U
    BY DEF UpTo
  <2>2. IsFiniteSet(U) /\ Cardinality(U) <= n
    BY <2>1, FS_Subset
  <2>3. Cardinality(U) \in Nat /\ Cardinality(U) # 0
    BY <2>1, <2>2, FS_CardinalityType, FS_EmptySet
  <2>. QED  BY <1>1, <2>1, <2>2, <2>3
<1>3. ASSUME NEW i \in I, NEW j \in I, <<i, j>> \in R
      PROVE  Cardinality(UpTo(R, I, i)) < Cardinality(UpTo(R, I, j))
  <2>1. PICK U, V : U = UpTo(R, I, i) /\ V = UpTo(R, I, j)
    OBVIOUS
  <2>2. j \notin U /\ U \cup {j} \subseteq V
    <3>1. ~(<<j, i>> \in R) /\ i # j
      BY <1>3 DEF IsOrder
    <3>2. \A k \in I : <<k, i>> \in R => <<k, j>> \in R
      BY <1>3 DEF IsOrder
    <3>. QED  BY <1>3, <2>1, <3>1, <3>2 DEF UpTo
  <2>3. IsFiniteSet(U) /\ IsFiniteSet(V) /\ Cardinality(U) \in 1..n /\ Cardinality(V) \in 1..n
    BY <1>2, <2>1
  <2>4. Cardinality(U \cup {j}) = Cardinality(U) + 1 /\ Cardinality(U \cup {j}) <= Cardinality(V)
    BY <2>2, <2>3, FS_AddElement, FS_Subset
  <2>. QED  BY <1>1, <2>1, <2>3, <2>4
<1>. DEFINE rank == [i \in I |-> Cardinality(UpTo(R, I, i))]
<1>4. \A i \in I : rank[i] = Cardinality(UpTo(R, I, i)) /\ rank[i] \in 1..n
  BY <1>2
<1>5. rank \in [I -> 1..n]
  BY <1>4
<1>. HIDE DEF rank
<1>6. rank \in Injection(I, 1..n)
  <2>1. ASSUME NEW i \in I, NEW j \in I, i # j  PROVE rank[i] # rank[j]
    <3>1. <<i, j>> \in R \/ <<j, i>> \in R
      BY <2>1 DEF IsOrder
    <3>2. rank[i] < rank[j] \/ rank[j] < rank[i]
      BY <1>3, <1>4, <3>1
    <3>. QED  BY <1>1, <1>4, <3>2
  <2>. QED  BY <1>5, <2>1 DEF Injection, IsInjective
<1>7. IsFiniteSet(1..n) /\ Cardinality(1..n) = n
  BY <1>1, FS_Interval
<1>8. rank \in Surjection(I, 1..n)
  BY <1>6, <1>7, FS_Injection
<1>9. \A k \in 1..n : \E i \in I : Cardinality(UpTo(R, I, i)) = k
  BY <1>4, <1>8 DEF Surjection
<1>. QED  BY <1>1, <1>2, <1>3, <1>9 DEF Ranks

\* What the place of a sequence, or of a set of places, stands for.
NthIs(i, R, I, k) == i \in I /\ Cardinality(UpTo(R, I, i)) = k

LEMMA NthByPlace ==
  ASSUME NEW I, IsFiniteSet(I), I \subseteq Int, NEW R, R = {x \in I \X I : x[1] < x[2]}
  PROVE  /\ Ranks(R, I)
         /\ \A k \in 1..Cardinality(I) : NthIs(Nth(I, LAMBDA i, j : i < j, k), R, I, k)
<1>1. \A i, j \in I : <<i, j>> \in R <=> i < j
  OBVIOUS
<1>2. IsOrder(R, I)
  BY <1>1 DEF IsOrder
<1>3. Ranks(R, I)
  BY <1>2, OrderRanks
<1>4. ASSUME NEW k \in 1..Cardinality(I)  PROVE NthIs(Nth(I, LAMBDA i, j : i < j, k), R, I, k)
  <2>1. PICK n : n = Nth(I, LAMBDA i, j : i < j, k)
    OBVIOUS
  <2>2. n = CHOOSE i \in I : Cardinality({j \in I : j = i \/ j < i}) = k
    BY <2>1 DEF Nth
  <2>3. \A i \in I : UpTo(R, I, i) = {j \in I : j = i \/ j < i}
    BY <1>1 DEF UpTo
  <2>4. \E i \in I : Cardinality({j \in I : j = i \/ j < i}) = k
    BY <1>3, <2>3 DEF Ranks
  <2>5. n \in I /\ Cardinality({j \in I : j = n \/ j < n}) = k
    BY <2>2, <2>4
  <2>6. NthIs(n, R, I, k)
    BY <2>3, <2>5 DEF NthIs
  <2>. QED  BY <2>1, <2>6
<1>. QED  BY <1>3, <1>4

\* All that is at the places I, and nothing else.
AreThose(t, s, I) ==
  /\ Len(t) = Cardinality(I)
  /\ \A k \in 1..Len(t) : \E i \in I : t[k] = s[i]
  /\ \A i \in I : \E k \in 1..Len(t) : t[k] = s[i]

LEMMA ThoseProperties ==
  ASSUME NEW X, NEW s \in Seq(X), NEW I, I \subseteq DOMAIN s
  PROVE  Those(s, I) \in Seq(X) /\ AreThose(Those(s, I), s, I)
<1>1. Len(s) \in Nat /\ DOMAIN s = 1..Len(s) /\ \A k \in 1..Len(s) : s[k] \in X
  OBVIOUS
<1>2. IsFiniteSet(I) /\ I \subseteq Int
  <2>1. IsFiniteSet(1..Len(s))
    BY <1>1, FS_Interval
  <2>. QED  BY <1>1, <2>1, FS_Subset
<1>. DEFINE nth(k) == Nth(I, LAMBDA i, j : i < j, k)
            t == [k \in 1..Cardinality(I) |-> s[nth(k)]]
<1>3. PICK R : /\ Ranks(R, I)
               /\ \A k \in 1..Cardinality(I) : NthIs(nth(k), R, I, k)
               /\ \A i, j \in I : i # j => <<i, j>> \in R \/ <<j, i>> \in R
  <2>1. PICK R : R = {x \in I \X I : x[1] < x[2]}
    OBVIOUS
  <2>2. \A i, j \in I : i # j => <<i, j>> \in R \/ <<j, i>> \in R
    BY <1>2, <2>1
  <2>. QED  BY <1>2, <2>1, <2>2, NthByPlace
<1>4. PICK n \in Nat : n = Cardinality(I)
  BY <1>3 DEF Ranks
<1>. HIDE DEF nth
<1>5. \A k \in 1..n : t[k] = s[nth(k)] /\ nth(k) \in I
  BY <1>3, <1>4 DEF NthIs
<1>6. t \in Seq(X) /\ Len(t) = n
  <2>1. t \in [1..n -> X]
    BY <1>1, <1>4, <1>5
  <2>. HIDE DEF t
  <2>. QED  BY <2>1, SeqDef
<1>7. Those(s, I) = t
  <2>1. Those(s, I) = t \o <<>>
    BY DEF Those, nth
  <2>. HIDE DEF t
  <2>. QED  BY <1>6, <2>1, ConcatEmptySeq
<1>8. ASSUME NEW i \in I  PROVE \E k \in 1..n : t[k] = s[i]
  <2>1. PICK k \in 1..n : Cardinality(UpTo(R, I, i)) = k
    BY <1>3, <1>4 DEF Ranks
  <2>2. nth(k) \in I /\ Cardinality(UpTo(R, I, nth(k))) = k
    BY <1>3, <1>4 DEF NthIs
  <2>3. PICK j \in I : j = nth(k) /\ Cardinality(UpTo(R, I, j)) = k
    BY <2>2
  <2>4. i = j
    <3>1. /\ <<i, j>> \in R => Cardinality(UpTo(R, I, i)) < Cardinality(UpTo(R, I, j))
          /\ <<j, i>> \in R => Cardinality(UpTo(R, I, j)) < Cardinality(UpTo(R, I, i))
      BY <1>3 DEF Ranks
    <3>2. ~(k < k)
      OBVIOUS
    <3>3. <<i, j>> \notin R /\ <<j, i>> \notin R
      BY <2>1, <2>3, <3>1, <3>2
    <3>. QED  BY <1>3, <2>3, <3>3
  <2>. QED  BY <1>5, <2>3, <2>4
<1>. HIDE DEF t
<1>9. AreThose(t, s, I)
  BY <1>4, <1>5, <1>6, <1>8 DEF AreThose
<1>. QED  BY <1>6, <1>7, <1>9

\* f runs through the totals of the first 0, 1, ..., n numbers of s.
Adds(f, s, n) ==
  /\ f = [k \in 0..n |-> f[k]]
  /\ f[0] = 0
  /\ \A k \in 1..n : f[k] = f[k - 1] + s[k]

LEMMA AddsExists ==
  ASSUME NEW s
  PROVE  \A n \in Nat : \E f : Adds(f, s, n)
<1>. DEFINE T == {n \in Nat : \E f : Adds(f, s, n)}
<1>1. 0 \in T
  <2>1. Adds([k \in 0..0 |-> 0], s, 0)
    BY DEF Adds
  <2>. QED  BY <2>1
<1>2. ASSUME NEW n \in Nat, n \in T  PROVE n + 1 \in T
  <2>1. PICK f : Adds(f, s, n)
    BY <1>2
  <2>. DEFINE g == [k \in 0..(n + 1) |-> IF k \in 0..n THEN f[k] ELSE f[k - 1] + s[k]]
  <2>2. g = [k \in 0..(n + 1) |-> g[k]] /\ g[0] = 0
    BY <2>1 DEF Adds
  <2>3. ASSUME NEW k \in 1..(n + 1)  PROVE g[k] = g[k - 1] + s[k]
    <3>1. k - 1 \in 0..n /\ k - 1 \in 0..(n + 1) /\ k \in 0..(n + 1)
      OBVIOUS
    <3>2. g[k - 1] = f[k - 1]
      BY <3>1
    <3>3. CASE k \in 1..n
      <4>1. g[k] = f[k]
        BY <3>1, <3>3
      <4>. QED  BY <2>1, <3>2, <3>3, <4>1 DEF Adds
    <3>4. CASE k \notin 1..n
      <4>1. k \notin 0..n
        BY <3>4
      <4>2. g[k] = f[k - 1] + s[k]
        BY <3>1, <4>1
      <4>. QED  BY <3>2, <4>2
    <3>. QED  BY <3>3, <3>4
  <2>. HIDE DEF g
  <2>4. Adds(g, s, n + 1)
    BY <2>2, <2>3 DEF Adds
  <2>. QED  BY <2>4
<1>. HIDE DEF T
<1>3. \A n \in Nat : n \in T
  BY <1>1, <1>2, EveryNatural
<1>. QED  BY <1>3 DEF T

LEMMA TotalAdds ==
  ASSUME NEW s \in Seq(Nat)
  PROVE  \E f \in [0..Len(s) -> Nat] : Adds(f, s, Len(s)) /\ Total(s) = f[Len(s)]
<1>1. PICK n \in Nat : n = Len(s)
  OBVIOUS
<1>2. \A k \in 1..n : s[k] \in Nat
  BY <1>1
<1>3. PICK f : Adds(f, s, n)
  BY AddsExists
<1>. DEFINE F == CHOOSE u : u = [k \in 0..n |-> IF k = 0 THEN 0 ELSE u[k - 1] + s[k]]
<1>4. Total(s) = F[n]
  BY Zenon, <1>1 DEF Total
<1>5. f = [k \in 0..n |-> IF k = 0 THEN 0 ELSE f[k - 1] + s[k]]
  <2>1. \A k \in 0..n : k = 0 \/ k \in 1..n
    OBVIOUS
  <2>. QED  BY <1>3, <2>1 DEF Adds
<1>6. F = [k \in 0..n |-> IF k = 0 THEN 0 ELSE F[k - 1] + s[k]]
  BY <1>5
<1>. HIDE DEF F
<1>7. Adds(F, s, n)
  BY <1>6 DEF Adds
<1>. DEFINE T == {k \in Nat : k \in 0..n => F[k] \in Nat}
<1>8. 0 \in T
  BY <1>7 DEF Adds
<1>9. ASSUME NEW k \in Nat, k \in T  PROVE k + 1 \in T
  <2>1. SUFFICES ASSUME k + 1 \in 0..n  PROVE F[k + 1] \in Nat
    OBVIOUS
  <2>2. k \in 0..n /\ k + 1 \in 1..n /\ (k + 1) - 1 = k
    BY <2>1
  <2>3. F[k + 1] = F[(k + 1) - 1] + s[k + 1]
    BY <1>7, <2>2 DEF Adds
  <2>. QED  BY <1>2, <1>9, <2>2, <2>3
<1>. HIDE DEF T
<1>10. \A k \in Nat : k \in T
  BY <1>8, <1>9, EveryNatural
<1>11. F \in [0..n -> Nat]
  <2>1. \A k \in 0..n : F[k] \in Nat
    BY <1>10 DEF T
  <2>. QED  BY <1>7, <2>1 DEF Adds
<1>. QED  BY <1>1, <1>4, <1>7, <1>11
-----------------------------------------------------------------------------
(* Sequence numbers.                                                       *)

LEMMA Remainder ==
  ASSUME NEW S \in Nat \ {0}, NEW x \in Int
  PROVE  x % S \in 0..(S - 1) /\ \E q \in Int : x = S * q + (x % S)
<1>1. x % S \in 0..(S - 1)
  OBVIOUS
<1>2. x \div S \in Int /\ x = S * (x \div S) + (x % S)
  OBVIOUS
<1>. QED  BY <1>1, <1>2

\* A number below S that differs from x by a multiple of S is its remainder.
LEMMA RemainderIs ==
  ASSUME NEW S \in Nat \ {0}, NEW x \in Int, NEW q \in Int, NEW d \in 0..(S - 1), x = S * q + d
  PROVE  x % S = d
<1>1. PICK r, p : r = x % S /\ r \in 0..(S - 1) /\ p \in Int /\ x = S * p + r
  BY Remainder
<1>2. S * q + d = S * p + r
  BY <1>1
<1>3. S * (q - p) = r - d
  BY <1>1, <1>2
<1>4. q - p = 0
  <2>1. CASE q - p >= 1
    <3>1. S * (q - p) >= S
      BY <1>1, <2>1
    <3>. QED  BY <1>1, <1>3, <3>1
  <2>2. CASE q - p <= -1
    <3>1. S * (q - p) <= -S
      BY <1>1, <2>2
    <3>. QED  BY <1>1, <1>3, <3>1
  <2>. QED  BY <1>1, <2>1, <2>2
<1>. QED  BY <1>1, <1>3, <1>4

\* Between two packets of one sender as many are lost as it sent in between.
LEMMA LostBetween ==
  ASSUME NEW S \in Nat \ {0}, NEW a \in Int, NEW b \in Int, b - a - 1 \in 0..(S - 1)
  PROVE  ((b % S) - ((a % S) + 1)) % S = b - a - 1
<1>1. PICK r, p : r = a % S /\ r \in 0..(S - 1) /\ p \in Int /\ a = S * p + r
  BY Remainder
<1>2. PICK t, q : t = b % S /\ t \in 0..(S - 1) /\ q \in Int /\ b = S * q + t
  BY Remainder
<1>3. t - (r + 1) = S * (p - q) + (b - a - 1)
  <2>1. S * (p - q) = S * p - S * q
    BY <1>1, <1>2
  <2>. QED  BY <1>1, <1>2, <2>1
<1>4. t - (r + 1) \in Int /\ p - q \in Int
  BY <1>1, <1>2
<1>5. (t - (r + 1)) % S = b - a - 1
  BY <1>3, <1>4, RemainderIs
<1>. QED  BY <1>1, <1>2, <1>5
-----------------------------------------------------------------------------
(* The length of a WAV.                                                    *)

\* m are packets of one stream: of z samples each, numbered from b on.
OneStream(m, z, b) ==
  /\ z \in Nat \ {0} /\ b \in Nat
  /\ \A k \in 1..Len(m) : /\ m[k].size = z /\ m[k].nth \in Nat
                          /\ m[k].seq = (b + m[k].nth) % SeqSpace

LEMMA CarriedIs ==
  ASSUME NEW X, NEW m \in Seq(X), NEW z, NEW b, OneStream(m, z, b)
  PROVE  Carried(m) = Len(m) * z
<1>1. PICK n \in Nat : n = Len(m) /\ DOMAIN m = 1..n
  OBVIOUS
<1>2. z \in Nat /\ \A k \in 1..n : m[k].size = z
  BY <1>1 DEF OneStream
<1>. DEFINE s == [k \in 1..n |-> m[k].size]
<1>3. s \in Seq(Nat) /\ Len(s) = n /\ \A k \in 1..n : s[k] = z
  <2>1. s \in [1..n -> Nat] /\ \A k \in 1..n : s[k] = z
    BY <1>2
  <2>. HIDE DEF s
  <2>. QED  BY <2>1, SeqDef
<1>4. Carried(m) = Total(s)
  BY <1>1 DEF Carried
<1>. HIDE DEF s
<1>5. PICK f \in [0..n -> Nat] : Adds(f, s, n) /\ Total(s) = f[n]
  BY <1>3, TotalAdds
<1>. DEFINE T == {k \in Nat : k \in 0..n => f[k] = k * z}
<1>6. 0 \in T
  BY <1>2, <1>5 DEF Adds
<1>7. ASSUME NEW k \in Nat, k \in T  PROVE k + 1 \in T
  <2>1. SUFFICES ASSUME k + 1 \in 0..n  PROVE f[k + 1] = (k + 1) * z
    OBVIOUS
  <2>2. k \in 0..n /\ k + 1 \in 1..n /\ (k + 1) - 1 = k
    BY <2>1
  <2>3. f[k + 1] = f[k] + z
    BY <1>3, <1>5, <2>2 DEF Adds
  <2>4. f[k] = k * z
    BY <1>7, <2>2
  <2>5. (k + 1) * z = k * z + z
    BY <1>2
  <2>. QED  BY <2>3, <2>4, <2>5
<1>. HIDE DEF T
<1>8. n \in T
  BY <1>6, <1>7, EveryNatural
<1>9. f[n] = n * z
  BY <1>8 DEF T
<1>. QED  BY <1>1, <1>4, <1>5, <1>9

LEMMA AverageIs ==
  ASSUME NEW X, NEW m \in Seq(X), m # <<>>, NEW z, NEW b, OneStream(m, z, b)
  PROVE  Average(m) = z
<1>1. PICK n \in Nat : n = Len(m)
  OBVIOUS
<1>2. n # 0 /\ z \in Nat /\ z # 0
  BY <1>1 DEF OneStream
<1>3. PICK c : c = Carried(m) /\ c = n * z
  BY <1>1, CarriedIs
<1>4. c \in Nat /\ ~(c < n)
  <2>1. n * z >= n * 1
    BY <1>2
  <2>. QED  BY <1>2, <1>3, <2>1
<1>5. c \div n = z
  <2>1. c \div n \in Int /\ c = n * (c \div n) + (c % n) /\ c % n \in 0..(n - 1)
    BY <1>2, <1>4
  <2>2. PICK q \in Int : q = c \div n
    BY <2>1
  <2>3. n * (z - q) \in 0..(n - 1)
    <3>1. n * (z - q) = n * z - n * q
      BY <1>2
    <3>. QED  BY <1>2, <1>3, <2>1, <2>2, <3>1
  <2>4. ~(z - q >= 1)
    <3>1. z - q >= 1 => n * (z - q) >= n
      BY <1>2
    <3>. QED  BY <1>2, <2>3, <3>1
  <2>5. ~(z - q <= -1)
    <3>1. z - q <= -1 => n * (z - q) <= -n
      BY <1>2
    <3>. QED  BY <1>2, <2>3, <3>1
  <2>. QED  BY <1>2, <2>2, <2>4, <2>5
<1>. QED  BY <1>1, <1>3, <1>4, <1>5 DEF Average

LEMMA FillIs ==
  ASSUME NEW m, NEW z, NEW b, OneStream(m, z, b), Len(m) \in Nat, NEW k \in 1..Len(m)
  PROVE  /\ Fill(m, k, z) \in Nat
         /\ k = 1 => Fill(m, k, z) = 0
         /\ k > 1 => LET d == m[k].nth - m[k - 1].nth - 1
                     IN d \in 0..MaxFill => Fill(m, k, z) = d * z
<1>1. z \in Nat /\ b \in Nat /\ SeqSpace \in Nat \ {0} /\ MaxFill \in Nat /\ MaxFill < SeqSpace
  BY MediaAssumption DEF OneStream
<1>2. Fill(m, k, z) \in Nat /\ (k = 1 => Fill(m, k, z) = 0)
  <2>1. PICK l : l = Lost(m[k - 1].seq, m[k].seq)
    OBVIOUS
  <2>2. Fill(m, k, z) = IF k > 1 /\ l \in 1..MaxFill THEN l * z ELSE 0
    BY <2>1 DEF Fill
  <2>3. \A n \in Nat : n * z \in Nat
    BY <1>1
  <2>. QED  BY <1>1, <2>2, <2>3
<1>3. ASSUME k > 1, NEW d, d = m[k].nth - m[k - 1].nth - 1, d \in 0..MaxFill
      PROVE  Fill(m, k, z) = d * z
  <2>1. k - 1 \in 1..Len(m)
    BY <1>3
  <2>2. PICK p, q : /\ p = m[k - 1].nth /\ p \in Nat /\ m[k - 1].seq = (b + p) % SeqSpace
                    /\ q = m[k].nth /\ q \in Nat /\ m[k].seq = (b + q) % SeqSpace
    BY <2>1 DEF OneStream
  <2>3. b + p \in Int /\ b + q \in Int /\ (b + q) - (b + p) - 1 = d /\ d \in 0..(SeqSpace - 1)
    <3>1. d = q - p - 1
      BY <1>3, <2>2
    <3>2. d \in Int /\ 0 <= d /\ d <= MaxFill
      BY <1>1, <1>3
    <3>3. d \in 0..(SeqSpace - 1)
      BY <1>1, <3>2
    <3>4. b \in Nat /\ p \in Nat /\ q \in Nat
      BY <1>1, <2>2
    <3>5. (b + q) - (b + p) - 1 = q - p - 1
      BY <3>4
    <3>. QED  BY <3>1, <3>3, <3>4, <3>5
  <2>4. (((b + q) % SeqSpace) - (((b + p) % SeqSpace) + 1)) % SeqSpace = d
    BY <1>1, <2>3, LostBetween
  <2>5. Lost(m[k - 1].seq, m[k].seq) = d
    BY <2>2, <2>4 DEF Lost
  <2>6. d \in Nat /\ (d = 0 \/ d \in 1..MaxFill) /\ ~(0 \in 1..MaxFill) /\ 0 * z = 0
    <3>1. d \in Int /\ 0 <= d /\ d <= MaxFill
      BY <1>1, <1>3
    <3>. QED  BY <1>1, <3>1
  <2>. QED  BY <1>3, <2>5, <2>6 DEF Fill
<1>. QED  BY <1>2, <1>3

\* f runs through the samples behind the first 0, 1, ... packets of m.
Grows(f, m, z) ==
  /\ f \in [0..Len(m) -> Nat] /\ f[0] = 0
  /\ \A k \in 1..Len(m) : f[k] = f[k - 1] + Fill(m, k, z) + z

LEMMA SamplesGrow ==
  ASSUME NEW X, NEW m \in Seq(X), m # <<>>, NEW z, NEW b, OneStream(m, z, b)
  PROVE  \E f : Grows(f, m, z) /\ SampleCount(Runs(m)) = f[Len(m)]
<1>1. PICK n \in Nat : n = Len(m) /\ DOMAIN m = 1..n
  OBVIOUS
<1>2. Average(m) = z /\ z \in Nat /\ \A k \in 1..n : m[k].size = z
  BY <1>1, AverageIs DEF OneStream
<1>3. PICK r : r = Runs(m)
  OBVIOUS
<1>4. /\ DOMAIN r = 1..n
      /\ \A k \in 1..n : r[k].silence = Fill(m, k, z) /\ r[k].n = z
  BY <1>1, <1>2, <1>3 DEF Runs
<1>. DEFINE s == [k \in 1..n |-> r[k].silence + r[k].n]
<1>5. s \in Seq(Nat) /\ Len(s) = n /\ \A k \in 1..n : s[k] = Fill(m, k, z) + z
  <2>1. \A k \in 1..n : Fill(m, k, z) \in Nat
    BY <1>1, FillIs
  <2>2. s \in [1..n -> Nat] /\ \A k \in 1..n : s[k] = Fill(m, k, z) + z
    BY <1>2, <1>4, <2>1
  <2>. HIDE DEF s
  <2>. QED  BY <2>2, SeqDef
<1>6. SampleCount(r) = Total(s)
  BY <1>4 DEF SampleCount
<1>. HIDE DEF s
<1>7. PICK f \in [0..n -> Nat] : Adds(f, s, n) /\ Total(s) = f[n]
  BY <1>5, TotalAdds
<1>8. \A k \in 1..n : f[k] = f[k - 1] + Fill(m, k, z) + z
  <2>1. SUFFICES ASSUME NEW k \in 1..n  PROVE f[k] = f[k - 1] + Fill(m, k, z) + z
    OBVIOUS
  <2>2. f[k] = f[k - 1] + (Fill(m, k, z) + z) /\ k - 1 \in 0..n
    <3>1. f[k] = f[k - 1] + s[k] /\ s[k] = Fill(m, k, z) + z
      BY <1>5, <1>7 DEF Adds
    <3>. QED  BY <3>1
  <2>3. f[k - 1] \in Nat /\ Fill(m, k, z) \in Nat
    BY <1>1, <1>7, <2>2, FillIs
  <2>. QED  BY <1>2, <2>2, <2>3
<1>9. Grows(f, m, z)
  BY <1>1, <1>7, <1>8 DEF Grows, Adds
<1>. QED  BY <1>1, <1>3, <1>6, <1>7, <1>9

\* One step of the sums below.
LEMMA Distribute ==
  ASSUME NEW o \in Int, NEW p \in Int, NEW q \in Int, NEW z \in Nat
  PROVE  /\ (q - o + 1) * z = (p - o + 1) * z + (q - p - 1) * z + z
         /\ q <= p => (q - o + 1) * z <= (p - o + 1) * z
<1>1. (p - o + 1) * z + (q - p - 1) * z = ((p - o + 1) + (q - p - 1)) * z
  OBVIOUS
<1>2. (p - o + 1) + (q - p - 1) + 1 = q - o + 1
  OBVIOUS
<1>3. ((p - o + 1) + (q - p - 1)) * z + z = ((p - o + 1) + (q - p - 1) + 1) * z
  OBVIOUS
<1>4. ASSUME q <= p  PROVE (q - o + 1) * z <= (p - o + 1) * z
  <2>1. PICK u \in Int, v \in Int : u = q - o + 1 /\ v = p - o + 1
    OBVIOUS
  <2>2. u <= v
    BY <1>4, <2>1
  <2>3. (v - u) * z >= 0 /\ (v - u) * z = v * z - u * z
    BY <2>2
  <2>. QED  BY <2>1, <2>3
<1>. QED  BY <1>1, <1>2, <1>3, <1>4

\* However the packets came, the samples reach to the latest; and if none was
\* overtaken or doubled, no further.
LEMMA TimeKept ==
  ASSUME NEW X, NEW m \in Seq(X), m # <<>>, NEW z, NEW b, OneStream(m, z, b),
         \A k \in 2..Len(m) : m[k].nth - m[k - 1].nth - 1 <= MaxFill,
         NEW f, Grows(f, m, z)
  PROVE  /\ \A j \in 1..Len(m) : f[Len(m)] >= (m[j].nth - m[1].nth + 1) * z
         /\ (\A k \in 2..Len(m) : m[k - 1].nth < m[k].nth) =>
              /\ f[Len(m)] = (m[Len(m)].nth - m[1].nth + 1) * z
              /\ \A j \in 1..Len(m) : m[j].nth <= m[Len(m)].nth
<1>1. PICK n \in Nat : n = Len(m) /\ n # 0
  OBVIOUS
<1>2. z \in Nat /\ \A k \in 1..n : m[k].nth \in Nat
  BY <1>1 DEF OneStream
<1>. DEFINE Spoken(j) == (m[j].nth - m[1].nth + 1) * z
            rising == \A k \in 2..n : m[k - 1].nth < m[k].nth
            Long(k) == \A j \in 1..k : f[k] >= Spoken(j)
            Exact(k) == f[k] = Spoken(k) /\ \A j \in 1..k : m[j].nth <= m[k].nth
            T == {k \in Nat : k + 1 \in 1..n => Long(k + 1) /\ (rising => Exact(k + 1))}
<1>3. \A k \in 0..n : f[k] \in Nat
  BY <1>1 DEF Grows
<1>4. 0 \in T
  <2>1. f[1] = z /\ Spoken(1) = z
    <3>1. 1 \in 1..n /\ f[0] = 0 /\ f[1] = f[0] + Fill(m, 1, z) + z
      BY <1>1 DEF Grows
    <3>2. Fill(m, 1, z) = 0
      BY <1>1, <3>1, FillIs
    <3>3. m[1].nth - m[1].nth + 1 = 1 /\ 1 * z = z
      BY <1>2, <3>1
    <3>. QED  BY <1>2, <3>1, <3>2, <3>3
  <2>2. Long(1)
    <3>1. \A j \in 1..1 : j = 1
      OBVIOUS
    <3>. QED  BY <1>2, <2>1, <3>1
  <2>3. Exact(1)
    <3>1. \A j \in 1..1 : j = 1
      OBVIOUS
    <3>2. m[1].nth <= m[1].nth
      BY <1>1, <1>2
    <3>. QED  BY <2>1, <3>1, <3>2
  <2>. HIDE DEF Long, Exact, rising
  <2>. QED  BY <2>2, <2>3
<1>5. ASSUME NEW i \in Nat, i \in T  PROVE i + 1 \in T
  <2>1. SUFFICES ASSUME i + 2 \in 1..n  PROVE Long(i + 2) /\ (rising => Exact(i + 2))
    <3>1. (i + 1) + 1 = i + 2
      OBVIOUS
    <3>. HIDE DEF Long, Exact, rising
    <3>. QED  BY <2>1, <3>1
  <2>2. PICK k : k = i + 2 /\ k \in 2..n /\ k - 1 = i + 1 /\ k - 1 \in 1..n /\ k \in 1..n
    BY <1>1, <2>1
  <2>3. Long(k - 1) /\ (rising => Exact(k - 1))
    <3>. HIDE DEF Long, Exact, rising
    <3>. QED  BY <1>5, <2>2
  <2>4. PICK o \in Nat, p \in Nat, q \in Nat :
          o = m[1].nth /\ p = m[k - 1].nth /\ q = m[k].nth
    <3>1. 1 \in 1..n
      BY <1>1
    <3>. QED  BY <1>2, <2>2, <3>1
  <2>5. PICK F, G, l : /\ F = f[k - 1] /\ G = f[k] /\ l = Fill(m, k, z)
                       /\ F \in Nat /\ G \in Nat /\ l \in Nat /\ G = F + l + z
    <3>1. k - 1 \in 0..n /\ k \in 0..n
      BY <2>2
    <3>2. Fill(m, k, z) \in Nat
      BY <1>1, <2>2, FillIs
    <3>3. f[k] = f[k - 1] + Fill(m, k, z) + z
      BY <1>1, <2>2 DEF Grows
    <3>. QED  BY <1>3, <3>1, <3>2, <3>3
  <2>6. /\ q - p - 1 <= MaxFill
        /\ q - p - 1 \in 0..MaxFill => l = (q - p - 1) * z
    <3>1. k > 1
      BY <2>2
    <3>. QED  BY <1>1, <2>2, <2>4, <2>5, <3>1, FillIs
  <2>7. Spoken(k) = (q - o + 1) * z /\ Spoken(k - 1) = (p - o + 1) * z
    BY <2>4
  <2>8. PICK u \in Int, v \in Int, w \in Int :
          u = (q - o + 1) * z /\ v = (p - o + 1) * z /\ w = (q - p - 1) * z
    <3>1. \A x \in Int : x * z \in Int
      BY <1>2
    <3>2. q - o + 1 \in Int /\ p - o + 1 \in Int /\ q - p - 1 \in Int
      OBVIOUS
    <3>. QED  BY <3>1, <3>2
  <2>9. u = v + w + z /\ (q <= p => u <= v)
    <3>1. o \in Int /\ p \in Int /\ q \in Int
      BY <2>4
    <3>2. /\ (q - o + 1) * z = (p - o + 1) * z + (q - p - 1) * z + z
          /\ q <= p => (q - o + 1) * z <= (p - o + 1) * z
      BY <1>2, <3>1, Distribute
    <3>. QED  BY <2>8, <3>2
  <2>10. F >= v
    <3>1. k - 1 \in 1..(k - 1)
      BY <2>2
    <3>. QED  BY <2>3, <2>5, <2>7, <2>8, <3>1
  <2>11. q <= p \/ q - p - 1 \in 0..MaxFill
    <3>1. MaxFill \in Nat /\ q - p - 1 <= MaxFill
      BY <2>6, MediaAssumption
    <3>. QED  BY <2>4, <3>1
  <2>12. G >= u /\ G >= F
    <3>1. q <= p \/ l = w
      BY Zenon, <2>6, <2>8, <2>11
    <3>2. /\ F \in Nat /\ G \in Nat /\ l \in Nat /\ G = F + l + z /\ z \in Nat
          /\ u \in Int /\ v \in Int /\ w \in Int
      BY <1>2, <2>5, <2>8
    <3>. QED  BY <2>9, <2>10, <3>1, <3>2
  <2>13. Long(k)
    <3>1. SUFFICES ASSUME NEW j \in 1..k  PROVE f[k] >= Spoken(j)
      OBVIOUS
    <3>2. CASE j = k
      BY <2>5, <2>7, <2>8, <2>12, <3>2
    <3>3. CASE j # k
      <4>1. j \in 1..(k - 1) /\ j \in 1..n
        BY <2>2, <3>3
      <4>2. f[k - 1] >= Spoken(j)
        BY <2>3, <4>1
      <4>3. Spoken(j) \in Int
        BY <1>2, <2>4, <4>1
      <4>. HIDE DEF Spoken
      <4>. QED  BY <2>5, <2>12, <4>2, <4>3
    <3>. QED  BY <3>2, <3>3
  <2>14. ASSUME rising  PROVE Exact(k)
    <3>1. p < q
      BY <2>2, <2>4, <2>14
    <3>2. l = w
      <4>1. ~(q <= p)
        BY <2>4, <3>1
      <4>. QED  BY Zenon, <2>6, <2>8, <2>11, <4>1
    <3>3. F = v /\ \A j \in 1..(k - 1) : m[j].nth <= p
      BY <2>3, <2>4, <2>5, <2>7, <2>8, <2>14
    <3>4. f[k] = Spoken(k)
      BY <1>2, <2>5, <2>7, <2>8, <2>9, <3>2, <3>3
    <3>5. \A j \in 1..k : m[j].nth <= m[k].nth
      <4>1. SUFFICES ASSUME NEW j \in 1..k  PROVE m[j].nth <= q
        BY <2>4
      <4>2. CASE j = k
        BY <2>4, <4>2
      <4>3. CASE j # k
        <5>1. j \in 1..(k - 1) /\ j \in 1..n
          BY <2>2, <4>3
        <5>. QED  BY <1>2, <2>4, <3>1, <3>3, <5>1
      <4>. QED  BY <4>2, <4>3
    <3>. QED  BY <3>4, <3>5
  <2>. HIDE DEF Long, Exact
  <2>. QED  BY <2>2, <2>13, <2>14
<1>. HIDE DEF T
<1>6. n - 1 \in T
  BY <1>1, <1>4, <1>5, EveryNatural
<1>7. Long(n) /\ (rising => Exact(n))
  <2>1. (n - 1) + 1 = n /\ n \in 1..n
    BY <1>1
  <2>. HIDE DEF Long, Exact, rising
  <2>. QED  BY <1>6, <2>1 DEF T
<1>. QED  BY <1>1, <1>7

-----------------------------------------------------------------------------
(* Rates.                                                                  *)

\* A rate: so many samples in so much time.
Rates == (Nat \ {0}) \X (Nat \ {0})

LEMMA Product ==
  ASSUME NEW a \in Nat, NEW b \in Nat, NEW c \in Nat
  PROVE  /\ a * b \in Nat /\ a * b = b * a /\ a * (b * c) = b * (a * c)
         /\ b <= c => a * b <= a * c
         /\ b < c /\ a # 0 => a * b < a * c
<1>1. a * b \in Nat /\ a * b = b * a /\ a * (b * c) = b * (a * c)
  OBVIOUS
<1>2. ASSUME b <= c  PROVE a * b <= a * c
  <2>1. PICK d \in Nat : c = b + d
    <3>1. c - b \in Nat /\ c = b + (c - b)
      BY <1>2
    <3>. QED  BY <3>1
  <2>2. a * c = a * b + a * d /\ a * d \in Nat
    BY <2>1
  <2>. QED  BY <1>1, <2>2
<1>3. ASSUME b < c, a # 0  PROVE a * b < a * c
  <2>1. PICK d \in Nat : c = b + 1 + d
    <3>1. c - b - 1 \in Nat /\ c = b + 1 + (c - b - 1)
      BY <1>3
    <3>. QED  BY <3>1
  <2>2. a * c = a * b + a + a * d /\ a * d \in Nat
    BY <2>1
  <2>. QED  BY <1>1, <1>3, <2>2
<1>. QED  BY <1>1, <1>2, <1>3

\* What is not slower than something not slower is not slower; and it is
\* faster if one of the two is.
LEMMA SlowerOrder ==
  ASSUME NEW x \in Rates, NEW y \in Rates, NEW z \in Rates,
         ~SlowerRate(y, x), ~SlowerRate(z, y)
  PROVE  /\ ~SlowerRate(z, x)
         /\ SlowerRate(x, y) \/ SlowerRate(y, z) => SlowerRate(x, z)
<1>1. PICK a \in Nat, b \in Nat, c \in Nat, d \in Nat, e \in Nat, f \in Nat :
        /\ a = x[1] /\ b = x[2] /\ c = y[1] /\ d = y[2] /\ e = z[1] /\ f = z[2]
        /\ b # 0 /\ d # 0 /\ f # 0
  BY DEF Rates
<1>2. /\ a * d \in Nat /\ c * b \in Nat /\ c * f \in Nat /\ e * d \in Nat
      /\ a * f \in Nat /\ e * b \in Nat
  BY Product
<1>3. a * d <= c * b /\ c * f <= e * d
  BY <1>1, <1>2 DEF SlowerRate
<1>4. PICK u \in Nat, v \in Nat, w \in Nat :
        u = d * (a * f) /\ v = f * (c * b) /\ w = d * (e * b)
  BY <1>2, Product
<1>5. u = f * (a * d) /\ v = b * (c * f) /\ w = b * (e * d)
  <2>1. d * (a * f) = f * (a * d) /\ f * (c * b) = b * (c * f) /\ d * (e * b) = b * (e * d)
    OBVIOUS
  <2>. QED  BY <1>4, <2>1
<1>6. u <= v /\ v <= w
  BY <1>2, <1>3, <1>4, <1>5, Product
<1>7. ~(e * b < a * f)
  <2>1. e * b < a * f => d * (e * b) < d * (a * f)
    BY <1>1, <1>2, Product
  <2>. QED  BY <1>4, <1>6, <2>1
<1>8. a * d < c * b \/ c * f < e * d => a * f < e * b
  <2>1. a * d < c * b => u < v
    BY <1>1, <1>2, <1>4, <1>5, Product
  <2>2. c * f < e * d => v < w
    BY <1>1, <1>2, <1>4, <1>5, Product
  <2>3. a * f = e * b => u = w
    BY <1>4
  <2>. QED  BY <1>2, <1>4, <1>6, <1>7, <2>1, <2>2, <2>3
<1>. QED  BY <1>1, <1>7, <1>8 DEF SlowerRate

LEMMA SlowerNotBoth ==
  ASSUME NEW x \in Rates, NEW y \in Rates, SlowerRate(x, y)
  PROVE  ~SlowerRate(y, x)
<1>1. PICK a \in Nat, b \in Nat, c \in Nat, d \in Nat : a = x[1] /\ b = x[2] /\ c = y[1] /\ d = y[2]
  BY DEF Rates
<1>2. a * d \in Nat /\ c * b \in Nat
  BY Product
<1>. QED  BY <1>1, <1>2 DEF SlowerRate

LEMMA MeasuredRates ==
  ASSUME NEW X, NEW s \in Seq(X), \A k \in 1..Len(s) : s[k].at \in Nat /\ s[k].ts \in Int
  PROVE  /\ IsFiniteSet(Measured(s)) /\ Measured(s) \subseteq 1..(Len(s) - 1)
         /\ \A i \in Measured(s) : RateAt(s, i) \in Rates
<1>1. PICK n \in Nat : n = Len(s)
  OBVIOUS
<1>2. Measured(s) \subseteq 1..(n - 1)
  BY <1>1 DEF Measured
<1>3. IsFiniteSet(Measured(s))
  <2>1. n - 1 \in Int
    OBVIOUS
  <2>2. IsFiniteSet(1..(n - 1))
    BY <2>1, FS_Interval
  <2>. QED  BY <1>2, <2>2, FS_Subset
<1>4. ASSUME NEW i \in Measured(s)  PROVE RateAt(s, i) \in Rates
  <2>1. i \in 1..n /\ i + 1 \in 1..n
    BY <1>2
  <2>2. PICK a \in Nat, b \in Nat, c \in Int, d \in Int :
          a = s[i].at /\ b = s[i + 1].at /\ c = s[i].ts /\ d = s[i + 1].ts
    BY <1>1, <2>1
  <2>3. b > a /\ d > c
    BY <2>2 DEF Measured, Usable
  <2>4. RateAt(s, i) = <<d - c, b - a>>
    BY <2>2 DEF RateAt
  <2>5. d - c \in Int /\ d - c > 0 /\ b - a \in Int /\ b - a > 0
    BY <2>3
  <2>. QED  BY <2>4, <2>5 DEF Rates
<1>. QED  BY <1>1, <1>2, <1>3, <1>4

\* Places, each of which has a rate, in the order of the rates.
LEMMA RateOrder ==
  ASSUME NEW I, I \subseteq Int, NEW s, \A i \in I : RateAt(s, i) \in Rates,
         NEW R, R = {x \in I \X I : LowerRate(s, x[1], x[2])}
  PROVE  IsOrder(R, I)
<1>1. \A i, j \in I : <<i, j>> \in R <=> LowerRate(s, i, j)
  OBVIOUS
<1>2. \A i, j \in I : LowerRate(s, i, j) <=>
        \/ SlowerRate(RateAt(s, i), RateAt(s, j))
        \/ ~SlowerRate(RateAt(s, j), RateAt(s, i)) /\ i < j
  BY DEF LowerRate
<1>3. \A i \in I : ~LowerRate(s, i, i)
  <2>1. SUFFICES ASSUME NEW i \in I  PROVE ~LowerRate(s, i, i)
    OBVIOUS
  <2>2. ~SlowerRate(RateAt(s, i), RateAt(s, i)) /\ ~(i < i)
    BY SlowerNotBoth
  <2>. QED  BY <1>2, <2>2
<1>4. \A i, j \in I : i # j => LowerRate(s, i, j) \/ LowerRate(s, j, i)
  <2>1. \A i, j \in I : i # j => i < j \/ j < i
    OBVIOUS
  <2>. QED  BY <1>2, <2>1
<1>5. ASSUME NEW i \in I, NEW j \in I, NEW k \in I, LowerRate(s, i, j), LowerRate(s, j, k)
      PROVE  LowerRate(s, i, k)
  <2>1. PICK x \in Rates, y \in Rates, z \in Rates :
          x = RateAt(s, i) /\ y = RateAt(s, j) /\ z = RateAt(s, k)
    OBVIOUS
  <2>2. ~SlowerRate(y, x) /\ ~SlowerRate(z, y)
    BY <1>2, <1>5, <2>1, SlowerNotBoth
  <2>3. ~SlowerRate(z, x) /\ (SlowerRate(x, y) \/ SlowerRate(y, z) => SlowerRate(x, z))
    BY <2>2, SlowerOrder
  <2>4. ~SlowerRate(x, y) /\ ~SlowerRate(y, z) => i < j /\ j < k
    BY <1>2, <1>5, <2>1
  <2>5. i < j /\ j < k => i < k
    OBVIOUS
  <2>. QED  BY <1>2, <2>1, <2>3, <2>4, <2>5
<1>. QED  BY <1>1, <1>3, <1>4, <1>5 DEF IsOrder

\* The middle one is not below, nor above, all those outside a minority B.
LEMMA MiddleOfMost ==
  ASSUME NEW I, IsFiniteSet(I), NEW R, Ranks(R, I), NEW B \in SUBSET I,
         2 * Cardinality(B) < Cardinality(I),
         NEW m, NthIs(m, R, I, Cardinality(I) \div 2 + 1)
  PROVE  /\ \E g \in I \ B : g \in UpTo(R, I, m)
         /\ \E g \in I \ B : g \notin UpTo(R, I, m) \/ g = m
<1>1. PICK U : U = UpTo(R, I, m) /\ m \in U /\ U \subseteq I
  BY DEF NthIs, UpTo
<1>2. IsFiniteSet(U) /\ IsFiniteSet(B) /\ IsFiniteSet(I \ B)
  BY <1>1, FS_Subset
<1>3. PICK n \in Nat, b \in Nat, u \in Nat :
        n = Cardinality(I) /\ b = Cardinality(B) /\ u = Cardinality(U)
  BY <1>2, FS_CardinalityType
<1>4. 2 * b < n /\ u = n \div 2 + 1
  BY <1>1, <1>3 DEF NthIs
<1>5. b < u /\ n - b >= u
  BY <1>4
<1>6. Cardinality(I \ B) = n - b
  <2>1. Cardinality(B \cup (I \ B)) = Cardinality(B) + Cardinality(I \ B) - Cardinality(B \cap (I \ B))
    BY <1>2, FS_Union
  <2>2. B \cup (I \ B) = I /\ B \cap (I \ B) = {}
    OBVIOUS
  <2>3. PICK c \in Nat : c = Cardinality(I \ B)
    BY <1>2, FS_CardinalityType
  <2>4. n = b + c - 0
    BY <1>3, <2>1, <2>2, <2>3, FS_EmptySet
  <2>. QED  BY <1>3, <2>3, <2>4
<1>7. ~(U \subseteq B)
  <2>1. U \subseteq B => u <= b
    BY <1>2, <1>3, FS_Subset
  <2>. QED  BY <1>5, <2>1
<1>8. ASSUME \A g \in I \ B : g \in U /\ g # m  PROVE FALSE
  <2>1. m \notin I \ B /\ (I \ B) \cup {m} \subseteq U
    BY <1>1, <1>8
  <2>2. PICK G : G = I \ B /\ IsFiniteSet(G) /\ Cardinality(G) = n - b
    BY <1>2, <1>6
  <2>3. Cardinality(G \cup {m}) = (n - b) + 1
    BY <2>1, <2>2, FS_AddElement
  <2>4. Cardinality(G \cup {m}) <= u
    BY <1>2, <1>3, <2>1, <2>2, FS_Subset
  <2>. QED  BY <1>3, <1>5, <2>3, <2>4
<1>. QED  BY <1>1, <1>7, <1>8

\* If most pairs are measured at the rate y, the estimate is as fast as y.
LEMMA EstimateOfMost ==
  ASSUME NEW X, NEW s \in Seq(X), \A k \in 1..Len(s) : s[k].at \in Nat /\ s[k].ts \in Int,
         NEW B \in SUBSET Measured(s), 2 * Cardinality(B) < Cardinality(Measured(s)),
         NEW y \in Rates,
         \A i \in Measured(s) \ B : ~SlowerRate(RateAt(s, i), y) /\ ~SlowerRate(y, RateAt(s, i)),
         NEW r, r = estimate_clock_rate_hz(s)
  PROVE  r \in Rates /\ ~SlowerRate(r, y) /\ ~SlowerRate(y, r)
<1>1. PICK I : I = Measured(s)
  OBVIOUS
<1>2. IsFiniteSet(I) /\ I \subseteq Int /\ \A i \in I : RateAt(s, i) \in Rates
  <2>1. 1..(Len(s) - 1) \subseteq Int
    OBVIOUS
  <2>. QED  BY <1>1, <2>1, MeasuredRates
<1>3. PICK R : R = {x \in I \X I : LowerRate(s, x[1], x[2])}
  OBVIOUS
<1>4. Ranks(R, I)
  <2>1. IsOrder(R, I)
    BY <1>2, <1>3, RateOrder
  <2>. QED  BY <1>2, <2>1, OrderRanks
<1>5. I # {}
  BY <1>1, <1>2, FS_EmptySet, FS_Subset, FS_CardinalityType
<1>6. PICK k : k = Cardinality(I) \div 2 + 1 /\ k \in 1..Cardinality(I)
  <2>1. PICK n \in Nat : n = Cardinality(I) /\ n # 0
    BY <1>2, <1>5, FS_EmptySet, FS_CardinalityType
  <2>2. n \div 2 + 1 \in 1..n
    BY <2>1
  <2>. QED  BY <2>1, <2>2
<1>7. PICK m : m = Nth(I, LAMBDA i, j : LowerRate(s, i, j), k)
  OBVIOUS
<1>8. r = RateAt(s, m)
  BY <1>1, <1>5, <1>6, <1>7 DEF estimate_clock_rate_hz
<1>9. NthIs(m, R, I, k)
  <2>1. m = CHOOSE i \in I : Cardinality({j \in I : j = i \/ LowerRate(s, j, i)}) = k
    BY <1>7 DEF Nth
  <2>2. \A i \in I : UpTo(R, I, i) = {j \in I : j = i \/ LowerRate(s, j, i)}
    BY <1>3 DEF UpTo
  <2>3. \E i \in I : Cardinality({j \in I : j = i \/ LowerRate(s, j, i)}) = k
    BY <1>4, <1>6, <2>2 DEF Ranks
  <2>4. m \in I /\ Cardinality({j \in I : j = m \/ LowerRate(s, j, m)}) = k
    BY <2>1, <2>3
  <2>. QED  BY <2>2, <2>4 DEF NthIs
<1>10. m \in I /\ r \in Rates
  BY <1>2, <1>8, <1>9 DEF NthIs
<1>11. /\ \E g \in I \ B : g \in UpTo(R, I, m)
       /\ \E g \in I \ B : g \notin UpTo(R, I, m) \/ g = m
  BY <1>1, <1>2, <1>4, <1>6, <1>9, MiddleOfMost
<1>12. \A g \in I : /\ g \in UpTo(R, I, m) <=> g = m \/ LowerRate(s, g, m)
                    /\ g # m => LowerRate(s, g, m) \/ LowerRate(s, m, g)
  <2>1. IsOrder(R, I)
    BY <1>2, <1>3, RateOrder
  <2>. QED  BY <1>3, <1>10, <2>1 DEF UpTo, IsOrder
<1>13. \A g \in I : LowerRate(s, g, m) => ~SlowerRate(r, RateAt(s, g))
  BY <1>2, <1>8, <1>10, SlowerNotBoth DEF LowerRate
<1>14. \A g \in I : LowerRate(s, m, g) => ~SlowerRate(RateAt(s, g), r)
  BY <1>2, <1>8, <1>10, SlowerNotBoth DEF LowerRate
<1>15. ~SlowerRate(r, r)
  BY <1>10, SlowerNotBoth
<1>16. ~SlowerRate(r, y)
  <2>1. PICK g \in I \ B : g \in UpTo(R, I, m)
    BY <1>11
  <2>2. PICK x \in Rates : x = RateAt(s, g) /\ ~SlowerRate(x, y) /\ ~SlowerRate(r, x)
    BY <1>1, <1>2, <1>8, <1>12, <1>13, <1>15, <2>1
  <2>. QED  BY <1>10, <2>2, SlowerOrder
<1>17. ~SlowerRate(y, r)
  <2>1. PICK g \in I \ B : g \notin UpTo(R, I, m) \/ g = m
    BY <1>11
  <2>2. PICK x \in Rates : x = RateAt(s, g) /\ ~SlowerRate(y, x) /\ ~SlowerRate(x, r)
    BY <1>1, <1>2, <1>8, <1>12, <1>14, <1>15, <2>1
  <2>. QED  BY <1>10, <2>2, SlowerOrder
<1>. QED  BY <1>10, <1>16, <1>17

-----------------------------------------------------------------------------
(* The clock of a stream.                                                  *)

LEMMA SenderTypes ==
  ASSUME NEW p \in Parties
  PROVE  /\ Sender[p].seq \in Nat /\ Sender[p].ts \in Nat /\ Sender[p].step \in Nat
         /\ Sender[p].len \in Nat /\ Sender[p].pad \in Nat
         /\ Media(Sender[p]) \in Nat \ {0} /\ Codec[p] \in 0..127
<1>1. PICK s : s = Sender[p]
  OBVIOUS
<1>2. /\ {s.start, s.seq, s.ts, s.step, s.len, s.pad} \subseteq Nat
      /\ Media(s) > 0 /\ Codec[p] \in 0..127
  BY <1>1, SenderAssumption
<1>3. Media(s) \in Nat
  BY <1>2 DEF Media
<1>. QED  BY <1>1, <1>2, <1>3

\* s are packets of the party p, of a call that is shorter than the cycle.
Timed(s, p) ==
  /\ p \in Parties
  /\ \A k \in 1..Len(s) :
       /\ s[k].at \in Nat /\ s[k].nth \in 0..(Length - 1)
       /\ s[k].ts = (Sender[p].ts + s[k].nth * Sender[p].step) % TsSpace

\* A clock of the cycle S that ran on by D shows what went by, or wrapped.
RanOn(u, v, D, S) == /\ u \in Int /\ v \in Int
                     /\ u <= v => v - u = D
                     /\ v < u => u - v = S - D

LEMMA ClockRanOn ==
  ASSUME NEW S \in Nat, S # 0, NEW x \in Int, NEW D \in Nat, D < S
  PROVE  RanOn(x % S, (x + D) % S, D, S)
<1>0. S \in Nat \ {0} /\ x + D \in Int
  OBVIOUS
<1>1. PICK u \in Int, p \in Int : u = x % S /\ 0 <= u /\ u < S /\ x = S * p + u
  <2>1. PICK u : u = x % S
    OBVIOUS
  <2>2. u \in 0..(S - 1) /\ \E p \in Int : x = S * p + u
    BY <1>0, <2>1, Remainder
  <2>3. u \in Int /\ 0 <= u /\ u < S
    BY <2>2
  <2>. QED  BY Zenon, <2>1, <2>2, <2>3
<1>2. PICK v \in Int, q \in Int : v = (x + D) % S /\ 0 <= v /\ v < S /\ x + D = S * q + v
  <2>0. PICK y \in Int : y = x + D
    BY <1>0
  <2>1. PICK v : y = x + D /\ v = y % S
    BY <2>0
  <2>2. v \in 0..(S - 1) /\ \E q \in Int : y = S * q + v
    BY <1>0, <2>1, Remainder
  <2>3. v \in Int /\ 0 <= v /\ v < S
    BY <2>2
  <2>4. v = (x + D) % S /\ \E q \in Int : x + D = S * q + v
    BY Zenon, <2>1, <2>2
  <2>. QED  BY <2>3, <2>4
<1>3. PICK g \in Int, h \in Int, e \in Int : g = S * p /\ h = S * q /\ e = q - p
  OBVIOUS
<1>4. S * e = h - g
  BY <1>3
<1>5. PICK k \in Int : k = S * e /\ v - u = D - k
  BY <1>1, <1>2, <1>3, <1>4
<1>6. (e = 0 => k = 0) /\ (e = 1 => k = S) /\ (e >= 2 => k >= S + S) /\ (e <= -1 => k <= -S)
  BY <1>5
<1>7. e = 0 \/ e = 1 \/ e >= 2 \/ e <= -1
  OBVIOUS
<1>8. k = 0 \/ k = S
  BY <1>1, <1>2, <1>5, <1>6, <1>7
<1>9. RanOn(u, v, D, S)
  <2>1. 0 <= u /\ u < S /\ 0 <= v /\ v < S
    BY <1>1, <1>2
  <2>2. v - u = D - k
    BY <1>5
  <2>. QED  BY <1>8, <2>1, <2>2 DEF RanOn
<1>. QED  BY Zenon, <1>1, <1>2, <1>9

LEMMA TimedTs ==
  ASSUME NEW s, NEW p, Timed(s, p), NEW i \in 1..Len(s)
  PROVE  s[i].at \in Nat /\ s[i].nth \in Nat /\ s[i].ts \in Int
<1>1. PICK t \in Nat, z \in Nat : t = Sender[p].ts /\ z = Sender[p].step
  BY SenderTypes DEF Timed
<1>2. PICK S \in Nat : S = TsSpace /\ S # 0
  BY MediaAssumption
<1>3. PICK a \in Nat : a = s[i].nth /\ s[i].at \in Nat /\ s[i].ts = (t + a * z) % S
  BY <1>1, <1>2 DEF Timed
<1>4. t + a * z \in Int
  OBVIOUS
<1>. QED  BY <1>2, <1>3, <1>4

LEMMA TimedApart ==
  ASSUME NEW s, NEW p, Timed(s, p), NEW i \in 1..Len(s), NEW j \in 1..Len(s),
         s[i].nth <= s[j].nth
  PROVE  LET D == (s[j].nth - s[i].nth) * Sender[p].step
         IN /\ s[i].ts \in Int /\ s[j].ts \in Int /\ D \in Nat
            /\ s[i].ts <= s[j].ts => s[j].ts - s[i].ts = D
            /\ s[j].ts < s[i].ts => s[i].ts - s[j].ts >= MaxStep
<1>1. PICK t \in Nat, z \in Nat : t = Sender[p].ts /\ z = Sender[p].step
  BY SenderTypes DEF Timed
<1>2. PICK S \in Nat, L \in Nat, M \in Nat :
        S = TsSpace /\ L = Length /\ M = MaxStep /\ S # 0 /\ L # 0 /\ M # 0
  BY MediaAssumption, StatsAssumption
<1>3. L * z + M <= S
  BY <1>1, <1>2, CycleAssumption DEF Timed
<1>4. PICK a \in Nat, b \in Nat : /\ a = s[i].nth /\ b = s[j].nth /\ a <= b /\ b <= L - 1
                                  /\ s[i].ts = (t + a * z) % S /\ s[j].ts = (t + b * z) % S
  <2>1. PICK a \in 0..(L - 1) : a = s[i].nth /\ s[i].ts = (t + a * z) % S
    BY <1>1, <1>2 DEF Timed
  <2>2. PICK b \in 0..(L - 1) : b = s[j].nth /\ s[j].ts = (t + b * z) % S
    BY <1>1, <1>2 DEF Timed
  <2>3. a \in Nat /\ b \in Nat /\ a <= b /\ b <= L - 1
    BY <1>2, <2>1, <2>2
  <2>. QED  BY <2>1, <2>2, <2>3
<1>5. PICK d \in Nat : d = b - a /\ d <= L
  <2>1. a <= b /\ b <= L - 1
    BY <1>4
  <2>. QED  BY <2>1
<1>6. PICK D \in Nat : D = d * z /\ D <= L * z
  <2>1. d * z \in Nat /\ d * z = z * d /\ L * z = z * L /\ (d <= L => z * d <= z * L)
    BY Product
  <2>. QED  BY <1>5, <2>1
<1>7. PICK x \in Int : x = t + a * z /\ x + D = t + b * z
  <2>1. a * z \in Nat
    BY Product
  <2>2. b * z = a * z + d * z
    BY <1>5
  <2>. QED  BY <1>6, <2>1, <2>2
<1>8. L * z \in Nat
  BY Product
<1>9. D \in 0..(S - 1)
  BY <1>2, <1>3, <1>6, <1>8
<1>10. PICK u \in Int, v \in Int : /\ u = s[i].ts /\ v = s[j].ts
                                   /\ u <= v => v - u = D
                                   /\ v < u => u - v = S - D
  <2>1. s[i].ts = x % S /\ s[j].ts = (x + D) % S
    BY <1>4, <1>7
  <2>2. S # 0 /\ D < S
    BY <1>2, <1>9
  <2>3. RanOn(x % S, (x + D) % S, D, S)
    BY <2>2, ClockRanOn
  <2>4. RanOn(s[i].ts, s[j].ts, D, S)
    BY Zenon, <2>1, <2>3
  <2>. QED  BY <2>4 DEF RanOn
<1>11. v < u => u - v >= M
  BY <1>3, <1>6, <1>8, <1>10
<1>12. (s[j].nth - s[i].nth) * Sender[p].step = D
  BY <1>1, <1>4, <1>5, <1>6
<1>. QED  BY <1>2, <1>10, <1>11, <1>12

\* Between two packets that took equally long.
LEMMA SteadyApart ==
  ASSUME NEW s, NEW p, Timed(s, p), Steady(s), Len(s) \in Nat, DOMAIN s = 1..Len(s),
         NEW i \in 1..Len(s), NEW j \in 1..Len(s), i < j,
         i \notin Overtaken(s), j \notin Overtaken(s), s[i].ts <= s[j].ts
  PROVE  \E d \in Nat : /\ s[j].at - s[i].at = d * Ptime
                        /\ s[j].ts - s[i].ts = d * Sender[p].step
<1>1. PICK a \in Nat, b \in Nat, e \in Nat, f \in Nat :
        a = s[i].nth /\ b = s[j].nth /\ e = s[i].at /\ f = s[j].at
  BY DEF Timed
<1>2. a <= b
  <2>1. ~(a > b)
    BY <1>1 DEF Overtaken
  <2>. QED  BY <1>1, <2>1
<1>3. PICK d \in Nat : d = b - a
  BY <1>1, <1>2
<1>4. PICK P \in Nat : P = Ptime
  BY MediaAssumption
<1>5. f - e = d * P
  <2>1. e - a * P = f - b * P
    BY <1>1, <1>4 DEF Steady
  <2>2. b * P = a * P + d * P /\ a * P \in Nat /\ b * P \in Nat /\ d * P \in Nat
    <3>1. a * P \in Nat /\ b * P \in Nat /\ d * P \in Nat
      BY Product
    <3>2. b * P = a * P + d * P
      BY <1>3
    <3>. QED  BY <3>1, <3>2
  <2>3. PICK g \in Nat, h \in Nat, k \in Nat : g = a * P /\ h = b * P /\ k = d * P
    BY <2>2
  <2>4. e - g = f - h /\ h = g + k
    BY <2>1, <2>2, <2>3
  <2>5. f - e = k
    BY <2>4
  <2>. QED  BY <2>3, <2>5
<1>6. s[j].ts - s[i].ts = d * Sender[p].step
  BY <1>1, <1>2, <1>3, TimedApart
<1>. QED  BY <1>1, <1>4, <1>5, <1>6

\* A pair from which the clock is measured, and that does not begin with a
\* packet that was overtaken, runs at the sender's rate.
LEMMA GoodPair ==
  ASSUME NEW X, NEW s \in Seq(X), NEW p, Timed(s, p), Steady(s),
         NEW i \in Measured(s), i \notin Overtaken(s)
  PROVE  /\ Sender[p].step # 0
         /\ RateAt(s, i)[1] * Ptime = Sender[p].step * RateAt(s, i)[2]
<1>1. i \in 1..Len(s) /\ i + 1 \in 1..Len(s) /\ i < i + 1 /\ Usable(s[i], s[i + 1])
  BY DEF Measured
<1>2. PICK u \in Int, v \in Int, M \in Nat :
        u = s[i].ts /\ v = s[i + 1].ts /\ M = MaxStep /\ v > u /\ v - u < M
  <2>1. s[i].ts \in Int /\ s[i + 1].ts \in Int
    BY <1>1, TimedTs
  <2>. QED  BY <1>1, <2>1, StatsAssumption DEF Usable
<1>3. i + 1 \notin Overtaken(s)
  <2>1. SUFFICES ASSUME NEW j \in 1..i, s[j].nth > s[i + 1].nth  PROVE FALSE
    BY <1>1 DEF Overtaken
  <2>2. PICK a \in Nat, b \in Nat, c \in Nat : a = s[i].nth /\ b = s[i + 1].nth /\ c = s[j].nth
    BY <1>1 DEF Timed
  <2>3. c <= a
    <3>1. j \in 1..(i - 1) => ~(s[j].nth > s[i].nth)
      BY <1>1 DEF Overtaken
    <3>2. j \in 1..(i - 1) \/ j = i
      BY <1>1
    <3>. QED  BY <2>2, <3>1, <3>2
  <2>4. b <= a
    BY <2>1, <2>2, <2>3
  <2>5. u < v => v - u >= M
    BY <1>1, <1>2, <2>2, <2>4, TimedApart
  <2>. QED  BY <1>2, <2>5
<1>4. PICK d \in Nat : s[i + 1].at - s[i].at = d * Ptime /\ s[i + 1].ts - s[i].ts = d * Sender[p].step
  <2>1. s[i].ts <= s[i + 1].ts
    BY <1>2
  <2>2. Len(s) \in Nat /\ DOMAIN s = 1..Len(s)
    OBVIOUS
  <2>. QED  BY <1>1, <1>3, <2>1, <2>2, SteadyApart
<1>5. PICK z \in Nat, P \in Nat : z = Sender[p].step /\ P = Ptime
  BY SenderTypes, MediaAssumption DEF Timed
<1>6. RateAt(s, i)[1] = d * z /\ RateAt(s, i)[2] = d * P
  BY <1>4, <1>5 DEF RateAt
<1>7. z # 0
  <2>1. z = 0 => d * z = 0
    OBVIOUS
  <2>2. v - u = d * z
    BY <1>2, <1>4, <1>5
  <2>3. v - u # 0
    BY <1>2
  <2>. QED  BY <2>1, <2>2, <2>3
<1>8. (d * z) * P = z * (d * P)
  OBVIOUS
<1>. QED  BY <1>5, <1>6, <1>7, <1>8

-----------------------------------------------------------------------------
(* The jitter of a calm stream.                                            *)

\* f are the states after the first 0, 1, ..., n packets of s.
Smooths(f, s, rate, n) ==
  /\ f = [k \in 0..n |-> f[k]]
  /\ f[0] = [prev |-> 0, jitter |-> 0]
  /\ \A k \in 1..n : f[k] = Next3550(s, rate, f[k - 1], k)

LEMMA SmoothsExists ==
  ASSUME NEW s, NEW rate
  PROVE  \A n \in Nat : \E f : Smooths(f, s, rate, n)
<1>. DEFINE T == {n \in Nat : \E f : Smooths(f, s, rate, n)}
            begin == [prev |-> 0, jitter |-> 0]
<1>. HIDE DEF begin
<1>1. 0 \in T
  <2>1. Smooths([k \in 0..0 |-> begin], s, rate, 0)
    BY DEF Smooths, begin
  <2>. QED  BY <2>1
<1>2. ASSUME NEW n \in Nat, n \in T  PROVE n + 1 \in T
  <2>1. PICK f : Smooths(f, s, rate, n)
    BY <1>2
  <2>. DEFINE next(k) == Next3550(s, rate, f[k - 1], k)
              g == [k \in 0..(n + 1) |-> IF k \in 0..n THEN f[k] ELSE next(k)]
  <2>. HIDE DEF next
  <2>2. g = [k \in 0..(n + 1) |-> g[k]] /\ g[0] = begin
    BY <2>1 DEF Smooths, begin
  <2>3. ASSUME NEW k \in 1..(n + 1)  PROVE g[k] = Next3550(s, rate, g[k - 1], k)
    <3>1. k - 1 \in 0..n /\ k - 1 \in 0..(n + 1) /\ k \in 0..(n + 1)
      OBVIOUS
    <3>2. g[k - 1] = f[k - 1]
      BY <3>1
    <3>3. CASE k \in 1..n
      <4>1. g[k] = f[k]
        BY <3>1, <3>3
      <4>2. f[k] = Next3550(s, rate, f[k - 1], k)
        BY <2>1, <3>3 DEF Smooths
      <4>. HIDE DEF g
      <4>. QED  BY Zenon, <3>2, <4>1, <4>2
    <3>4. CASE k \notin 1..n
      <4>1. k \notin 0..n
        BY <3>4
      <4>2. g[k] = next(k)
        BY <3>1, <4>1
      <4>. HIDE DEF g
      <4>. QED  BY Zenon, <3>2, <4>2 DEF next
    <3>. QED  BY <3>3, <3>4
  <2>. HIDE DEF g
  <2>4. Smooths(g, s, rate, n + 1)
    BY <2>2, <2>3 DEF Smooths, begin
  <2>. QED  BY <2>4
<1>. HIDE DEF T
<1>3. \A n \in Nat : n \in T
  BY <1>1, <1>2, EveryNatural
<1>. QED  BY <1>3 DEF T

LEMMA JittersSmooths ==
  ASSUME NEW X, NEW s \in Seq(X), NEW rate
  PROVE  Smooths(Jitters(s, rate), s, rate, Len(s))
<1>1. PICK n \in Nat : n = Len(s)
  OBVIOUS
<1>2. PICK f : Smooths(f, s, rate, n)
  BY SmoothsExists
<1>. DEFINE begin == [prev |-> 0, jitter |-> 0]
            next(u, k) == Next3550(s, rate, u, k)
            F == CHOOSE u : u = [k \in 0..n |-> IF k = 0 THEN begin ELSE next(u[k - 1], k)]
<1>3. Jitters(s, rate) = F
  BY Zenon, <1>1 DEF Jitters
<1>4. f[0] = begin /\ \A k \in 1..n : f[k] = next(f[k - 1], k)
  BY <1>2 DEF Smooths
<1>. HIDE DEF begin, next
<1>5. f = [k \in 0..n |-> IF k = 0 THEN begin ELSE next(f[k - 1], k)]
  <2>1. \A k \in 0..n : k = 0 \/ k \in 1..n
    OBVIOUS
  <2>2. f = [k \in 0..n |-> f[k]]
    BY <1>2 DEF Smooths
  <2>. QED  BY <1>4, <2>1, <2>2
<1>6. F = [k \in 0..n |-> IF k = 0 THEN begin ELSE next(F[k - 1], k)]
  BY <1>5
<1>. HIDE DEF F
<1>7. /\ F = [k \in 0..n |-> F[k]] /\ F[0] = begin
      /\ \A k \in 1..n : F[k] = next(F[k - 1], k)
  BY <1>6
<1>8. Smooths(F, s, rate, n)
  BY Zenon, <1>7 DEF Smooths, begin, next
<1>. QED  BY Zenon, <1>1, <1>3, <1>8

LEMMA NoDeviation ==
  ASSUME NEW p, NEW q, NEW rate \in Rates, NEW d \in Nat, NEW P \in Nat, NEW z \in Nat,
         q.at - p.at = d * P, q.ts - p.ts = d * z, rate[1] * P = z * rate[2]
  PROVE  Deviation(p, q, rate) = 0
<1>1. PICK a \in Nat, b \in Nat : a = rate[1] /\ b = rate[2] /\ a # 0
  BY DEF Rates
<1>2. (d * P) * a = (d * z) * b
  <2>1. PICK m \in Nat : m = a * P /\ m = z * b
    <3>1. a * P \in Nat
      BY Product
    <3>. QED  BY <1>1, <3>1
  <2>2. (d * P) * a = d * (a * P) /\ (d * z) * b = d * (z * b)
    OBVIOUS
  <2>. QED  BY <2>1, <2>2
<1>3. PICK m \in Nat : m = (d * P) * a /\ m = (d * z) * b
  <2>1. (d * P) * a \in Nat
    BY Product
  <2>. QED  BY <1>2, <2>1
<1>4. (q.at - p.at) * a - (q.ts - p.ts) * b = 0
  BY <1>3
<1>5. Fixed \in Nat
  BY StatsAssumption
<1>6. Fixed * Abs(0) = 0 /\ 0 \div a = 0
  BY <1>1, <1>5 DEF Abs
<1>. QED  BY <1>1, <1>4, <1>6 DEF Deviation

\* Behind k packets there is no jitter yet, and the last that was accepted was
\* not overtaken and has the latest timestamp.
CalmUpTo(f, s, k) ==
  /\ f[k].jitter = 0 /\ f[k].prev \in 0..k
  /\ k > 0 => /\ f[k].prev \in 1..k /\ f[k].prev \notin Overtaken(s)
              /\ \A j \in 1..k : s[j].ts <= s[f[k].prev].ts

LEMMA CalmStep ==
  ASSUME NEW s, NEW p, Timed(s, p), NEW n \in Nat, n = Len(s), DOMAIN s = 1..n,
         Steady(s), SeenAsOvertaken(s),
         NEW rate \in Rates, rate[1] * Ptime = Sender[p].step * rate[2],
         NEW f, Smooths(f, s, rate, n),
         NEW k \in Nat, k + 1 \in 1..n, CalmUpTo(f, s, k)
  PROVE  CalmUpTo(f, s, k + 1)
<1>1. PICK i : i = k + 1 /\ i \in 1..n /\ i - 1 = k
  OBVIOUS
<1>2. PICK prev \in 0..k : prev = f[k].prev /\ f[k].jitter = 0
  BY DEF CalmUpTo
<1>3. f[i] = Next3550(s, rate, f[k], i)
  BY <1>1 DEF Smooths
<1>4. \A j \in 1..n : s[j].ts \in Int
  BY TimedTs
<1>5. CASE k = 0
  <2>1. prev = 0 /\ i = 1
    BY <1>1, <1>2, <1>5
  <2>2. f[i] = [prev |-> 1, jitter |-> 0]
    BY <1>2, <1>3, <2>1 DEF Next3550, Accepts
  <2>3. 1 \notin Overtaken(s)
    BY DEF Overtaken
  <2>4. \A j \in 1..1 : s[j].ts <= s[1].ts
    BY <1>1, <1>4, <2>1
  <2>. QED  BY <1>1, <2>1, <2>2, <2>3, <2>4 DEF CalmUpTo
<1>6. CASE k > 0
  <2>1. /\ prev \in 1..k /\ prev \in 1..n /\ prev < i /\ prev \notin Overtaken(s)
        /\ \A j \in 1..k : s[j].ts <= s[prev].ts
    <3>1. prev \in 1..k /\ prev \notin Overtaken(s) /\ \A j \in 1..k : s[j].ts <= s[prev].ts
      BY <1>2, <1>6 DEF CalmUpTo
    <3>. QED  BY <1>1, <3>1
  <2>2. \A j \in 1..i : j \in 1..k \/ j = i
    BY <1>1
  <2>3. CASE ~Accepts(s, prev, i)
    <3>1. f[i] = f[k]
      BY <1>2, <1>3, <2>3 DEF Next3550
    <3>2. s[i].ts <= s[prev].ts
      BY <1>1, <1>4, <2>1, <2>3 DEF Accepts
    <3>3. \A j \in 1..i : s[j].ts <= s[prev].ts
      BY <2>1, <2>2, <3>2
    <3>4. prev \in 0..i /\ prev \in 1..i
      BY <1>1, <2>1
    <3>. QED  BY <1>1, <1>2, <2>1, <3>1, <3>3, <3>4 DEF CalmUpTo
  <2>4. CASE Accepts(s, prev, i)
    <3>1. s[prev].ts <= s[i].ts
      BY <1>1, <1>4, <2>1, <2>4 DEF Accepts
    <3>2. i \notin Overtaken(s)
      <4>1. SUFFICES ASSUME i \in Overtaken(s)  PROVE FALSE
        OBVIOUS
      <4>2. PICK j \in 1..(i - 1) : s[j].ts > s[i].ts
        BY <4>1 DEF SeenAsOvertaken
      <4>3. j \in 1..k /\ j \in 1..n
        BY <1>1
      <4>4. PICK a \in Int, b \in Int, c \in Int : a = s[j].ts /\ b = s[prev].ts /\ c = s[i].ts
        BY <1>1, <1>4, <2>1, <4>3
      <4>5. a <= b /\ b <= c /\ a > c
        BY <2>1, <3>1, <4>2, <4>3, <4>4
      <4>. QED  BY <4>4, <4>5
    <3>3. PICK d \in Nat : /\ s[i].at - s[prev].at = d * Ptime
                           /\ s[i].ts - s[prev].ts = d * Sender[p].step
      BY <1>1, <2>1, <3>1, <3>2, SteadyApart
    <3>4. Deviation(s[prev], s[i], rate) = 0
      <4>1. Ptime \in Nat /\ Sender[p].step \in Nat
        BY MediaAssumption, SenderTypes DEF Timed
      <4>. QED  BY <3>3, <4>1, NoDeviation
    <3>5. f[i] = [prev |-> i, jitter |-> (15 * 0 + 0) \div 16]
      BY <1>2, <1>3, <2>1, <2>4, <3>4 DEF Next3550
    <3>6. (15 * 0 + 0) \div 16 = 0
      OBVIOUS
    <3>7. \A j \in 1..i : s[j].ts <= s[i].ts
      <4>1. SUFFICES ASSUME NEW j \in 1..i  PROVE s[j].ts <= s[i].ts
        OBVIOUS
      <4>2. j \in 1..n
        BY <1>1
      <4>3. PICK a \in Int, b \in Int, c \in Int : a = s[j].ts /\ b = s[prev].ts /\ c = s[i].ts
        BY <1>1, <1>4, <2>1, <4>2
      <4>4. (a <= b /\ b <= c) \/ a = c
        BY <2>1, <2>2, <3>1, <4>3
      <4>. QED  BY <4>3, <4>4
    <3>. QED  BY <1>1, <3>2, <3>5, <3>6, <3>7 DEF CalmUpTo
  <2>. QED  BY <2>3, <2>4
<1>. QED  BY <1>5, <1>6

\* No deviation, no jitter: the clock is the sender's, and every two packets
\* that are compared are as far apart as they were sent.
LEMMA CalmStream ==
  ASSUME NEW X, NEW s \in Seq(X), NEW p, Timed(s, p), Steady(s), SeenAsOvertaken(s), Few(s)
  PROVE  \A k \in 0..Len(s) : Jitters(s, estimate_clock_rate_hz(s))[k].jitter = 0
<1>1. PICK n \in Nat : n = Len(s) /\ DOMAIN s = 1..n
  OBVIOUS
<1>2. PICK B : B = Measured(s) \cap Overtaken(s) /\ 2 * Cardinality(B) < Cardinality(Measured(s))
  BY DEF Few
<1>3. \A i \in Measured(s) \ B :
        Sender[p].step # 0 /\ RateAt(s, i)[1] * Ptime = Sender[p].step * RateAt(s, i)[2]
  BY <1>2, GoodPair
<1>4. \A k \in 1..Len(s) : s[k].at \in Nat /\ s[k].ts \in Int
  BY TimedTs
<1>5. PICK z \in Nat, P \in Nat : z = Sender[p].step /\ P = Ptime /\ P # 0
  BY SenderTypes, MediaAssumption DEF Timed
<1>6. z # 0
  <2>1. Measured(s) \ B # {}
    <3>1. SUFFICES ASSUME Measured(s) \subseteq B  PROVE FALSE
      OBVIOUS
    <3>2. B = Measured(s)
      BY <1>2, <3>1
    <3>3. PICK m \in Nat : m = Cardinality(Measured(s))
      BY <1>4, MeasuredRates, FS_CardinalityType
    <3>4. 2 * m < m
      BY <1>2, <3>2, <3>3
    <3>. QED  BY <3>4
  <2>. QED  BY <1>3, <1>5, <2>1
<1>7. PICK y \in Rates : y = <<z, P>> /\ y[1] = z /\ y[2] = P
  <2>1. <<z, P>> \in (Nat \ {0}) \X (Nat \ {0}) /\ <<z, P>>[1] = z /\ <<z, P>>[2] = P
    BY <1>5, <1>6
  <2>. QED  BY <2>1 DEF Rates
<1>8. \A i \in Measured(s) \ B : ~SlowerRate(RateAt(s, i), y) /\ ~SlowerRate(y, RateAt(s, i))
  <2>1. SUFFICES ASSUME NEW i \in Measured(s) \ B
                 PROVE  ~SlowerRate(RateAt(s, i), y) /\ ~SlowerRate(y, RateAt(s, i))
    OBVIOUS
  <2>2. RateAt(s, i) \in Rates
    BY <1>4, MeasuredRates
  <2>3. PICK a \in Nat, b \in Nat : a = RateAt(s, i)[1] /\ b = RateAt(s, i)[2]
    BY <2>2 DEF Rates
  <2>4. a * P = z * b /\ a * P \in Nat
    BY <1>3, <1>5, <2>3, Product
  <2>. QED  BY <1>7, <2>3, <2>4 DEF SlowerRate
<1>9. PICK r : r = estimate_clock_rate_hz(s)
  OBVIOUS
<1>10. r \in Rates /\ ~SlowerRate(r, y) /\ ~SlowerRate(y, r)
  BY <1>2, <1>4, <1>8, <1>9, EstimateOfMost
<1>11. r[1] * Ptime = Sender[p].step * r[2]
  <2>1. PICK a \in Nat, b \in Nat : a = r[1] /\ b = r[2]
    BY <1>10 DEF Rates
  <2>2. a * P \in Nat /\ z * b \in Nat
    BY Product
  <2>3. ~(a * P < z * b) /\ ~(z * b < a * P)
    BY <1>7, <1>10, <2>1 DEF SlowerRate
  <2>4. a * P = z * b
    BY <2>2, <2>3
  <2>. QED  BY <1>5, <2>1, <2>4
<1>12. PICK f : f = Jitters(s, r) /\ Smooths(f, s, r, n)
  BY <1>1, JittersSmooths
<1>. DEFINE T == {k \in Nat : k \in 0..n => CalmUpTo(f, s, k)}
<1>13. 0 \in T
  BY <1>12 DEF CalmUpTo, Smooths
<1>14. ASSUME NEW k \in Nat, k \in T  PROVE k + 1 \in T
  <2>1. SUFFICES ASSUME k + 1 \in 0..n  PROVE CalmUpTo(f, s, k + 1)
    OBVIOUS
  <2>2. k + 1 \in 1..n /\ k \in 0..n
    BY <2>1
  <2>3. CalmUpTo(f, s, k)
    BY <1>14, <2>2
  <2>. QED  BY <1>1, <1>10, <1>11, <1>12, <2>2, <2>3, CalmStep
<1>. HIDE DEF T
<1>15. \A k \in Nat : k \in T
  BY <1>13, <1>14, EveryNatural
<1>16. \A k \in 0..n : f[k].jitter = 0
  BY <1>15 DEF T, CalmUpTo
<1>. QED  BY <1>1, <1>9, <1>12, <1>16

-----------------------------------------------------------------------------
(* What is captured, and what is read of it.                               *)

\* The fields of a packet that tell a phone's from noise: its stream is a
\* party's, and its number is that of the party's nth packet.
OfPhone(r) == /\ r.ssrc \in Parties /\ r.nth \in 0..(Length - 1)
              /\ r.ts = (Sender[r.ssrc].ts + r.nth * Sender[r.ssrc].step) % TsSpace
              /\ r.seq = (Sender[r.ssrc].seq + r.nth) % SeqSpace

RtpRecords ==
  [kind : {"rtp"}, at : Nat, sent : Nat, ts : Int, seq : Int, nth : Nat,
   ssrc : Parties \cup {"noise"}, src : {Sender[p].src : p \in Parties}, pt : 0..127,
   len : Nat, pad : Nat]

\* A captured packet is a phone's, or noise, which is made of telephone events.
Heard == {r \in RtpRecords :
            IF r.ssrc = "noise" THEN r.pt = Event
            ELSE OfPhone(r) /\ r.len = Sender[r.ssrc].len /\ r.pad = Sender[r.ssrc].pad}

Records == [kind : {"sip"}, at : Nat] \cup Heard

\* The packets that a pcap of these records is read as.
Packets ==
  {p \in [at : Nat, ts : Int, seq : Int, ssrc : Parties \cup {"noise"},
          src : {Sender[q].src : q \in Parties}, pt : 0..127, size : Nat, nth : Nat] :
     IF p.ssrc = "noise" THEN p.pt = Event
     ELSE OfPhone(p) /\ p.size = Media(Sender[p.ssrc])}

LEMMA PacketHeard ==
  ASSUME NEW p \in Parties, now \in Nat, sent \in [Parties -> Nat], sent[p] < Length,
         NEW pt \in 0..127
  PROVE  Packet(p, pt) \in Heard
<1>1. PICK s : s = Sender[p]
  OBVIOUS
<1>2. /\ s.seq \in Nat /\ s.ts \in Nat /\ s.step \in Nat /\ s.len \in Nat /\ s.pad \in Nat
      /\ SeqSpace \in Nat \ {0} /\ TsSpace \in Nat \ {0}
  BY <1>1, SenderTypes, MediaAssumption
<1>3. PICK k \in Nat : k = sent[p] /\ k \in 0..(Length - 1)
  <2>1. PICK k \in Nat : k = sent[p] /\ k < Length
    OBVIOUS
  <2>2. Length \in Int
    BY MediaAssumption
  <2>. QED  BY <2>1, <2>2
<1>4. (s.ts + k * s.step) % TsSpace \in Int /\ (s.seq + k) % SeqSpace \in Int
  <2>1. s.ts + k * s.step \in Int /\ s.seq + k \in Int
    BY <1>2
  <2>. QED  BY <1>2, <2>1
<1>5. PICK r : r = Packet(p, pt)
  OBVIOUS
<1>6. r = [kind |-> "rtp", at |-> now, sent |-> now, ts |-> (s.ts + k * s.step) % TsSpace,
           seq |-> (s.seq + k) % SeqSpace, nth |-> k, ssrc |-> p, src |-> s.src, pt |-> pt,
           len |-> s.len, pad |-> s.pad]
  BY <1>1, <1>3, <1>5 DEF Packet
<1>7. r \in RtpRecords
  BY <1>1, <1>2, <1>4, <1>6 DEF RtpRecords
<1>8. r.ssrc # "noise"
  BY <1>6, MediaAssumption
<1>9. OfPhone(r) /\ r.len = Sender[r.ssrc].len /\ r.pad = Sender[r.ssrc].pad
  <2>1. /\ r.ssrc = p /\ r.nth = k /\ r.ts = (s.ts + k * s.step) % TsSpace
        /\ r.seq = (s.seq + k) % SeqSpace /\ r.len = s.len /\ r.pad = s.pad
    BY <1>6
  <2>. QED  BY Zenon, <1>1, <1>3, <2>1 DEF OfPhone
<1>. QED  BY <1>5, <1>7, <1>8, <1>9 DEF Heard

LEMMA NoiseHeard ==
  ASSUME NEW p \in Parties, now \in Nat, sent \in [Parties -> Nat], sent[p] < Length
  PROVE  Noise(p) \in Heard
<1>1. Event \in 0..127
  BY DEF Event
<1>2. PICK r : r = Packet(p, Event) /\ r \in Heard
  BY <1>1, PacketHeard
<1>3. r \in RtpRecords /\ r.pt = Event
  BY <1>2 DEF Heard, Packet
<1>4. PICK x : x = Noise(p)
  OBVIOUS
<1>5. x = [r EXCEPT !.ssrc = "noise", !.ts = sent[p], !.seq = sent[p]]
  BY <1>2, <1>4 DEF Noise
<1>6. x \in RtpRecords /\ x.pt = Event /\ x.ssrc = "noise"
  <2>1. PICK n \in Int : n = sent[p]
    OBVIOUS
  <2>. QED  BY <1>3, <1>5, <2>1 DEF RtpRecords
<1>. QED  BY <1>4, <1>6 DEF Heard

LEMMA LateHeard ==
  ASSUME NEW r \in Heard, now \in Nat
  PROVE  [r EXCEPT !.at = now] \in Heard
<1>1. PICK x : x = [r EXCEPT !.at = now]
  OBVIOUS
<1>2. r \in RtpRecords
  BY DEF Heard
<1>3. /\ x \in RtpRecords /\ x.pt = r.pt /\ x.ssrc = r.ssrc /\ x.nth = r.nth /\ x.ts = r.ts
      /\ x.seq = r.seq /\ x.len = r.len /\ x.pad = r.pad
  BY <1>1, <1>2 DEF RtpRecords
<1>4. CASE r.ssrc = "noise"
  BY <1>1, <1>3, <1>4 DEF Heard
<1>5. CASE r.ssrc # "noise"
  <2>1. OfPhone(r) /\ r.len = Sender[r.ssrc].len /\ r.pad = Sender[r.ssrc].pad
    BY <1>5 DEF Heard
  <2>2. OfPhone(x) /\ x.len = Sender[x.ssrc].len /\ x.pad = Sender[x.ssrc].pad
    BY Zenon, <1>3, <2>1 DEF OfPhone
  <2>. QED  BY <1>1, <1>3, <1>5, <2>2 DEF Heard
<1>. QED  BY <1>4, <1>5

LEMMA ParsedTypes ==
  ASSUME NEW records \in Seq(Records)
  PROVE  parse_rtp_packets_from_pcap(records) \in Seq(Packets)
<1>. DEFINE I == {i \in DOMAIN records : records[i].kind = "rtp"}
<1>1. PICK t : t = Those(records, I)
  OBVIOUS
<1>2. t \in Seq(Records) /\ AreThose(t, records, I)
  BY <1>1, ThoseProperties
<1>3. \A k \in 1..Len(t) : t[k] \in Heard
  <2>1. SUFFICES ASSUME NEW k \in 1..Len(t)  PROVE t[k] \in Heard
    OBVIOUS
  <2>2. t[k] \in Records /\ t[k].kind = "rtp"
    BY <1>2 DEF AreThose
  <2>. QED  BY <2>2 DEF Records
<1>4. PICK p : p = parse_rtp_packets_from_pcap(records)
  OBVIOUS
<1>5. p = [k \in DOMAIN t |->
             [at |-> t[k].at, ts |-> t[k].ts, seq |-> t[k].seq, ssrc |-> t[k].ssrc, src |-> t[k].src,
              pt |-> t[k].pt, size |-> Media(t[k]), nth |-> t[k].nth]]
  BY <1>1, <1>4 DEF parse_rtp_packets_from_pcap, Mapped
<1>6. ASSUME NEW k \in 1..Len(t)  PROVE p[k] \in Packets
  <2>1. PICK r : r = t[k] /\ r \in Heard
    BY <1>3
  <2>2. PICK x : /\ x = p[k]
                 /\ x = [at |-> r.at, ts |-> r.ts, seq |-> r.seq, ssrc |-> r.ssrc, src |-> r.src,
                         pt |-> r.pt, size |-> Media(r), nth |-> r.nth]
    BY <1>2, <1>5, <2>1
  <2>3. r \in RtpRecords
    BY <2>1 DEF Heard
  <2>4. Media(r) \in Nat
    BY <2>3 DEF RtpRecords, Media
  <2>5. x \in [at : Nat, ts : Int, seq : Int, ssrc : Parties \cup {"noise"},
               src : {Sender[q].src : q \in Parties}, pt : 0..127, size : Nat, nth : Nat]
    BY <2>2, <2>3, <2>4 DEF RtpRecords
  <2>6. ASSUME x.ssrc # "noise"  PROVE OfPhone(x) /\ x.size = Media(Sender[x.ssrc])
    <3>1. OfPhone(r) /\ r.len = Sender[r.ssrc].len /\ r.pad = Sender[r.ssrc].pad
      BY <2>1, <2>2, <2>6 DEF Heard
    <3>2. Media(r) = Media(Sender[r.ssrc])
      BY <3>1 DEF Media
    <3>3. /\ x.ssrc = r.ssrc /\ x.nth = r.nth /\ x.ts = r.ts /\ x.seq = r.seq
          /\ x.size = Media(r)
      BY <2>2
    <3>. QED  BY Zenon, <3>1, <3>2, <3>3 DEF OfPhone
  <2>7. x.ssrc = "noise" => x.pt = Event
    BY <2>1, <2>2 DEF Heard
  <2>. QED  BY <2>2, <2>5, <2>6, <2>7 DEF Packets
<1>7. p \in [1..Len(t) -> Packets]
  <2>1. DOMAIN t = 1..Len(t)
    BY <1>2
  <2>2. p = [k \in 1..Len(t) |-> p[k]]
    BY <1>5, <2>1
  <2>. QED  BY <1>6, <2>2
<1>8. Len(t) \in Nat
  BY <1>2
<1>. QED  BY <1>4, <1>7, <1>8, SeqDef

-----------------------------------------------------------------------------
(* The invariant.                                                          *)

Capturing ==
  /\ now \in Nat /\ sent \in [Parties -> Nat] /\ wire \subseteq Heard
  /\ pc = "talking" => pcap \in Seq(Records)
  /\ pc # "talking" /\ pcap # None => pcap \in Seq(Records) /\ pcap # <<>>

\* Row, request, answer and page are of the same call, c.
OfCall(c) == /\ cdr \in {None, c} /\ req.row \in {None, c} /\ answer.row \in {None, c}
             /\ \A leg \in players : c.payload[leg] # None /\ is_wav_capable(u8(c.payload[leg]))

Talking == pc = "talking" => cdr = None /\ req.row = None /\ answer.row = None /\ players = {}

\* What an answer with audio says, of the packets it was made from.
Encoded(a) ==
  LET wav == encode_wav_from_rtp(a.from, payload_type(a.from, a.row.payload[a.leg]))
  IN /\ a.from \in Seq(Packets)
     /\ a.row.saddr[a.leg] # None => \A i \in DOMAIN a.from : a.from[i].src = a.row.saddr[a.leg]
     /\ a.status = "ok" => wav # <<>> /\ a.body = wav
     /\ a.status = "not_found" => a.from = <<>> \/ wav = <<>>

\* And one with a chart.
Drawn(a) == a.from \in Seq(Packets) /\ a.body \in compute_rtp_stats(a.from, a.row.caller)

Answered == (Audio => Encoded(answer)) /\ (Chart => Drawn(answer))

MInv == Capturing /\ Talking /\ (\E c : OfCall(c)) /\ Answered

LEMMA MInit ==
  ASSUME MediaInit
  PROVE  MInv
<1>1. Capturing
  BY MediaAssumption DEF MediaInit, Capturing
<1>2. Talking /\ Answered
  BY DEF MediaInit, Talking, Answered, Audio, Chart, NoRequest, NoAnswer
<1>3. \E c : OfCall(c)
  BY DEF MediaInit, OfCall, NoRequest, NoAnswer
<1>. QED  BY <1>1, <1>2, <1>3 DEF MInv

\* The steps that leave the requests and the page alone.
LEMMA ServedAlone ==
  ASSUME MInv, UNCHANGED <<cdr, req, answer, players>>, pc' = pc
  PROVE  Talking' /\ (\E c : OfCall(c))' /\ Answered'
<1>1. Talking' /\ Answered'
  BY DEF MInv, Talking, Answered, Audio, Chart
<1>2. PICK c : OfCall(c)
  BY DEF MInv
<1>3. OfCall(c)'
  BY <1>2 DEF OfCall
<1>. QED  BY <1>1, <1>3

LEMMA SendStep ==
  ASSUME MInv, NEW p \in Parties, Send(p)
  PROVE  MInv'
<1>1. /\ now \in Nat /\ sent \in [Parties -> Nat] /\ wire \subseteq Heard
      /\ pc = "talking" /\ pcap \in Seq(Records) /\ sent[p] < Length
  BY DEF MInv, Capturing, Send
<1>2. /\ sent' = [sent EXCEPT ![p] = @ + 1]
      /\ UNCHANGED <<now, cdr, pc, req, players, answer>>
  BY DEF Send
<1>3. sent' \in [Parties -> Nat]
  BY <1>1, <1>2
<1>4. PICK x, y : /\ x = Packet(p, Codec[p]) /\ x \in Heard /\ x \in Records
                  /\ y = Noise(p) /\ y \in Heard /\ y \in Records
  <2>1. Packet(p, Codec[p]) \in Heard /\ Noise(p) \in Heard
    BY <1>1, SenderTypes, PacketHeard, NoiseHeard
  <2>. QED  BY <2>1 DEF Records
<1>5. ASSUME NEW pt \in {Event, PT_PCMA}  PROVE Packet(p, pt) \in Records
  <2>1. pt \in 0..127
    BY <1>5 DEF Event, PT_PCMA
  <2>. QED  BY <1>1, <2>1, PacketHeard DEF Records
<1>6. \/ pcap' = pcap
      \/ pcap' = pcap \o <<x, x>>
      \/ \E r \in Records : pcap' = Append(pcap, r)
  BY <1>4, <1>5 DEF Send
<1>7. wire' = wire \/ wire' = wire \cup {x}
  BY <1>4 DEF Send
<1>8. pcap' \in Seq(Records)
  <2>1. CASE pcap' = pcap
    BY <1>1, <2>1
  <2>2. CASE pcap' = pcap \o <<x, x>>
    <3>1. <<x, x>> \in Seq(Records)
      BY <1>4
    <3>. QED  BY <1>1, <2>2, <3>1, ConcatProperties
  <2>3. ASSUME NEW r \in Records, pcap' = Append(pcap, r)  PROVE pcap' \in Seq(Records)
    BY <1>1, <2>3, AppendProperties
  <2>. QED  BY <1>6, <2>1, <2>2, <2>3
<1>9. Capturing'
  BY <1>1, <1>2, <1>3, <1>4, <1>7, <1>8 DEF Capturing
<1>. QED  BY <1>2, <1>9, ServedAlone DEF MInv

LEMMA TalkStep ==
  ASSUME MInv, Signal \/ Arrive \/ Tick
  PROVE  MInv'
<1>1. /\ now \in Nat /\ sent \in [Parties -> Nat] /\ wire \subseteq Heard
      /\ pc = "talking" /\ pcap \in Seq(Records)
  BY DEF MInv, Capturing, Signal, Arrive, Tick
<1>2. UNCHANGED <<sent, cdr, pc, req, players, answer>>
  BY DEF Signal, Arrive, Tick, call
<1>3. now' \in Nat
  BY <1>1 DEF Signal, Arrive, Tick, call
<1>4. wire' \subseteq Heard /\ pcap' \in Seq(Records)
  <2>1. CASE Signal
    <3>1. PICK r : r = [kind |-> "sip", at |-> now] /\ r \in Records
      <4>1. [kind |-> "sip", at |-> now] \in [kind : {"sip"}, at : Nat]
        BY <1>1
      <4>. QED  BY <4>1 DEF Records
    <3>2. <<r>> \in Seq(Records)
      BY <3>1
    <3>. QED  BY <1>1, <2>1, <3>1, <3>2 DEF Signal, call
  <2>2. CASE Arrive
    <3>1. PICK r \in wire : pcap' = Append(pcap, [r EXCEPT !.at = now]) /\ wire' = wire \ {r}
      BY <2>2 DEF Arrive
    <3>2. PICK x : x = [r EXCEPT !.at = now] /\ x \in Records
      BY <1>1, LateHeard DEF Records
    <3>3. pcap' = Append(pcap, x)
      BY <3>1, <3>2
    <3>. QED  BY <1>1, <3>1, <3>2, <3>3, AppendProperties
  <2>3. CASE Tick
    BY <1>1, <2>3 DEF Tick
  <2>. QED  BY <2>1, <2>2, <2>3
<1>5. Capturing'
  BY <1>1, <1>2, <1>3, <1>4 DEF Capturing
<1>. QED  BY <1>2, <1>5, ServedAlone DEF MInv

LEMMA EndStep ==
  ASSUME MInv, CallEnds
  PROVE  MInv'
<1>1. /\ pc = "talking" /\ pcap # <<>> /\ pc' = "idle"
      /\ UNCHANGED <<now, sent, wire, pcap, req, players, answer>>
  BY DEF CallEnds, call
<1>2. Capturing'
  BY <1>1 DEF MInv, Capturing
<1>3. req.row = None /\ answer.row = None /\ players = {}
  BY <1>1 DEF MInv, Talking
<1>4. \E c : OfCall(c)'
  <2>1. PICK c : c = cdr'
    OBVIOUS
  <2>2. OfCall(c)'
    BY <1>1, <1>3, <2>1 DEF OfCall
  <2>. QED  BY <2>2
<1>5. Talking' /\ Answered'
  BY <1>1, <1>3 DEF Talking, Answered, Audio, Chart
<1>. QED  BY <1>2, <1>4, <1>5 DEF MInv

LEMMA CleanStep ==
  ASSUME MInv, CleanUp
  PROVE  MInv'
<1>1. /\ pc # "talking" /\ UNCHANGED <<now, sent, wire, pc, req, players, answer>>
      /\ cdr' = cdr \/ cdr' = None
      /\ pcap' = pcap \/ pcap' = None
  BY DEF CleanUp, call
<1>2. Capturing'
  BY <1>1 DEF MInv, Capturing
<1>3. PICK c : OfCall(c)
  BY DEF MInv
<1>4. OfCall(c)'
  BY <1>1, <1>3 DEF OfCall
<1>5. Talking' /\ Answered'
  BY <1>1 DEF MInv, Talking, Answered, Audio, Chart
<1>. QED  BY <1>2, <1>4, <1>5 DEF MInv

LEMMA PageStep ==
  ASSUME MInv, render_audio_players
  PROVE  MInv'
<1>1. /\ pc = "idle" /\ cdr # None /\ pc' = "page"
      /\ players' = {leg \in {"a", "b"} : /\ cdr.payload[leg] # None
                                          /\ is_wav_capable(u8(cdr.payload[leg]))}
      /\ UNCHANGED <<now, sent, wire, pcap, cdr, req, answer>>
  BY DEF render_audio_players, call
<1>2. Capturing'
  BY <1>1 DEF MInv, Capturing
<1>3. PICK c : OfCall(c)
  BY DEF MInv
<1>4. c = cdr
  BY <1>1, <1>3 DEF OfCall
<1>5. OfCall(c)'
  BY <1>1, <1>3, <1>4 DEF OfCall
<1>6. Talking' /\ Answered'
  BY <1>1 DEF MInv, Talking, Answered, Audio, Chart
<1>. QED  BY <1>2, <1>5, <1>6 DEF MInv

LEMMA AskStep ==
  ASSUME MInv, NEW what, NEW leg, Ask(what, leg)
  PROVE  MInv'
<1>1. /\ pc = "page" /\ pc' \in {"page", "build"}
      /\ UNCHANGED <<now, sent, wire, pcap, cdr, players>>
      /\ answer'.row = None
      /\ req'.row = cdr \/ req' = req
  <2>1. CASE /\ cdr # None
             /\ pc' = "build" /\ req' = [what |-> what, leg |-> leg, row |-> cdr]
             /\ answer' = NoAnswer
    BY <2>1 DEF Ask, call, NoAnswer
  <2>2. CASE \E s : /\ answer' = [NoAnswer EXCEPT !.what = what, !.leg = leg, !.status = s]
                    /\ UNCHANGED <<pc, req>>
    <3>1. PICK s : answer' = [NoAnswer EXCEPT !.what = what, !.leg = leg, !.status = s]
      BY <2>2
    <3>2. answer'.row = None
      BY <3>1 DEF NoAnswer
    <3>. QED  BY <2>2, <3>2 DEF Ask, call
  <2>. QED  BY <2>1, <2>2 DEF Ask
<1>2. Capturing'
  BY <1>1 DEF MInv, Capturing
<1>3. PICK c : OfCall(c)
  BY DEF MInv
<1>4. OfCall(c)'
  BY <1>1, <1>3 DEF OfCall
<1>5. Talking' /\ Answered'
  BY <1>1 DEF Talking, Answered, Audio, Chart
<1>. QED  BY <1>2, <1>4, <1>5 DEF MInv

\* The leg's packets are of the call, and its own when its address is known.
LEMMA LegTypes ==
  ASSUME NEW packets \in Seq(Packets), NEW row, NEW leg
  PROVE  /\ LegPackets(packets, row, leg) \in Seq(Packets)
         /\ row.saddr[leg] # None =>
              \A i \in DOMAIN LegPackets(packets, row, leg) :
                LegPackets(packets, row, leg)[i].src = row.saddr[leg]
<1>1. CASE row.saddr[leg] = None
  BY <1>1 DEF LegPackets
<1>2. CASE row.saddr[leg] # None
  <2>. DEFINE I == {i \in DOMAIN packets : packets[i].src = row.saddr[leg]}
  <2>1. PICK t : t = LegPackets(packets, row, leg) /\ t = Those(packets, I)
    BY <1>2 DEF LegPackets
  <2>2. t \in Seq(Packets) /\ AreThose(t, packets, I)
    BY <2>1, ThoseProperties
  <2>3. \A k \in DOMAIN t : t[k].src = row.saddr[leg]
    BY <2>2 DEF AreThose
  <2>. QED  BY <2>1, <2>2, <2>3
<1>. QED  BY <1>1, <1>2

LEMMA BuildStep ==
  ASSUME MInv, Build
  PROVE  MInv'
<1>1. pc = "build" /\ UNCHANGED <<now, sent, wire, pcap, cdr, players>>
  BY DEF Build, call
<1>2. PICK status, body, from :
        /\ Respond(status, body, from)
        /\ req.what = "chart" =>
             \/ from = <<>>
             \/ from \in Seq(Packets) /\ body \in compute_rtp_stats(from, req.row.caller)
        /\ req.what # "chart" =>
             \/ status = "not_found" /\ from = <<>>
             \/ LET wav == encode_wav_from_rtp(from, payload_type(from, req.row.payload[req.leg]))
                IN /\ from \in Seq(Packets)
                   /\ req.row.saddr[req.leg] # None =>
                        \A i \in DOMAIN from : from[i].src = req.row.saddr[req.leg]
                   /\ \/ status = "not_found" /\ wav = <<>>
                      \/ status = "ok" /\ wav # <<>> /\ body = wav
  <2>1. CASE Respond(IF req.what = "chart" THEN "ok" ELSE "not_found", <<>>, <<>>)
    BY <2>1
  <2>2. ASSUME pcap # None, NEW records \in {pcap, SubSeq(pcap, 1, 1)},
               NEW packets, packets = parse_rtp_packets_from_pcap(records)
        PROVE  packets \in Seq(Packets)
    <3>1. pcap \in Seq(Records) /\ pcap # <<>>
      BY <1>1, <2>2 DEF MInv, Capturing
    <3>2. SubSeq(pcap, 1, 1) \in Seq(Records)
      <4>1. Len(pcap) \in Nat /\ Len(pcap) # 0
        BY <3>1
      <4>. QED  BY <3>1, <4>1, SubSeqProperties
    <3>. QED  BY <2>2, <3>1, <3>2, ParsedTypes
  <2>3. ASSUME pcap # None, NEW records \in {pcap, SubSeq(pcap, 1, 1)},
               NEW packets, packets = parse_rtp_packets_from_pcap(records),
               req.what = "chart", rtp_chart_json(packets)
        PROVE  \E status, body, from :
                 /\ Respond(status, body, from)
                 /\ from \in Seq(Packets) /\ body \in compute_rtp_stats(from, req.row.caller)
    <3>1. PICK stats \in compute_rtp_stats(packets, req.row.caller) : Respond("ok", stats, packets)
      BY <2>3 DEF rtp_chart_json
    <3>2. packets \in Seq(Packets)
      BY <2>2, <2>3
    <3>. QED  BY <3>1, <3>2
  <2>4. ASSUME pcap # None, NEW records \in {pcap, SubSeq(pcap, 1, 1)},
               NEW packets, packets = parse_rtp_packets_from_pcap(records),
               req.what # "chart", cdr_audio_wav(packets)
        PROVE  \E status, body, from :
                 /\ Respond(status, body, from)
                 /\ LET wav == encode_wav_from_rtp(from, payload_type(from, req.row.payload[req.leg]))
                    IN /\ from \in Seq(Packets)
                       /\ req.row.saddr[req.leg] # None =>
                            \A i \in DOMAIN from : from[i].src = req.row.saddr[req.leg]
                       /\ \/ status = "not_found" /\ wav = <<>>
                          \/ status = "ok" /\ wav # <<>> /\ body = wav
    <3>1. PICK leg : leg = LegPackets(packets, req.row, req.leg)
      OBVIOUS
    <3>2. PICK wav : wav = encode_wav_from_rtp(leg, payload_type(leg, req.row.payload[req.leg]))
      OBVIOUS
    <3>3. /\ leg \in Seq(Packets)
          /\ req.row.saddr[req.leg] # None =>
               \A i \in DOMAIN leg : leg[i].src = req.row.saddr[req.leg]
      <4>1. packets \in Seq(Packets)
        BY <2>2, <2>4
      <4>. QED  BY <3>1, <4>1, LegTypes
    <3>4. IF wav = <<>> THEN Respond("not_found", <<>>, leg) ELSE Respond("ok", wav, leg)
      BY <2>4, <3>1, <3>2 DEF cdr_audio_wav
    <3>. QED  BY <3>2, <3>3, <3>4
  <2>. QED  BY <2>1, <2>3, <2>4 DEF Build
<1>3. /\ pc' = "page" /\ req' = NoRequest
      /\ answer' = [status |-> status, what |-> req.what, leg |-> req.leg, body |-> body,
                    from |-> from, row |-> req.row]
  BY <1>2 DEF Respond
<1>4. Capturing'
  BY <1>1, <1>3 DEF MInv, Capturing
<1>5. PICK c : OfCall(c)
  BY DEF MInv
<1>6. OfCall(c)'
  BY <1>1, <1>3, <1>5 DEF OfCall, NoRequest
<1>7. Talking'
  BY <1>3 DEF Talking
<1>8. ASSUME Audio'  PROVE Encoded(answer')
  <2>1. /\ req.what # "chart"
        /\ answer'.row = req.row /\ answer'.leg = req.leg /\ answer'.from = from
        /\ answer'.status = status /\ answer'.body = body
    BY <1>3, <1>8 DEF Audio
  <2>2. CASE status = "not_found" /\ from = <<>>
    BY <2>1, <2>2 DEF Encoded
  <2>3. CASE ~(status = "not_found" /\ from = <<>>)
    BY <1>2, <2>1, <2>3 DEF Encoded
  <2>. QED  BY <2>2, <2>3
<1>9. ASSUME Chart'  PROVE Drawn(answer')
  <2>1. /\ req.what = "chart" /\ from # <<>>
        /\ answer'.row = req.row /\ answer'.from = from /\ answer'.body = body
    BY <1>3, <1>9 DEF Chart
  <2>. QED  BY <1>2, <2>1 DEF Drawn
<1>10. Answered'
  BY <1>8, <1>9 DEF Answered
<1>. QED  BY <1>4, <1>6, <1>7, <1>10 DEF MInv

LEMMA MStep ==
  ASSUME MInv, [MediaNext]_media_vars
  PROVE  MInv'
<1>1. CASE MediaNext
  <2>1. CASE Signal \/ Arrive \/ Tick
    BY <2>1, TalkStep
  <2>2. CASE \E p \in Parties : Send(p)
    BY <2>2, SendStep
  <2>3. CASE CallEnds
    BY <2>3, EndStep
  <2>4. CASE CleanUp
    BY <2>4, CleanStep
  <2>5. CASE render_audio_players
    BY <2>5, PageStep
  <2>6. CASE Asks
    BY <2>6, AskStep DEF Asks
  <2>7. CASE Build
    BY <2>7, BuildStep
  <2>. QED  BY <1>1, <2>1, <2>2, <2>3, <2>4, <2>5, <2>6, <2>7 DEF MediaNext, Talk
<1>2. CASE UNCHANGED media_vars
  <2>1. UNCHANGED <<now, sent, wire, pcap, cdr, pc, req, players, answer>>
    BY <1>2 DEF media_vars, call
  <2>2. Capturing'
    BY <2>1 DEF MInv, Capturing
  <2>. QED  BY <2>1, <2>2, ServedAlone DEF MInv
<1>. QED  BY <1>1, <1>2

\* The pcap holds packets of the call, every answer is of the row that was
\* asked for, and its audio is what the leg's packets give.
THEOREM MediaInvariant == MediaSpec => []MInv
<1>. QED  BY MInit, MStep, PTL DEF MediaSpec

-----------------------------------------------------------------------------
(* What is played.                                                         *)

LEMMA OfTypeTypes ==
  ASSUME NEW from \in Seq(Packets), NEW pt
  PROVE  /\ OfType(from, pt) \in Seq(Packets)
         /\ \A k \in 1..Len(OfType(from, pt)) :
              /\ OfType(from, pt)[k].pt = pt
              /\ \E i \in DOMAIN from : OfType(from, pt)[k] = from[i]
         /\ \A i \in DOMAIN from : from[i].pt = pt =>
              \E k \in 1..Len(OfType(from, pt)) : OfType(from, pt)[k] = from[i]
<1>. DEFINE I == {i \in DOMAIN from : from[i].pt = pt}
<1>1. PICK m : m = OfType(from, pt) /\ m = Those(from, I)
  BY DEF OfType
<1>2. m \in Seq(Packets) /\ AreThose(m, from, I)
  BY <1>1, ThoseProperties
<1>3. \A k \in 1..Len(m) : \E i \in I : m[k] = from[i]
  BY <1>2 DEF AreThose
<1>4. \A i \in I : \E k \in 1..Len(m) : m[k] = from[i]
  BY <1>2 DEF AreThose
<1>5. \A k \in 1..Len(m) : m[k].pt = pt /\ \E i \in DOMAIN from : m[k] = from[i]
  BY <1>3
<1>6. \A i \in DOMAIN from : from[i].pt = pt => \E k \in 1..Len(m) : m[k] = from[i]
  BY <1>4
<1>. QED  BY <1>1, <1>2, <1>5, <1>6

LEMMA TotalOfNothing ==
  ASSUME NEW s \in Seq(Nat), Total(s) = 0
  PROVE  \A k \in 1..Len(s) : s[k] = 0
<1>1. PICK n \in Nat : n = Len(s)
  OBVIOUS
<1>2. PICK f \in [0..n -> Nat] : Adds(f, s, n) /\ f[n] = 0
  BY <1>1, TotalAdds
<1>3. \A k \in 1..n : s[k] \in Nat /\ k - 1 \in 0..n /\ f[k] = f[k - 1] + s[k]
  <2>1. \A k \in 1..n : f[k] = f[k - 1] + s[k]
    BY <1>2 DEF Adds
  <2>2. \A k \in 1..n : s[k] \in Nat /\ k - 1 \in 0..n
    BY <1>1
  <2>. QED  BY <2>1, <2>2
<1>. DEFINE T == {i \in Nat : i \in 0..n => f[n - i] = 0}
<1>4. 0 \in T
  BY <1>2
<1>5. ASSUME NEW i \in Nat, i \in T  PROVE i + 1 \in T
  <2>1. SUFFICES ASSUME i + 1 \in 0..n  PROVE f[n - (i + 1)] = 0
    OBVIOUS
  <2>2. PICK k : k = n - i /\ k \in 1..n /\ k - 1 = n - (i + 1) /\ i \in 0..n
    BY <2>1
  <2>3. f[k] = 0 /\ f[k] = f[k - 1] + s[k] /\ s[k] \in Nat /\ f[k - 1] \in Nat
    BY <1>2, <1>3, <1>5, <2>2
  <2>4. f[k - 1] = 0
    BY <2>3
  <2>. QED  BY <2>2, <2>4
<1>6. \A i \in Nat : i \in T
  <2>. HIDE DEF T
  <2>. QED  BY <1>4, <1>5, EveryNatural
<1>7. \A k \in 0..n : f[k] = 0
  <2>1. SUFFICES ASSUME NEW k \in 0..n  PROVE f[k] = 0
    OBVIOUS
  <2>2. n - k \in Nat /\ n - k \in 0..n /\ n - (n - k) = k
    OBVIOUS
  <2>. QED  BY <1>6, <2>2
<1>8. ASSUME NEW k \in 1..n  PROVE s[k] = 0
  <2>1. k \in 0..n /\ k - 1 \in 0..n
    OBVIOUS
  <2>. QED  BY <1>3, <1>7, <2>1
<1>. QED  BY <1>1, <1>8

\* A WAV without samples was made from packets without media.
LEMMA NoSamples ==
  ASSUME NEW m \in Seq(Packets), SampleCount(Runs(m)) = 0
  PROVE  \A k \in 1..Len(m) : m[k].size = 0
<1>1. PICK n \in Nat : n = Len(m) /\ DOMAIN m = 1..n
  OBVIOUS
<1>2. \A k \in 1..n : m[k].size \in Nat
  BY <1>1 DEF Packets
<1>3. Carried(m) \in Nat
  <2>. DEFINE s == [k \in 1..n |-> m[k].size]
  <2>1. s \in [1..n -> Nat]
    BY <1>2
  <2>2. Carried(m) = Total(s)
    BY <1>1 DEF Carried
  <2>. HIDE DEF s
  <2>3. s \in Seq(Nat)
    BY <2>1, SeqDef
  <2>4. Total(s) \in Nat
    <3>1. PICK f \in [0..Len(s) -> Nat] : Total(s) = f[Len(s)]
      BY <2>3, TotalAdds
    <3>2. Len(s) \in 0..Len(s)
      BY <2>3
    <3>. QED  BY <3>1, <3>2
  <2>. QED  BY <2>2, <2>4
<1>4. PICK avg : avg = Average(m)
  OBVIOUS
<1>5. n # 0 => avg \in Nat
  <2>1. PICK c \in Nat : c = Carried(m)
    BY <1>3
  <2>2. n # 0 => c \div n \in Nat
    OBVIOUS
  <2>. QED  BY <1>1, <1>4, <2>1, <2>2 DEF Average
<1>6. \A k \in 1..n : Fill(m, k, avg) \in Nat
  <2>1. SUFFICES ASSUME NEW k \in 1..n  PROVE Fill(m, k, avg) \in Nat
    OBVIOUS
  <2>2. PICK l : l = Lost(m[k - 1].seq, m[k].seq)
    OBVIOUS
  <2>3. \A i \in Nat : i * avg \in Nat
    BY <1>5
  <2>4. Fill(m, k, avg) = IF k > 1 /\ l \in 1..MaxFill THEN l * avg ELSE 0
    BY <2>2 DEF Fill
  <2>. QED  BY <2>3, <2>4
<1>7. PICK r : r = Runs(m)
  OBVIOUS
<1>8. /\ DOMAIN r = 1..n
      /\ \A k \in 1..n : r[k].silence = Fill(m, k, avg) /\ r[k].n = m[k].size
  BY <1>1, <1>4, <1>7 DEF Runs
<1>. DEFINE s == [k \in 1..n |-> r[k].silence + r[k].n]
<1>9. s \in [1..n -> Nat] /\ \A k \in 1..n : s[k] = Fill(m, k, avg) + m[k].size
  BY <1>2, <1>6, <1>8
<1>10. Total(s) = 0
  BY <1>7, <1>8 DEF SampleCount
<1>. HIDE DEF s
<1>11. s \in Seq(Nat) /\ Len(s) = n
  BY <1>9, SeqDef
<1>12. \A k \in 1..n : s[k] = 0
  BY <1>10, <1>11, TotalOfNothing
<1>. QED  BY <1>1, <1>2, <1>6, <1>9, <1>12

\* What an answer with samples was made of.
LEMMA PlayedRuns ==
  ASSUME MInv, Audio, answer.status = "ok"
  PROVE  /\ answer.body = Runs(Played) /\ Played \in Seq(Packets) /\ Played # <<>>
         /\ \A k \in 1..Len(Played) : Played[k].pt # Event /\ \E i \in DOMAIN answer.from : Played[k] = answer.from[i]
<1>1. Encoded(answer)
  BY DEF MInv, Answered
<1>2. PICK pt : pt = payload_type(answer.from, answer.row.payload[answer.leg])
  OBVIOUS
<1>3. PICK m : m = OfType(answer.from, pt) /\ m = Played
  BY <1>2 DEF Played
<1>4. PICK wav : wav = encode_wav_from_rtp(answer.from, pt) /\ wav # <<>> /\ answer.body = wav
  BY <1>1, <1>2 DEF Encoded
<1>5. is_wav_capable(pt) /\ wav = Runs(m)
  BY <1>3, <1>4 DEF encode_wav_from_rtp
<1>6. m \in Seq(Packets)
      /\ \A k \in 1..Len(m) : m[k].pt = pt /\ \E i \in DOMAIN answer.from : m[k] = answer.from[i]
  <2>1. PICK from \in Seq(Packets) : from = answer.from
    BY <1>1 DEF Encoded
  <2>2. m = OfType(from, pt)
    BY <1>3, <2>1
  <2>3. m \in Seq(Packets) /\ \A k \in 1..Len(m) : m[k].pt = pt /\ \E i \in DOMAIN from : m[k] = from[i]
    BY <2>2, OfTypeTypes
  <2>. QED  BY <2>1, <2>3
<1>7. m # <<>>
  <2>1. SUFFICES ASSUME m = <<>>  PROVE FALSE
    OBVIOUS
  <2>2. DOMAIN m = 1..0
    BY <2>1
  <2>3. DOMAIN wav = 1..0
    BY <1>5, <2>2 DEF Runs
  <2>4. wav = <<>>
    <3>1. wav = [k \in 1..0 |-> wav[k]]
      BY <1>5, <2>2 DEF Runs
    <3>2. wav \in [1..0 -> {}]
      BY <3>1
    <3>3. wav \in Seq({}) /\ Len(wav) = 0
      BY <3>2, SeqDef
    <3>. QED  BY <3>3
  <2>. QED  BY <1>4, <2>4
<1>8. pt # Event
  BY <1>5 DEF is_wav_capable, PT_PCMU, PT_PCMA, Event
<1>. QED  BY <1>3, <1>4, <1>5, <1>6, <1>7, <1>8

LEMMA PlayerHolds ==
  ASSUME MInv
  PROVE  PlayerPlays
<1>1. SUFFICES ASSUME Audio, answer.leg \in players, answer.row.saddr[answer.leg] # None
               PROVE  /\ answer.status = "not_found" =>
                           \A i \in DOMAIN answer.from :
                             answer.from[i].pt = answer.row.payload[answer.leg] => answer.from[i].size = 0
                      /\ answer.status = "ok" =>
                           \A i \in DOMAIN answer.body : answer.body[i].src = answer.row.saddr[answer.leg]
  BY DEF PlayerPlays
<1>2. Encoded(answer)
  BY <1>1 DEF MInv, Answered
<1>3. PICK payload : payload = answer.row.payload[answer.leg] /\ payload # None /\ is_wav_capable(u8(payload))
  <2>1. PICK c : OfCall(c)
    BY DEF MInv
  <2>2. answer.row = c
    BY <1>1, <2>1 DEF OfCall, Audio
  <2>. QED  BY <1>1, <2>1, <2>2 DEF OfCall
<1>4. PICK pt : pt = payload_type(answer.from, payload) /\ pt = u8(payload)
  BY <1>3 DEF payload_type
<1>5. PICK m : m = OfType(answer.from, pt)
  OBVIOUS
<1>6. /\ m \in Seq(Packets)
      /\ \A i \in DOMAIN answer.from : answer.from[i].pt = pt => \E k \in 1..Len(m) : m[k] = answer.from[i]
  BY <1>2, <1>5, OfTypeTypes DEF Encoded
<1>7. ASSUME answer.status = "not_found", NEW i \in DOMAIN answer.from, answer.from[i].pt = payload
      PROVE  answer.from[i].size = 0
  <2>1. answer.from[i] \in Packets
    BY <1>2, <1>7 DEF Encoded
  <2>2. payload \in 0..127
    BY <1>7, <2>1 DEF Packets
  <2>3. pt = payload
    BY <1>4, <2>2 DEF u8
  <2>4. PICK k \in 1..Len(m) : m[k] = answer.from[i]
    BY <1>6, <1>7, <2>3
  <2>5. answer.from # <<>>
    BY <1>7
  <2>6. encode_wav_from_rtp(answer.from, pt) = <<>>
    BY <1>2, <1>3, <1>4, <1>7, <2>5 DEF Encoded
  <2>7. SampleCount(Runs(m)) = 0
    <3>1. Runs(m) # <<>>
      <4>1. k \in DOMAIN Runs(m)
        BY <1>6, <2>4 DEF Runs
      <4>. QED  BY <4>1
    <3>2. PICK wav : wav = Runs(m) /\ wav # <<>>
      BY <3>1
    <3>3. IF ~is_wav_capable(pt) \/ wav = <<>> \/ SampleCount(wav) = 0 THEN TRUE ELSE wav = <<>>
      BY <1>5, <2>6, <3>2 DEF encode_wav_from_rtp
    <3>. QED  BY <1>3, <1>4, <3>2, <3>3
  <2>. QED  BY <1>6, <2>4, <2>7, NoSamples
<1>8. ASSUME answer.status = "ok", NEW i \in DOMAIN answer.body
      PROVE  answer.body[i].src = answer.row.saddr[answer.leg]
  <2>1. PICK p : p = Played
    OBVIOUS
  <2>2. /\ answer.body = Runs(p) /\ p \in Seq(Packets)
        /\ \A k \in 1..Len(p) : \E j \in DOMAIN answer.from : p[k] = answer.from[j]
    BY <1>1, <1>8, <2>1, PlayedRuns
  <2>3. i \in 1..Len(p) /\ answer.body[i].src = p[i].src
    BY <1>8, <2>2 DEF Runs
  <2>4. PICK j \in DOMAIN answer.from : p[i] = answer.from[j]
    BY <2>2, <2>3
  <2>. QED  BY <1>1, <1>2, <2>3, <2>4 DEF Encoded
<1>. QED  BY <1>3, <1>7, <1>8

\* A player that the page shows plays: for every call and however it was
\* recorded, its audio is the leg's own packets, and there is audio if they
\* have any of the recorded type.
THEOREM PlayersPlay == MediaSpec => []PlayerPlays
<1>. QED  BY MediaInvariant, PlayerHolds, PTL

\* Packets that follow each other in one stream are all of the stream.
LEMMA StreamOf ==
  ASSUME NEW m \in Seq(Packets), m # <<>>, \A k \in 1..Len(m) : m[k].pt # Event,
         \A i \in 1..(Len(m) - 1) : m[i].ssrc = m[i + 1].ssrc
  PROVE  \E b : OneStream(m, m[1].size, b)
<1>1. PICK n \in Nat : n = Len(m) /\ n # 0
  OBVIOUS
<1>2. \A k \in 1..n : /\ OfPhone(m[k]) /\ m[k].size = Media(Sender[m[k].ssrc])
  <2>1. SUFFICES ASSUME NEW k \in 1..n  PROVE OfPhone(m[k]) /\ m[k].size = Media(Sender[m[k].ssrc])
    OBVIOUS
  <2>2. m[k] \in Packets /\ m[k].pt # Event
    BY <1>1
  <2>. QED  BY <2>2 DEF Packets
<1>. DEFINE T == {i \in Nat : i + 1 \in 1..n => m[i + 1].ssrc = m[1].ssrc}
<1>3. 0 \in T
  OBVIOUS
<1>4. ASSUME NEW i \in Nat, i \in T  PROVE i + 1 \in T
  <2>1. SUFFICES ASSUME i + 2 \in 1..n  PROVE m[i + 2].ssrc = m[1].ssrc
    <3>1. (i + 1) + 1 = i + 2
      OBVIOUS
    <3>. QED  BY <2>1, <3>1
  <2>2. PICK k : k = i + 1 /\ k \in 1..n /\ k \in 1..(n - 1) /\ k + 1 = i + 2
    BY <2>1
  <2>. QED  BY <1>1, <1>4, <2>2
<1>5. \A i \in Nat : i \in T
  <2>. HIDE DEF T
  <2>. QED  BY <1>3, <1>4, EveryNatural
<1>6. \A k \in 1..n : m[k].ssrc = m[1].ssrc
  <2>1. SUFFICES ASSUME NEW k \in 1..n  PROVE m[k].ssrc = m[1].ssrc
    OBVIOUS
  <2>2. k - 1 \in Nat /\ (k - 1) + 1 = k
    OBVIOUS
  <2>. QED  BY <1>5, <2>2
<1>7. PICK p : p = m[1].ssrc
  OBVIOUS
<1>8. p \in Parties /\ m[1].size = Media(Sender[p])
  BY <1>1, <1>2, <1>7 DEF OfPhone
<1>9. \A k \in 1..n : /\ m[k].size = m[1].size /\ m[k].nth \in Nat
                      /\ m[k].seq = (Sender[p].seq + m[k].nth) % SeqSpace
  BY <1>2, <1>6, <1>7, <1>8 DEF OfPhone
<1>10. m[1].size \in Nat \ {0} /\ Sender[p].seq \in Nat
  BY <1>8, SenderTypes
<1>. QED  BY <1>1, <1>9, <1>10 DEF OneStream

\* One of finitely many packets is the latest.
LEMMA LatestExists ==
  ASSUME NEW m \in Seq(Packets), m # <<>>
  PROVE  \E i \in DOMAIN m : \A j \in DOMAIN m : m[j].nth <= m[i].nth
<1>1. PICK n \in Nat : n = Len(m) /\ n # 0 /\ DOMAIN m = 1..n
  OBVIOUS
<1>2. \A k \in 1..n : m[k].nth \in Nat
  BY <1>1 DEF Packets
<1>. DEFINE T == {k \in Nat : k + 1 \in 1..n =>
                    \E i \in 1..n : \A j \in 1..(k + 1) : m[j].nth <= m[i].nth}
<1>3. 0 \in T
  <2>1. \A j \in 1..(0 + 1) : j = 1
    OBVIOUS
  <2>2. 1 \in 1..n /\ m[1].nth <= m[1].nth
    BY <1>1, <1>2
  <2>. QED  BY <2>1, <2>2
<1>4. ASSUME NEW k \in Nat, k \in T  PROVE k + 1 \in T
  <2>1. SUFFICES ASSUME k + 2 \in 1..n
                 PROVE  \E i \in 1..n : \A j \in 1..(k + 2) : m[j].nth <= m[i].nth
    <3>1. (k + 1) + 1 = k + 2
      OBVIOUS
    <3>. QED  BY <2>1, <3>1
  <2>2. PICK i \in 1..n : \A j \in 1..(k + 1) : m[j].nth <= m[i].nth
    <3>1. k + 1 \in 1..n
      BY <2>1
    <3>. QED  BY <1>4, <3>1
  <2>3. \A j \in 1..(k + 2) : j \in 1..(k + 1) \/ j = k + 2
    OBVIOUS
  <2>4. CASE m[k + 2].nth <= m[i].nth
    BY <2>2, <2>3, <2>4
  <2>5. CASE ~(m[k + 2].nth <= m[i].nth)
    <3>1. PICK u \in Nat, v \in Nat : u = m[i].nth /\ v = m[k + 2].nth /\ u <= v
      BY <1>2, <2>1, <2>5
    <3>2. \A j \in 1..(k + 2) : j \in 1..n
      BY <2>1
    <3>3. \A j \in 1..(k + 2) : m[j].nth <= v
      <4>1. SUFFICES ASSUME NEW j \in 1..(k + 2)  PROVE m[j].nth <= v
        OBVIOUS
      <4>2. PICK w \in Nat : w = m[j].nth
        BY <1>2, <3>2
      <4>3. j \in 1..(k + 1) => w <= u
        BY <2>2, <3>1, <4>2
      <4>. QED  BY <2>3, <3>1, <4>2, <4>3
    <3>. QED  BY <2>1, <3>1, <3>3
  <2>. QED  BY <2>4, <2>5
<1>5. n - 1 \in T
  <2>. HIDE DEF T
  <2>. QED  BY <1>1, <1>3, <1>4, EveryNatural
<1>6. (n - 1) + 1 = n /\ n \in 1..n
  BY <1>1
<1>7. \E i \in 1..n : \A j \in 1..n : m[j].nth <= m[i].nth
  BY <1>5, <1>6
<1>. QED  BY <1>1, <1>7

LEMMA TimeHolds ==
  ASSUME MInv
  PROVE  KeepsTime
<1>1. SUFFICES ASSUME Audio, answer.status = "ok",
                      NEW m, m = Played,
                      NEW latest, latest = CHOOSE i \in DOMAIN m : \A j \in DOMAIN m : m[j].nth <= m[i].nth,
                      NEW spoken, spoken = (m[latest].nth - m[1].nth + 1) * m[1].size,
                      \A i \in 1..(Len(m) - 1) : m[i].ssrc = m[i + 1].ssrc /\ m[i + 1].nth - m[i].nth - 1 <= MaxFill
               PROVE  /\ SampleCount(answer.body) >= spoken
                      /\ (\A i \in 1..(Len(m) - 1) : m[i].nth < m[i + 1].nth)
                           => SampleCount(answer.body) = spoken
  BY Zenon DEF KeepsTime
<1>2. /\ answer.body = Runs(m) /\ m \in Seq(Packets) /\ m # <<>>
      /\ \A k \in 1..Len(m) : m[k].pt # Event
  BY <1>1, PlayedRuns
<1>3. PICK n \in Nat : n = Len(m) /\ n # 0 /\ DOMAIN m = 1..n
  BY <1>2
<1>4. latest \in 1..n /\ \A j \in 1..n : m[j].nth <= m[latest].nth
  BY <1>1, <1>2, <1>3, LatestExists
<1>5. PICK z, b : z = m[1].size /\ OneStream(m, z, b)
  BY <1>1, <1>2, StreamOf
<1>6. PICK f : Grows(f, m, z) /\ SampleCount(Runs(m)) = f[n]
  BY <1>2, <1>3, <1>5, SamplesGrow
<1>7. \A k \in 2..n : k - 1 \in 1..(n - 1) /\ (k - 1) + 1 = k
  OBVIOUS
<1>8. \A k \in 2..n : m[k].nth - m[k - 1].nth - 1 <= MaxFill
  BY <1>1, <1>3, <1>7
<1>9. /\ \A j \in 1..n : f[n] >= (m[j].nth - m[1].nth + 1) * z
      /\ (\A k \in 2..n : m[k - 1].nth < m[k].nth) =>
           f[n] = (m[n].nth - m[1].nth + 1) * z /\ \A j \in 1..n : m[j].nth <= m[n].nth
  BY <1>2, <1>3, <1>5, <1>6, <1>8, TimeKept
<1>10. SampleCount(answer.body) >= spoken
  BY <1>1, <1>2, <1>4, <1>5, <1>6, <1>9
<1>11. ASSUME \A i \in 1..(n - 1) : m[i].nth < m[i + 1].nth
       PROVE  SampleCount(answer.body) = spoken
  <2>1. \A k \in 2..n : m[k - 1].nth < m[k].nth
    BY <1>7, <1>11
  <2>2. m[latest].nth = m[n].nth
    <3>1. n \in 1..n /\ m[n].nth \in Nat /\ m[latest].nth \in Nat
      BY <1>2, <1>3, <1>4 DEF Packets
    <3>2. m[latest].nth <= m[n].nth /\ m[n].nth <= m[latest].nth
      BY <1>4, <1>9, <2>1, <3>1
    <3>. QED  BY <3>1, <3>2
  <2>. QED  BY <1>1, <1>2, <1>5, <1>6, <1>9, <2>1, <2>2
<1>. QED  BY <1>3, <1>10, <1>11

\* Audio keeps time: for every call, every fault of the network and every
\* wrap of the sequence numbers, it is as long as what was spoken.
THEOREM AudioKeepsTime == MediaSpec => []KeepsTime
<1>. QED  BY MediaInvariant, TimeHolds, PTL

-----------------------------------------------------------------------------
(* The charts.                                                             *)

LEMMA TotalOfZeros ==
  ASSUME NEW s \in Seq(Nat), \A k \in 1..Len(s) : s[k] = 0
  PROVE  Total(s) = 0
<1>1. PICK n \in Nat : n = Len(s)
  OBVIOUS
<1>2. PICK f \in [0..n -> Nat] : Adds(f, s, n) /\ Total(s) = f[n]
  BY <1>1, TotalAdds
<1>. DEFINE T == {k \in Nat : k \in 0..n => f[k] = 0}
<1>3. 0 \in T
  BY <1>2 DEF Adds
<1>4. ASSUME NEW k \in Nat, k \in T  PROVE k + 1 \in T
  <2>1. SUFFICES ASSUME k + 1 \in 0..n  PROVE f[k + 1] = 0
    OBVIOUS
  <2>2. k \in 0..n /\ k + 1 \in 1..n /\ (k + 1) - 1 = k
    BY <2>1
  <2>3. f[k + 1] = f[k] + s[k + 1]
    BY <1>2, <2>2 DEF Adds
  <2>. QED  BY <1>1, <1>4, <2>2, <2>3
<1>. HIDE DEF T
<1>5. n \in T
  BY <1>3, <1>4, EveryNatural
<1>6. f[n] = 0
  BY <1>5 DEF T
<1>. QED  BY <1>2, <1>6

LEMMA NoMean ==
  ASSUME NEW n \in Nat, NEW after, \A k \in 0..n : after[k].jitter = 0,
         NEW G, G \subseteq 1..n
  PROVE  MeanJitter(after, G) = 0
<1>1. PICK A : A = {i \in G : after[i].prev = i} /\ A \subseteq 1..n
  OBVIOUS
<1>2. IsFiniteSet(A) /\ A \subseteq Int
  <2>1. 1 \in Int /\ n \in Int
    OBVIOUS
  <2>2. IsFiniteSet(1..n)
    BY <2>1, FS_Interval
  <2>. QED  BY <1>1, <2>2, FS_Subset
<1>3. PICK c \in Nat : c = Cardinality(A)
  BY <1>2, FS_CardinalityType
<1>. DEFINE nth(k) == Nth(A, LAMBDA i, j : i < j, k)
            jitters == [k \in 1..c |-> after[nth(k)].jitter]
<1>4. \A k \in 1..c : nth(k) \in A
  <2>1. PICK R : R = {x \in A \X A : x[1] < x[2]}
    OBVIOUS
  <2>2. \A k \in 1..c : NthIs(nth(k), R, A, k)
    BY <1>2, <1>3, <2>1, NthByPlace
  <2>. QED  BY <2>2 DEF NthIs
<1>5. MeanJitter(after, G) = IF A = {} THEN 0 ELSE Total(jitters) \div c
  BY Zenon, <1>1, <1>3 DEF MeanJitter
<1>. HIDE DEF nth
<1>6. jitters \in [1..c -> Nat] /\ \A k \in 1..c : jitters[k] = 0
  <2>1. \A k \in 1..c : after[nth(k)].jitter = 0
    BY <1>1, <1>4
  <2>. QED  BY <2>1
<1>. HIDE DEF jitters
<1>7. Total(jitters) = 0
  <2>1. jitters \in Seq(Nat) /\ Len(jitters) = c
    BY <1>6, SeqDef
  <2>. QED  BY <1>6, <2>1, TotalOfZeros
<1>8. A # {} => c # 0
  BY <1>2, <1>3, FS_EmptySet
<1>. QED  BY <1>3, <1>5, <1>7, <1>8

LEMMA CalmBuckets ==
  ASSUME NEW X, NEW s \in Seq(X),
         \A k \in 0..Len(s) : Jitters(s, estimate_clock_rate_hz(s))[k].jitter = 0
  PROVE  \A b \in DOMAIN BucketsOf(s) : BucketsOf(s)[b].jitter = 0
<1>1. PICK n \in Nat : n = Len(s) /\ DOMAIN s = 1..n
  OBVIOUS
<1>2. PICK after : after = Jitters(s, estimate_clock_rate_hz(s)) /\ \A k \in 0..n : after[k].jitter = 0
  BY <1>1
<1>. DEFINE bucket(i) == (s[i].at - s[1].at) \div Second
<1>. HIDE DEF bucket
<1>3. PICK group : /\ group = [b \in 0..bucket(n) |-> {i \in 1..n : bucket(i) = b}]
                   /\ \A b \in DOMAIN group : group[b] \subseteq 1..n
  <2>1. PICK group : group = [b \in 0..bucket(n) |-> {i \in 1..n : bucket(i) = b}]
    OBVIOUS
  <2>2. \A b \in DOMAIN group : group[b] = {i \in 1..n : bucket(i) = b}
    BY <2>1
  <2>3. \A b \in DOMAIN group : group[b] \subseteq 1..n
    BY <2>2
  <2>. QED  BY <2>1, <2>3
<1>4. BucketsOf(s) = [b \in {c \in DOMAIN group : group[c] # {}} |-> Bucket(after, group, b)]
  BY Zenon, <1>1, <1>2, <1>3 DEF BucketsOf, bucket
<1>5. \A b \in DOMAIN group : MeanJitter(after, group[b]) = 0
  BY <1>2, <1>3, NoMean
<1>6. \A b \in DOMAIN group : Bucket(after, group, b).jitter = MeanJitter(after, group[b])
  BY DEF Bucket
<1>. QED  BY <1>4, <1>5, <1>6

LEMMA ArrivalTypes ==
  ASSUME NEW packets \in Seq(Packets)
  PROVE  ByArrival(packets) \in Seq(Packets)
<1>1. PICK n \in Nat : n = Len(packets) /\ DOMAIN packets = 1..n
  OBVIOUS
<1>2. PICK I : I = 1..n /\ IsFiniteSet(I) /\ Cardinality(I) = n
  BY FS_Interval
<1>3. \A i \in I : packets[i].at \in Nat
  BY <1>1, <1>2 DEF Packets
<1>4. PICK R : R = {x \in I \X I : Earlier(packets, x[1], x[2])}
  OBVIOUS
<1>5. \A i, j \in I : <<i, j>> \in R <=> Earlier(packets, i, j)
  BY <1>4
<1>6. Ranks(R, I)
  <2>1. \A i \in I : <<i, i>> \notin R
    BY <1>2, <1>3, <1>5 DEF Earlier
  <2>2. \A i, j \in I : i # j => <<i, j>> \in R \/ <<j, i>> \in R
    BY <1>2, <1>3, <1>5 DEF Earlier
  <2>3. \A i, j, k \in I : <<i, j>> \in R /\ <<j, k>> \in R => <<i, k>> \in R
    BY <1>2, <1>3, <1>5 DEF Earlier
  <2>4. IsOrder(R, I)
    BY <2>1, <2>2, <2>3 DEF IsOrder
  <2>. QED  BY <1>2, <2>4, OrderRanks
<1>. DEFINE nth(k) == Nth(I, LAMBDA i, j : Earlier(packets, i, j), k)
<1>7. ASSUME NEW k \in 1..n  PROVE nth(k) \in I
  <2>1. PICK m : m = nth(k)
    OBVIOUS
  <2>2. m = CHOOSE i \in I : Cardinality({j \in I : j = i \/ Earlier(packets, j, i)}) = k
    BY <2>1 DEF Nth
  <2>3. \A i \in I : UpTo(R, I, i) = {j \in I : j = i \/ Earlier(packets, j, i)}
    BY <1>5 DEF UpTo
  <2>4. \E i \in I : Cardinality({j \in I : j = i \/ Earlier(packets, j, i)}) = k
    BY <1>2, <1>6, <2>3 DEF Ranks
  <2>. QED  BY <2>1, <2>2, <2>4
<1>8. ByArrival(packets) = [k \in 1..n |-> packets[nth(k)]]
  BY <1>1, <1>2 DEF ByArrival
<1>. HIDE DEF nth
<1>9. \A k \in 1..n : packets[nth(k)] \in Packets
  BY <1>1, <1>2, <1>7
<1>10. ByArrival(packets) \in [1..n -> Packets]
  BY <1>8, <1>9
<1>. QED  BY <1>10, SeqDef

LEMMA StreamTypes ==
  ASSUME NEW packets \in Seq(Packets), NEW ssrc, NEW s, s = Stream(packets, ssrc)
  PROVE  s \in Seq(Packets) /\ \A k \in 1..Len(s) : s[k].ssrc = ssrc
<1>1. PICK t \in Seq(Packets) : t = ByArrival(packets)
  BY ArrivalTypes
<1>2. PICK I : I = {i \in DOMAIN t : t[i].ssrc = ssrc}
  OBVIOUS
<1>3. s = Those(t, I)
  BY <1>1, <1>2 DEF Stream
<1>4. s \in Seq(Packets) /\ AreThose(s, t, I)
  BY <1>2, <1>3, ThoseProperties
<1>. QED  BY <1>2, <1>4 DEF AreThose

LEMMA StreamTimed ==
  ASSUME NEW packets \in Seq(Packets), NEW ssrc \in Parties, NEW s, s = Stream(packets, ssrc)
  PROVE  s \in Seq(Packets) /\ Timed(s, ssrc)
<1>1. s \in Seq(Packets) /\ \A k \in 1..Len(s) : s[k] \in Packets /\ s[k].ssrc = ssrc
  BY StreamTypes
<1>2. ssrc # "noise"
  BY MediaAssumption
<1>3. \A k \in 1..Len(s) : s[k].at \in Nat /\ OfPhone(s[k])
  BY <1>1, <1>2 DEF Packets
<1>. QED  BY <1>1, <1>3 DEF Timed, OfPhone

\* The packets of one direction.
LEMMA DirectionTypes ==
  ASSUME NEW from \in Seq(Packets), NEW caller
  PROVE  AtoB(from, caller) \in Seq(Packets) /\ BtoA(from, caller) \in Seq(Packets)
BY ThoseProperties DEF AtoB, BtoA

LEMMA CalmDirection ==
  ASSUME NEW packets \in Seq(Packets), NEW ssrc \in Parties, DominantSsrcs(packets) = {ssrc},
         NEW s, s = Stream(packets, ssrc), Steady(s), SeenAsOvertaken(s), Few(s),
         NEW chart \in bucket_one_direction(packets)
  PROVE  \A b \in DOMAIN chart : chart[b].jitter = 0
<1>1. packets # <<>>
  BY DEF DominantSsrcs
<1>2. chart = BucketsOf(s)
  BY <1>1 DEF bucket_one_direction
<1>3. s \in Seq(Packets) /\ Timed(s, ssrc)
  BY StreamTimed
<1>4. \A k \in 0..Len(s) : Jitters(s, estimate_clock_rate_hz(s))[k].jitter = 0
  BY <1>3, CalmStream
<1>. QED  BY <1>2, <1>3, <1>4, CalmBuckets

LEMMA CalmHolds ==
  ASSUME MInv
  PROVE  SteadyIsCalm
<1>1. SUFFICES ASSUME Chart, NEW d \in {"a_to_b", "b_to_a"},
                      NEW packets, packets = IF d = "a_to_b" THEN AtoB(answer.from, answer.row.caller)
                                             ELSE BtoA(answer.from, answer.row.caller),
                      NEW ssrc \in DominantSsrcs(packets),
                      NEW s, s = Stream(packets, ssrc),
                      ssrc \in Parties, DominantSsrcs(packets) = {ssrc},
                      Steady(s), SeenAsOvertaken(s), Few(s)
               PROVE  \A b \in DOMAIN answer.body[d] : answer.body[d][b].jitter = 0
  BY Zenon DEF SteadyIsCalm
<1>2. Drawn(answer)
  BY <1>1 DEF MInv, Answered
<1>3. packets \in Seq(Packets)
  BY <1>1, <1>2, DirectionTypes DEF Drawn
<1>4. answer.body[d] \in bucket_one_direction(packets)
  BY <1>1, <1>2 DEF Drawn, compute_rtp_stats
<1>. QED  BY <1>1, <1>3, <1>4, CalmDirection

\* No jitter is shown where there was none: for every call and every fault of
\* the network, the chart of a direction whose packets all took equally long
\* is calm, but for packets that were overtaken, if these are few.
THEOREM SteadyCallsAreCalm == MediaSpec => []SteadyIsCalm
<1>. QED  BY MediaInvariant, CalmHolds, PTL
=============================================================================
