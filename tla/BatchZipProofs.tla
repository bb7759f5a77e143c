--------------------------- MODULE BatchZipProofs ---------------------------
(***************************************************************************)
(* For every table, set of requests and cap: no result of a batch is lost  *)
(* or written twice, no task waits for room in the channel, and the zip is *)
(* finished only when every CDR is accounted for, each of them once and    *)
(* asked for.                                                              *)
(***************************************************************************)
EXTENDS BatchZip, CdrListsProofs

\* The resolved list is a sequence, no longer than the cap.
IsList(s) == Len(s) \in 0..BatchMax /\ DOMAIN s = 1..Len(s)

LEMMA RangeIsFinite ==
  ASSUME NEW n \in Nat, NEW s, DOMAIN s = 1..n
  PROVE  IsFiniteSet(ToSet(s))
<1>. DEFINE f == [k \in 1..n |-> s[k]]
<1>1. f \in Surjection(1..n, ToSet(s))
  BY DEF ToSet, Surjection
<1>2. IsFiniteSet(1..n)
  BY FS_Interval
<1>. QED  BY <1>1, <1>2, FS_Surjection

LEMMA ListedIsSequence ==
  ASSUME NEW S, IsFiniteSet(S), NEW s
  PROVE  /\ Len(Listed(S, s)) \in Nat
         /\ DOMAIN Listed(S, s) = 1..Len(Listed(S, s))
<1>. DEFINE f == Listed(S, s)
            T == {f[k] : k \in 1..Cardinality(S)}
<1>1. Cardinality(S) \in Nat
  BY FS_CardinalityType
<1>2. f \in [1..Cardinality(S) -> T]
  BY DEF Listed
<1>3. f \in Seq(T)
  BY <1>1, <1>2, SeqDef
<1>. QED  BY <1>3, LenProperties

LEMMA TruncateIsList ==
  ASSUME NEW s, Len(s) \in Nat, DOMAIN s = 1..Len(s)
  PROVE  IsList(Truncate(s))
<1>1. CASE Len(s) <= BatchMax
  BY <1>1, BatchMaxAssumption DEF IsList, Truncate
<1>2. CASE Len(s) > BatchMax
  <2>. DEFINE S == {s[k] : k \in 1..Len(s)}
  <2>1. /\ SubSeq(s, 1, BatchMax) \in Seq(S)
        /\ Len(SubSeq(s, 1, BatchMax)) = BatchMax
    <3>1. \A k \in 1..BatchMax : s[k] \in S
      BY <1>2, BatchMaxAssumption
    <3>. HIDE DEF S
    <3>. QED  BY <3>1, BatchMaxAssumption, SubSeqProperties
  <2>2. DOMAIN SubSeq(s, 1, BatchMax) = 1..BatchMax
    BY <2>1, LenProperties
  <2>. QED  BY <1>2, <2>1, <2>2, BatchMaxAssumption DEF IsList, Truncate
<1>. QED  BY <1>1, <1>2, BatchMaxAssumption

LEMMA ResolvedIsList ==
  ASSUME NEW q \in Requests
  PROVE  IsList(Resolved(q))
<1>1. CASE q.ids # <<>>
  <2>1. q.ids \in Seq(Nat)
    BY RequestAssumption
  <2>2. IsFiniteSet(ToSet(q.ids))
    BY <2>1, LenProperties, RangeIsFinite
  <2>3. IsFiniteSet(ToSet(q.ids) \ {0})
    BY <2>2, FS_RemoveElement
  <2>4. IsList(Truncate(Wanted(q.ids)))
    BY <2>3, ListedIsSequence, TruncateIsList DEF Wanted
  <2>. QED  BY <1>1, <2>4 DEF Resolved
<1>2. CASE q.ids = <<>> /\ q.filter # None
  <2>1. IsFiniteSet(Cdr)
    BY CdrAssumption, LenProperties, RangeIsFinite DEF Cdr
  <2>2. q.filter \in SUBSET Cdr
    BY <1>2, RequestAssumption
  <2>3. IsFiniteSet(rows \cap q.filter)
    BY <2>1, <2>2, FS_Subset, FS_Intersection
  <2>4. IsList(Matching(q.filter))
    BY <2>3, ListedIsSequence, TruncateIsList DEF Matching
  <2>. QED  BY <1>2, <2>4 DEF Resolved
<1>3. CASE q.ids = <<>> /\ q.filter = None
  BY <1>3, BatchMaxAssumption DEF Resolved, IsList
<1>. QED  BY <1>1, <1>2, <1>3

-----------------------------------------------------------------------------

\* The tasks that can still send.
Unsent == {k \in 1..total : task[k] # "done"}

AllSpawned == \A k \in 1..total : task[k] # "unspawned"

\* What the phases of the handler and of the worker say of the rest.
Phases ==
  /\ pc = "resolve" => req \in Requests
  /\ \A k \in Slot : k > total => task[k] = "unspawned"
  /\ pc # "spawn" /\ writer = "none" =>
       /\ \A k \in Slot : task[k] = "unspawned"
       /\ queue = <<>> /\ zip = <<>> /\ failed = {} /\ ~pcap_tx
  /\ pc = "spawn" => writer = "none" /\ zip = <<>> /\ failed = {}
  /\ pc = "spawn" /\ ~pcap_tx => AllSpawned
  /\ writer # "none" => pc = "answered" /\ ~pcap_tx /\ AllSpawned
  /\ writer = "finished" => queue = <<>> /\ \A k \in 1..total : task[k] = "done"

\* Every entry of the channel has been sent by a task of its own.
Room == Cardinality(Unsent) + Len(queue) <= total

IInv == TypeOK /\ Phases /\ OnePlace /\ Room

LEMMA PartOfInterval ==
  ASSUME NEW n \in Nat, NEW S \in SUBSET (1..n)
  PROVE  IsFiniteSet(S) /\ Cardinality(S) \in 0..n
<1>1. IsFiniteSet(1..n) /\ Cardinality(1..n) = n
  BY FS_Interval
<1>2. IsFiniteSet(S) /\ Cardinality(S) <= n
  BY <1>1, FS_Subset
<1>. QED  BY <1>2, FS_CardinalityType

LEMMA InitIInv == Init => IInv
<1>. SUFFICES ASSUME Init PROVE IInv
  OBVIOUS
<1>1. total = 0 /\ DOMAIN cdr_ids = 1..0
  BY DEF Init, total
<1>2. TypeOK
  <2>1. queue \in Seq([slot : Slot, ok : BOOLEAN]) /\ zip \in Seq(0..BatchMax)
    BY EmptySeq DEF Init
  <2>2. task \in [Slot -> {"unspawned", "building", "built", "broken", "done"}]
    BY DEF Init
  <2>3. total \in 0..BatchMax /\ DOMAIN cdr_ids = 1..total
    BY <1>1, BatchMaxAssumption
  <2>4. pcap_tx \in BOOLEAN /\ closed \in BOOLEAN
    BY DEF Init
  <2>. QED  BY <2>1, <2>2, <2>3, <2>4 DEF Init, TypeOK
<1>3. Phases
  BY DEF Init, Phases, AllSpawned
<1>4. OnePlace
  BY DEF Init, OnePlace, Queued, Zipped
<1>5. Room
  <2>1. Unsent = {}
    BY <1>1 DEF Unsent
  <2>. QED  BY <1>1, <2>1, FS_EmptySet DEF Room, Init
<1>. QED  BY <1>2, <1>3, <1>4, <1>5 DEF IInv

\* Steps that touch neither the tasks nor the channel nor the zip.
LEMMA Quiet ==
  ASSUME IInv, TypeOK', Phases',
         UNCHANGED <<cdr_ids, task, queue, zip, failed>>
  PROVE  IInv'
<1>1. OnePlace'
  BY DEF IInv, OnePlace, Queued, Zipped
<1>2. Room'
  BY DEF IInv, Room, Unsent, total
<1>. QED  BY <1>1, <1>2 DEF IInv

LEMMA HandlerStep ==
  ASSUME IInv,
         \/ \E q \in Requests : Receive(q)
         \/ ResolveFails \/ FetchMetadata \/ DropSender
         \/ Finish \/ Download \/ HangUp \/ Clean
         \/ UNCHANGED vars
  PROVE  IInv'
<1>. USE DEF IInv, handler, worker, total
<1>1. CASE \E q \in Requests : Receive(q)
  <2>1. TypeOK' /\ Phases'
    BY <1>1 DEF Receive, Respond, TypeOK, Phases, AllSpawned
  <2>. QED  BY <1>1, <2>1, Quiet DEF Receive
<1>2. CASE ResolveFails
  <2>1. TypeOK' /\ Phases'
    BY <1>2 DEF ResolveFails, Respond, TypeOK, Phases, AllSpawned
  <2>. QED  BY <1>2, <2>1, Quiet DEF ResolveFails
<1>3. CASE FetchMetadata
  <2>1. TypeOK'
    BY <1>3 DEF FetchMetadata, TypeOK
  <2>2. Phases'
    BY <1>3 DEF FetchMetadata, TypeOK, Phases, AllSpawned
  <2>. QED  BY <1>3, <2>1, <2>2, Quiet DEF FetchMetadata
<1>4. CASE DropSender
  <2>1. TypeOK' /\ Phases'
    BY <1>4 DEF DropSender, TypeOK, Phases, AllSpawned
  <2>. QED  BY <1>4, <2>1, Quiet DEF DropSender
<1>5. CASE Finish
  <2>1. \A k \in 1..total : task[k] = "done"
    <3>1. \A k \in 1..total : k \in Slot /\ task[k] # "unspawned"
      <4>1. AllSpawned
        BY <1>5 DEF Finish, Phases
      <4>2. 1..total \subseteq Slot
        <5>1. total \in 0..BatchMax
          BY DEF TypeOK
        <5>. QED  BY <5>1, BatchMaxAssumption DEF Slot
      <4>. QED  BY <4>1, <4>2 DEF AllSpawned
    <3>2. \A k \in Slot : task[k] \notin {"building", "built", "broken"}
      <4>1. ~Senders
        BY <1>5 DEF Finish
      <4>. QED  BY <4>1 DEF Senders
    <3>. QED  BY <3>1, <3>2 DEF TypeOK
  <2>2. TypeOK' /\ Phases'
    BY <1>5, <2>1 DEF Finish, TypeOK, Phases, AllSpawned
  <2>. QED  BY <1>5, <2>2, Quiet DEF Finish
<1>6. CASE Download
  <2>1. TypeOK' /\ Phases'
    BY <1>6 DEF Download, TypeOK, Phases, AllSpawned
  <2>. QED  BY <1>6, <2>1, Quiet DEF Download
<1>7. CASE HangUp
  <2>1. TypeOK' /\ Phases'
    BY <1>7 DEF HangUp, TypeOK, Phases, AllSpawned
  <2>. QED  BY <1>7, <2>1, Quiet DEF HangUp
<1>8. CASE Clean
  <2>1. PICK x : rows' = rows \ {x}
    BY <1>8 DEF Clean
  <2>2. UNCHANGED <<req, pc, status, cdr_ids, metadata, task, pcap_tx, queue,
                    writer, zip, failed, closed, body, client>>
    BY <1>8 DEF Clean
  <2>3. TypeOK'
    <3>1. rows' \subseteq Cdr
      BY <2>1 DEF TypeOK
    <3>. QED  BY <2>2, <3>1, ZenonT(60) DEF TypeOK
  <2>4. Phases'
    BY <2>2 DEF Phases, AllSpawned
  <2>. QED  BY <2>2, <2>3, <2>4, Quiet
<1>9. CASE UNCHANGED vars
  <2>1. UNCHANGED <<rows, req, pc, status, cdr_ids, metadata, task, pcap_tx, queue,
                    writer, zip, failed, closed, body, client>>
    BY <1>9 DEF vars
  <2>2. TypeOK'
    BY <2>1, ZenonT(60) DEF TypeOK
  <2>3. Phases'
    BY <2>1 DEF Phases, AllSpawned
  <2>. QED  BY <2>1, <2>2, <2>3, Quiet
<1>. QED  BY <1>1, <1>2, <1>3, <1>4, <1>5, <1>6, <1>7, <1>8, <1>9

LEMMA ResolveStep ==
  ASSUME IInv, Resolve
  PROVE  IInv'
<1>. USE DEF IInv, Resolve, Respond, worker
<1>1. IsList(cdr_ids')
  BY ResolvedIsList DEF Phases
<1>2. TypeOK'
  BY <1>1 DEF TypeOK, IsList, total
<1>3. /\ \A k \in Slot : task[k] = "unspawned"
      /\ writer = "none" /\ queue = <<>> /\ zip = <<>> /\ failed = {}
  BY DEF Phases, TypeOK
<1>4. Phases'
  BY <1>3 DEF Phases, AllSpawned
<1>5. OnePlace'
  BY DEF OnePlace, Queued, Zipped
<1>6. Room'
  <2>1. total' \in Nat /\ Unsent' \in SUBSET (1..total')
    BY <1>1 DEF Unsent, IsList, total
  <2>2. Cardinality(Unsent') <= total'
    BY <2>1, PartOfInterval
  <2>. QED  BY <1>3, <2>1, <2>2, PartOfInterval DEF Room
<1>. QED  BY <1>2, <1>4, <1>5, <1>6

LEMMA StartStep ==
  ASSUME IInv, StartWriter
  PROVE  IInv'
<1>. USE DEF IInv, StartWriter, Respond, total, Sidecar
<1>1. zip = <<>> /\ zip' = <<0>>
  BY DEF Phases
<1>2. TypeOK'
  <2>1. zip' \in Seq(0..BatchMax)
    BY <1>1, BatchMaxAssumption
  <2>. QED  BY <2>1 DEF TypeOK
<1>3. Phases'
  BY DEF Phases, AllSpawned
<1>4. OnePlace'
  BY <1>1, BatchMaxAssumption DEF OnePlace, Queued, Zipped, Slot
<1>5. Room'
  BY DEF Room, Unsent
<1>. QED  BY <1>2, <1>3, <1>4, <1>5

LEMMA SpawnOrBuildStep ==
  ASSUME IInv, NEW k \in Slot, Spawn(k) \/ Build(k)
  PROVE  IInv'
<1>. USE DEF IInv
<1>1. PICK v \in {"building", "built", "broken"} :
        /\ task' = [task EXCEPT ![k] = v]
        /\ task[k] \in {"unspawned", "building"}
        /\ UNCHANGED <<rows, req, pc, status, cdr_ids, metadata, pcap_tx, queue,
                       writer, zip, failed, closed, body, client>>
  BY DEF Spawn, Build, handler, worker
<1>2. task \in [Slot -> {"unspawned", "building", "built", "broken", "done"}]
  BY DEF TypeOK
<1>3. task'[k] = v /\ \A j \in Slot : j # k => task'[j] = task[j]
  BY <1>1, <1>2
<1>4. TypeOK'
  <2>1. task' \in [Slot -> {"unspawned", "building", "built", "broken", "done"}]
    BY <1>1, <1>2
  <2>. QED  BY <1>1, <2>1, ZenonT(60) DEF TypeOK, total
<1>5. 1..total \subseteq Slot
  <2>1. total \in 0..BatchMax
    BY DEF TypeOK
  <2>. QED  BY <2>1, BatchMaxAssumption DEF Slot
<1>6. k \in 1..total /\ ~(pc # "spawn" /\ writer = "none") /\ writer # "finished"
  <2>1. CASE Spawn(k)
    BY <2>1 DEF Spawn, Phases
  <2>2. CASE Build(k)
    <3>1. total \in 0..BatchMax
      BY DEF TypeOK
    <3>2. task[k] = "building"
      BY <2>2 DEF Build
    <3>. QED  BY <3>1, <3>2, BatchMaxAssumption DEF Phases, Slot
  <2>. QED  BY <2>1, <2>2
<1>7. Phases'
  BY <1>1, <1>3, <1>5, <1>6 DEF Phases, AllSpawned, total
<1>8. OnePlace'
  BY <1>1, <1>3 DEF OnePlace, Queued, Zipped
<1>9. Room'
  <2>1. Unsent' = Unsent
    BY <1>1, <1>3, <1>5 DEF Unsent, total
  <2>. QED  BY <1>1, <2>1 DEF Room, total
<1>. QED  BY <1>4, <1>7, <1>8, <1>9

LEMMA SendStep ==
  ASSUME IInv, NEW k \in Slot, SendResult(k)
  PROVE  IInv'
<1>. USE DEF IInv
<1>. DEFINE e == [slot |-> k, ok |-> task[k] = "built"]
<1>1. /\ queue' = Append(queue, e)
      /\ task' = [task EXCEPT ![k] = "done"]
      /\ task[k] \in {"built", "broken"}
      /\ UNCHANGED <<rows, req, pc, status, cdr_ids, metadata, pcap_tx,
                     writer, zip, failed, closed, body, client>>
  BY DEF SendResult, Built, handler, worker
<1>2. /\ task \in [Slot -> {"unspawned", "building", "built", "broken", "done"}]
      /\ queue \in Seq([slot : Slot, ok : BOOLEAN])
      /\ total \in 0..BatchMax
  BY DEF TypeOK
<1>3. /\ task'[k] = "done"
      /\ \A j \in Slot : j # k => task'[j] = task[j]
  BY <1>1, <1>2
<1>4. e \in [slot : Slot, ok : BOOLEAN] /\ e.slot = k
  OBVIOUS
<1>5. /\ queue' \in Seq([slot : Slot, ok : BOOLEAN])
      /\ Len(queue') = Len(queue) + 1
      /\ \A i \in 1..Len(queue) : queue'[i] = queue[i]
      /\ queue'[Len(queue) + 1].slot = k
      /\ Len(queue) \in Nat
      /\ DOMAIN queue = 1..Len(queue) /\ DOMAIN queue' = 1..(Len(queue) + 1)
  <2>. HIDE DEF e
  <2>. QED  BY <1>1, <1>2, <1>4, AppendProperties, LenProperties
<1>6. k \in 1..total
  BY <1>1, <1>2, BatchMaxAssumption DEF Phases, Slot
<1>7. ~(pc # "spawn" /\ writer = "none") /\ writer # "finished"
  BY <1>1, <1>6 DEF Phases
<1>8. TypeOK'
  <2>1. task' \in [Slot -> {"unspawned", "building", "built", "broken", "done"}]
    BY <1>1, <1>2
  <2>. QED  BY <1>1, <1>5, <2>1, ZenonT(60) DEF TypeOK, total
<1>9. 1..total \subseteq Slot
  BY <1>2, BatchMaxAssumption DEF Slot
<1>10. Phases'
  BY <1>1, <1>3, <1>6, <1>7, <1>9 DEF Phases, AllSpawned, total
<1>11. OnePlace'
  <2>1. ~Queued(k) /\ ~Zipped(k) /\ k \notin failed
    BY <1>1 DEF OnePlace
  <2>2. \A j \in Slot : Queued(j)' <=> Queued(j) \/ j = k
    BY <1>5 DEF Queued
  <2>3. \A j : Zipped(j)' <=> Zipped(j)
    BY <1>1 DEF Zipped
  <2>4. \A i, j \in DOMAIN queue' : queue'[i].slot = queue'[j].slot => i = j
    <3>1. \A i \in 1..Len(queue) : queue[i].slot # k
      BY <1>5, <2>1 DEF Queued
    <3>. QED  BY <1>5, <3>1 DEF OnePlace
  <2>. QED  BY <1>1, <1>3, <2>1, <2>2, <2>3, <2>4 DEF OnePlace
<1>12. Room'
  <2>1. Unsent' = Unsent \ {k} /\ k \in Unsent
    BY <1>1, <1>3, <1>6, <1>9 DEF Unsent, total
  <2>2. Unsent \in SUBSET (1..total)
    BY DEF Unsent
  <2>3. IsFiniteSet(Unsent) /\ Cardinality(Unsent) \in Nat
    BY <1>2, <2>2, PartOfInterval
  <2>4. Cardinality(Unsent') = Cardinality(Unsent) - 1
    BY <2>1, <2>3, FS_RemoveElement
  <2>. QED  BY <1>1, <1>2, <1>5, <2>3, <2>4 DEF Room, total
<1>. QED  BY <1>8, <1>10, <1>11, <1>12

\* The worker takes the head of the channel, and it goes into the zip or
\* among the failed.
LEMMA WriterStep ==
  ASSUME IInv, WriteEntry \/ WriteTooLarge \/ SkipEntry
  PROVE  IInv'
<1>. USE DEF IInv
<1>. DEFINE k == Head(queue).slot
<1>1. /\ queue # <<>> /\ queue' = Tail(queue) /\ writer = "writing"
      /\ \/ zip' = Append(zip, k) /\ failed' = failed
         \/ zip' = zip /\ failed' = failed \cup {k}
      /\ closed' \in {closed, TRUE}
      /\ UNCHANGED <<rows, req, pc, status, cdr_ids, metadata, task, pcap_tx,
                     writer, body, client>>
  BY DEF WriteEntry, WriteTooLarge, SkipEntry, Writing, handler
<1>2. /\ queue \in Seq([slot : Slot, ok : BOOLEAN])
      /\ zip \in Seq(0..BatchMax)
      /\ failed \subseteq Slot /\ closed \in BOOLEAN
  BY DEF TypeOK
<1>3. /\ k \in Slot /\ k = queue[1].slot
      /\ queue' \in Seq([slot : Slot, ok : BOOLEAN])
      /\ Len(queue) \in Nat \ {0} /\ Len(queue') = Len(queue) - 1
      /\ \A i \in 1..Len(queue') : queue'[i] = queue[i + 1]
      /\ DOMAIN queue = 1..Len(queue) /\ DOMAIN queue' = 1..Len(queue')
  <2>1. /\ Tail(queue) \in Seq([slot : Slot, ok : BOOLEAN])
        /\ Head(queue) \in [slot : Slot, ok : BOOLEAN]
        /\ Len(Tail(queue)) = Len(queue) - 1
        /\ \A i \in 1..Len(Tail(queue)) : Tail(queue)[i] = queue[i + 1]
    BY <1>1, <1>2, HeadTailProperties
  <2>2. Len(queue) \in Nat \ {0}
    BY <1>1, <1>2, EmptySeq
  <2>3. DOMAIN queue = 1..Len(queue) /\ DOMAIN queue' = 1..Len(queue')
    BY <1>1, <1>2, <2>1, LenProperties
  <2>4. Head(queue) = queue[1]
    BY <1>1, <1>2, <2>2
  <2>. QED  BY <1>1, <2>1, <2>2, <2>3, <2>4
<1>4. /\ zip' \in Seq(0..BatchMax)
      /\ Len(zip) \in Nat /\ DOMAIN zip = 1..Len(zip)
      /\ \/ zip' = zip
         \/ /\ DOMAIN zip' = 1..(Len(zip) + 1)
            /\ \A i \in 1..Len(zip) : zip'[i] = zip[i]
            /\ zip'[Len(zip) + 1] = k
  <2>1. k \in 0..BatchMax
    BY <1>3, BatchMaxAssumption DEF Slot
  <2>. HIDE DEF k
  <2>2. Len(zip) \in Nat /\ DOMAIN zip = 1..Len(zip)
    BY <1>2, LenProperties
  <2>3. CASE zip' = zip
    BY <1>2, <2>2, <2>3
  <2>4. CASE zip' = Append(zip, k)
    <3>1. /\ zip' \in Seq(0..BatchMax)
          /\ Len(zip') = Len(zip) + 1
          /\ \A i \in 1..Len(zip) : zip'[i] = zip[i]
          /\ zip'[Len(zip) + 1] = k
      BY <1>2, <2>1, <2>4, AppendProperties
    <3>2. DOMAIN zip' = 1..(Len(zip) + 1)
      BY <3>1, LenProperties
    <3>. QED  BY <2>2, <3>1, <3>2
  <2>. QED  BY <1>1, <2>3, <2>4
<1>. HIDE DEF k
<1>5. TypeOK'
  <2>1. failed' \subseteq Slot /\ closed' \in BOOLEAN
    BY <1>1, <1>2, <1>3
  <2>. QED  BY <1>1, <1>3, <1>4, <2>1, ZenonT(60) DEF TypeOK, total
<1>6. Phases'
  BY <1>1 DEF Phases, AllSpawned, total
<1>7. OnePlace'
  <2>1. Queued(k)
    BY <1>3 DEF Queued
  <2>2. task[k] = "done" /\ ~Zipped(k) /\ k \notin failed
    BY <1>3, <2>1 DEF OnePlace
  <2>3. \A j \in Slot : Queued(j)' <=> Queued(j) /\ j # k
    <3>1. \A i \in 1..Len(queue) : queue[i].slot = k => i = 1
      BY <1>3 DEF OnePlace
    <3>2. ASSUME NEW j \in Slot, Queued(j)' PROVE Queued(j) /\ j # k
      BY <1>3, <3>1, <3>2 DEF Queued
    <3>3. ASSUME NEW j \in Slot, Queued(j), j # k PROVE Queued(j)'
      <4>1. PICK i \in 1..Len(queue) : queue[i].slot = j
        BY <1>3, <3>3 DEF Queued
      <4>2. i - 1 \in DOMAIN queue' /\ queue'[i - 1] = queue[i]
        BY <1>3, <3>3, <4>1
      <4>. QED  BY <4>1, <4>2 DEF Queued
    <3>. QED  BY <3>2, <3>3
  <2>4. \A i, j \in DOMAIN queue' : queue'[i].slot = queue'[j].slot => i = j
    <3>1. \A i \in DOMAIN queue' : i + 1 \in DOMAIN queue /\ queue'[i] = queue[i + 1] /\ i \in Nat
      BY <1>3
    <3>. QED  BY <3>1 DEF OnePlace
  <2>5. CASE zip' = zip /\ failed' = failed \cup {k}
    <3>1. \A j : Zipped(j)' <=> Zipped(j)
      BY <2>5 DEF Zipped
    <3>. QED  BY <1>1, <2>1, <2>2, <2>3, <2>4, <2>5, <3>1 DEF OnePlace
  <2>6. CASE zip' = Append(zip, k) /\ failed' = failed
    <3>1. /\ DOMAIN zip' = 1..(Len(zip) + 1)
          /\ \A i \in 1..Len(zip) : zip'[i] = zip[i]
          /\ zip'[Len(zip) + 1] = k
      <4>1. k \in 0..BatchMax
        BY <1>3, BatchMaxAssumption DEF Slot
      <4>. QED  BY <1>2, <2>6, <4>1, AppendProperties, LenProperties
    <3>2. \A j : Zipped(j)' <=> Zipped(j) \/ j = k
      BY <1>4, <3>1 DEF Zipped
    <3>3. \A i, j \in DOMAIN zip' : zip'[i] = zip'[j] => i = j
      <4>1. \A i \in 1..Len(zip) : zip[i] # k
        BY <1>4, <2>2 DEF Zipped
      <4>. QED  BY <1>4, <3>1, <4>1 DEF OnePlace
    <3>. QED  BY <1>1, <2>1, <2>2, <2>3, <2>4, <2>6, <3>2, <3>3 DEF OnePlace
  <2>. QED  BY <1>1, <2>5, <2>6
<1>8. Room'
  <2>1. Unsent' = Unsent
    BY <1>1 DEF Unsent, total
  <2>2. total \in Nat /\ Unsent \in SUBSET (1..total)
    <3>1. total \in 0..BatchMax
      BY DEF TypeOK
    <3>. QED  BY <3>1, BatchMaxAssumption DEF Unsent
  <2>3. Cardinality(Unsent) \in Nat
    BY <2>2, PartOfInterval
  <2>. QED  BY <1>1, <1>3, <2>1, <2>2, <2>3 DEF Room, total
<1>. QED  BY <1>5, <1>6, <1>7, <1>8

LEMMA StepIInv == IInv /\ [Next]_vars => IInv'
<1>. SUFFICES ASSUME IInv, [Next]_vars PROVE IInv'
  OBVIOUS
<1>1. CASE \/ \E q \in Requests : Receive(q)
           \/ ResolveFails \/ FetchMetadata \/ DropSender
           \/ Finish \/ Download \/ HangUp \/ Clean
           \/ UNCHANGED vars
  BY <1>1, HandlerStep
<1>2. CASE Resolve
  BY <1>2, ResolveStep
<1>3. CASE StartWriter
  BY <1>3, StartStep
<1>4. CASE \E k \in Slot : Spawn(k) \/ Build(k)
  BY <1>4, SpawnOrBuildStep
<1>5. CASE \E k \in Slot : SendResult(k)
  BY <1>5, SendStep
<1>6. CASE WriteEntry \/ WriteTooLarge \/ SkipEntry
  BY <1>6, WriterStep
<1>. QED  BY <1>1, <1>2, <1>3, <1>4, <1>5, <1>6 DEF Next, Handler, Task, Writer

\* The strengthened invariant holds of every behaviour.
THEOREM Inductive == Spec => []IInv
<1>. QED  BY InitIInv, StepIInv, PTL DEF Spec

\* Every state is well typed, and the resolved list is within the cap.
THEOREM TypeCorrect == Spec => []TypeOK
<1>1. IInv => TypeOK
  BY DEF IInv
<1>. QED  BY <1>1, Inductive, PTL

\* A result is in the channel, in the zip or among the failed, in one of them
\* only and once.
THEOREM Conservation == Spec => []OnePlace
<1>1. IInv => OnePlace
  BY DEF IInv
<1>. QED  BY <1>1, Inductive, PTL

\* The worker finishes the zip only when every CDR of the batch is in it or
\* has failed.
THEOREM Completeness == Spec => []NothingLeftOut
<1>1. IInv => NothingLeftOut
  <2>. SUFFICES ASSUME IInv, writer = "finished", NEW k \in 1..total
                PROVE  Zipped(k) \/ k \in failed
    BY DEF NothingLeftOut
  <2>1. k \in Slot
    <3>1. total \in 0..BatchMax
      BY DEF IInv, TypeOK
    <3>. QED  BY <3>1, BatchMaxAssumption DEF Slot
  <2>2. task[k] = "done" /\ queue = <<>>
    BY DEF IInv, Phases
  <2>3. ~Queued(k)
    BY <2>2 DEF Queued
  <2>. QED  BY <2>1, <2>2, <2>3 DEF IInv, OnePlace
<1>. QED  BY <1>1, Inductive, PTL

\* The channel has room for every result that is still to come.
THEOREM NonBlocking == Spec => []NoTaskBlocks
<1>1. IInv => NoTaskBlocks
  <2>. SUFFICES ASSUME IInv, NEW k \in Built PROVE Len(queue) < Capacity
    BY DEF NoTaskBlocks
  <2>1. total \in 0..BatchMax /\ queue \in Seq([slot : Slot, ok : BOOLEAN])
    BY DEF IInv, TypeOK
  <2>2. Unsent \in SUBSET (1..total) /\ k \in Unsent
    <3>1. k \in Slot /\ task[k] \in {"built", "broken"}
      BY DEF Built
    <3>. QED  BY <2>1, <3>1, BatchMaxAssumption DEF IInv, Phases, Unsent, Slot
  <2>3. IsFiniteSet(Unsent) /\ Cardinality(Unsent) \in Nat
    BY <2>1, <2>2, PartOfInterval
  <2>4. Cardinality(Unsent) # 0
    BY <2>2, <2>3, FS_EmptySet
  <2>5. Len(queue) \in Nat
    BY <2>1, LenProperties
  <2>. QED  BY <2>1, <2>3, <2>4, <2>5 DEF IInv, Room, Capacity
<1>. QED  BY <1>1, Inductive, PTL

-----------------------------------------------------------------------------
(* The resolved list.                                                      *)

\* Of the CDRs of a set, each once.
OnceFrom(s, S) == IsInjective(s) /\ ToSet(s) \subseteq S

LEMMA ListedOnce ==
  ASSUME NEW X, NEW s \in Seq(X), NEW S, S \subseteq ToSet(s)
  PROVE  Listed(S, s) \in Seq(S) /\ OnceFrom(Listed(S, s), S)
<1>1. PICK l : l = Listed(S, s)
  OBVIOUS
<1>2. /\ l \in Seq(S)
      /\ \A j, k \in DOMAIN l : j < k => Place(s, l[j]) < Place(s, l[k])
  BY <1>1, ListedProperties
<1>3. \A x \in S : Place(s, x) \in Nat
  BY PlaceProperties
<1>4. DOMAIN l \subseteq Nat /\ \A k \in DOMAIN l : l[k] \in S
  BY <1>2
<1>5. ASSUME NEW j \in DOMAIN l, NEW k \in DOMAIN l, l[j] = l[k]  PROVE j = k
  <2>1. ~(j < k) /\ ~(k < j)
    BY <1>2, <1>3, <1>4, <1>5
  <2>. QED  BY <1>4, <2>1
<1>6. IsInjective(l) /\ ToSet(l) \subseteq S
  BY <1>4, <1>5 DEF IsInjective, ToSet
<1>. QED  BY <1>1, <1>2, <1>6 DEF OnceFrom

LEMMA TruncateOnce ==
  ASSUME NEW S, NEW s \in Seq(S), OnceFrom(s, S)
  PROVE  OnceFrom(Truncate(s), S)
<1>1. PICK u : u = Truncate(s)
  OBVIOUS
<1>2. DOMAIN u \subseteq DOMAIN s /\ \A k \in DOMAIN u : u[k] = s[k]
  <2>1. CASE Len(s) > BatchMax
    <3>1. /\ u = SubSeq(s, 1, BatchMax) /\ DOMAIN s = 1..Len(s) /\ Len(s) \in Nat
          /\ BatchMax \in Nat
      BY <1>1, <2>1, BatchMaxAssumption DEF Truncate
    <3>2. DOMAIN u = 1..BatchMax /\ \A k \in 1..BatchMax : u[k] = s[k]
      BY <2>1, <3>1, SubSeqProperties
    <3>. QED  BY <2>1, <3>1, <3>2
  <2>2. CASE ~(Len(s) > BatchMax)
    BY <1>1, <2>2 DEF Truncate
  <2>. QED  BY <2>1, <2>2
<1>3. IsInjective(u) /\ ToSet(u) \subseteq S
  BY <1>2 DEF OnceFrom, IsInjective, ToSet
<1>. QED  BY <1>1, <1>3 DEF OnceFrom

Named(q) == IF q.ids # <<>> THEN ToSet(q.ids) \ {0} ELSE q.filter

LEMMA ResolvedOnce ==
  ASSUME NEW q \in Requests
  PROVE  IsInjective(Resolved(q)) /\ (Resolved(q) # <<>> => ToSet(Resolved(q)) \subseteq Named(q))
<1>1. CASE q.ids # <<>>
  <2>1. q.ids \in Seq(Nat) /\ ToSet(q.ids) \ {0} \subseteq ToSet(q.ids)
    BY RequestAssumption
  <2>2. OnceFrom(Truncate(Wanted(q.ids)), ToSet(q.ids) \ {0})
    BY <2>1, ListedOnce, TruncateOnce DEF Wanted
  <2>. QED  BY <1>1, <2>2 DEF Resolved, OnceFrom, Named
<1>2. CASE q.ids = <<>> /\ q.filter # None
  <2>1. Newest \in Seq(Nat \ {0}) /\ rows \cap q.filter \subseteq ToSet(Newest)
    <3>1. q.filter \in SUBSET Cdr
      BY <1>2, RequestAssumption
    <3>. QED  BY <3>1, CdrAssumption DEF Cdr
  <2>2. OnceFrom(Matching(q.filter), rows \cap q.filter)
    BY <2>1, ListedOnce, TruncateOnce DEF Matching
  <2>. QED  BY <1>2, <2>2 DEF Resolved, OnceFrom, Named
<1>3. CASE q.ids = <<>> /\ q.filter = None
  BY <1>3 DEF Resolved, IsInjective
<1>. QED  BY <1>1, <1>2, <1>3

\* Until the request is resolved there is no list.
Right == RightCdrs /\ (pc = "idle" => cdr_ids = <<>>)

LEMMA RightInit == Init => Right
BY DEF Init, Right, RightCdrs, IsInjective

LEMMA RightStep == IInv /\ Right /\ [Next]_vars => Right'
<1>. SUFFICES ASSUME IInv, Right, [Next]_vars  PROVE Right'
  OBVIOUS
<1>1. CASE Resolve
  <2>1. req \in Requests /\ pc' # "idle" /\ cdr_ids' = Resolved(req) /\ req' = req
    BY <1>1 DEF Resolve, Respond, IInv, Phases
  <2>2. IsInjective(cdr_ids') /\ (cdr_ids' # <<>> => ToSet(cdr_ids') \subseteq Named(req))
    BY <2>1, ResolvedOnce
  <2>. QED  BY <2>1, <2>2 DEF Right, RightCdrs, Named
<1>2. CASE \E q \in Requests : Receive(q)
  <2>1. pc = "idle" /\ cdr_ids' = cdr_ids /\ cdr_ids = <<>> /\ pc' # "idle"
    BY <1>2 DEF Receive, Respond, Right
  <2>. QED  BY <2>1 DEF Right, RightCdrs, IsInjective
<1>3. CASE UNCHANGED <<req, cdr_ids>> /\ (pc' = "idle" => pc = "idle")
  BY <1>3 DEF Right, RightCdrs, IsInjective
<1>4. ASSUME ~Resolve, ~(\E q \in Requests : Receive(q))
      PROVE  UNCHANGED <<req, cdr_ids>> /\ (pc' = "idle" => pc = "idle")
  BY <1>4, ZenonT(60)
     DEF Next, Handler, Task, Writer, ResolveFails, FetchMetadata, DropSender, StartWriter, Spawn,
         Build, SendResult, WriteEntry, WriteTooLarge, SkipEntry, Finish, Download, HangUp, Clean,
         Respond, vars, handler, worker
<1>. QED  BY <1>1, <1>2, <1>3, <1>4

\* A batch has no CDR twice, and only CDRs that its request named.
THEOREM OnlyAskedFor == Spec => []RightCdrs
<1>1. Right => RightCdrs
  BY DEF Right
<1>. QED  BY <1>1, Inductive, RightInit, RightStep, PTL DEF Spec
=============================================================================
