----------------------------- MODULE PcapBuild ------------------------------
(***************************************************************************)
(* build_pcap_bytes (src/routes/pcap.rs): the pcap of one CDR.  Three      *)
(* queries decide where its packets are looked for: at the byte offsets of *)
(* cdr_tar_part, in the files named after the call, or in whole minutes.   *)
(* Then the archives are found on disk, read one by one, sliced, and the   *)
(* records of all of them merged by time.                                  *)
(*                                                                         *)
(* Meanwhile VoIPmonitor writes and deletes.  An archive whose minute is   *)
(* still being captured is read cut off anywhere; one that was found may   *)
(* be gone, or damaged, when it is read.                                   *)
(*                                                                         *)
(* A pcap record is two items, its halves, so that streams can be cut, and *)
(* split over files, inside a record; a position counts items.             *)
(***************************************************************************)
EXTENDS Integers, Sequences, FiniteSets, SequencesExt

CONSTANTS Installs,    \* what VoIPmonitor has stored about the call
          Me,          \* the call's fbasename
          Packet,      \* [call, ts, id]
          LastMinute,  \* minutes of capture are 0..LastMinute
          Seconds,     \* seconds in a minute
          Header,      \* a pcap global header
          Lzo,         \* the mark of a compressed stream
          None

ASSUME SecondsAssumption == Seconds \in Nat \ {0}
ASSUME MinuteAssumption == LastMinute \in Nat
ASSUME PacketAssumption == \A p \in Packet : p.ts \in Nat

Type == {"sip", "rtp", "graph", "other"}
Archive == (0..LastMinute) \X Type

Half == Packet \X {1, 2}
ASSUME MarkAssumption == Header \notin Half /\ Lzo \notin Half
Body == Seq(Half \cup {Header, Lzo})

\* A file in a tar: its name is a base and an ending.
File == [base : Seq({Me, "x"}), ext : {"", ".pcap", ".pcap#", "other"}, body : Body]

\* A row of cdr_tar_part.
Part == [minute : 0..LastMinute, type : Type, pos : Nat]

Install == [disk : [Archive -> Seq(File) \cup {None}], hot : SUBSET Archive,
            parts : Seq(Part), fbasename : {<<Me>>, None},
            calldate : Nat, callend : Nat]

\* VoIPmonitor keeps only what is the call's in the files named after it.
ASSUME InstallAssumption ==
  \A i \in Installs :
    /\ i \in Install
    /\ \A a \in Archive : i.disk[a] # None =>
         \A k \in DOMAIN i.disk[a] : i.disk[a][k].base = <<Me>> =>
           \A j \in DOMAIN i.disk[a][k].body :
             i.disk[a][k].body[j] \in Half => i.disk[a][k].body[j][1].call = Me

VARIABLES install,   \* the database, but for cleaned rows, and the files as written
          disk,      \* the archives that are still there
          cdr_exists,
          pc, status,
          mode,      \* which of the three paths is taken
          sources,   \* still to be read
          blobs,     \* read and sliced
          packets,   \* the answer
          lost       \* archives gone, unread, damaged or cut off when they were needed (observation)

vars == <<install, disk, cdr_exists, pc, status, mode, sources, blobs, packets, lost>>

Slice == [kind : {"From"}, pos : Nat] \cup [kind : {"Full", "ByName"}]
Source == [archive : Archive, slice : Slice]

TypeOK == /\ install \in Installs
          /\ disk \in [Archive -> Seq(File) \cup {None}]
          /\ cdr_exists \in BOOLEAN /\ lost \subseteq Archive
          /\ pc \in {"idle", "parts", "fbasename", "range", "scan", "read", "answered"}
          /\ status \in {"none", "ok", "not_found", "error", "timeout", "forbidden"}
          /\ mode \in {"none", "parts", "fbasename", "minutes"}
          /\ sources \in Seq(Source)
          /\ blobs \in Seq(Body)
          /\ packets \in Seq(Packet)

Init == /\ install \in Installs
        /\ disk = install.disk
        /\ cdr_exists = TRUE /\ lost = {}
        /\ pc = "idle" /\ status = "none" /\ mode = "none"
        /\ sources = <<>> /\ blobs = <<>> /\ packets = <<>>

-----------------------------------------------------------------------------
(* A set of integer triples as a sequence, in lexicographic order.         *)

Before(x, y) == \/ x[1] < y[1]
                \/ x[1] = y[1] /\ x[2] < y[2]
                \/ x[1] = y[1] /\ x[2] = y[2] /\ x[3] < y[3]

Rank(T, x) == Cardinality({y \in T : Before(y, x)}) + 1
Listing(T) == [k \in 1..Cardinality(T) |-> CHOOSE x \in T : Rank(T, x) = k]

-----------------------------------------------------------------------------
(* Which archives: build_sources_from_*.                                   *)

\* resolve_archive_path finds the directory and a tar in it.
Found(a) == disk[a] # None

src(a, slice) == [archive |-> a, slice |-> slice]
ByName == [kind |-> "ByName"]
Full == [kind |-> "Full"]

\* mutant: the offset is taken to count from one.
FromOne(pos) == [kind |-> "From", pos |-> pos - 1]
From(pos) == [kind |-> "From", pos |-> pos]

TypeNumber(t) == CASE t = "sip" -> 0 [] t = "rtp" -> 1 [] t = "graph" -> 2 [] t = "other" -> 3

\* The rows come ordered by minute; the stable sort puts SIP before RTP before
\* GRAPH before the rest.
FromParts ==
  LET parts == install.parts
      kept == {k \in DOMAIN parts : Found(<<parts[k].minute, parts[k].type>>)}
      l == Listing({<<TypeNumber(parts[k].type), k, 0>> : k \in kept})
  IN [i \in DOMAIN l |-> LET p == parts[l[i][2]] IN src(<<p.minute, p.type>>, From(p.pos))]

floor_to_minute(t) == t \div Seconds

\* mutant: `from` keeps its seconds, so the loop steps over `end`.
MinutesUnfloored ==
  {m \in 0..LastMinute : /\ floor_to_minute(install.calldate) <= m
                         /\ install.calldate + (m - floor_to_minute(install.calldate)) * Seconds
                              <= floor_to_minute(install.callend) * Seconds}

\* The loop from `from` to `to`, both floored, by the minute.
Minutes == floor_to_minute(install.calldate)..floor_to_minute(install.callend)

Wanted(S) == {a \in Archive : a[1] \in Minutes /\ a[2] \in S /\ Found(a)}

Ordered(S, slice) ==
  LET l == Listing({<<a[1], TypeNumber(a[2]), 0>> : a \in S})
  IN [k \in DOMAIN l |-> src(<<l[k][1], IF l[k][2] = 0 THEN "sip" ELSE "rtp">>, slice)]

FromFbasename == Ordered(Wanted({"sip", "rtp"}), ByName)

\* RTP only for a minute without SIP.
FromMinutes ==
  Ordered({a \in Wanted({"sip", "rtp"}) : a[2] = "rtp" => ~Found(<<a[1], "sip">>)}, Full)

-----------------------------------------------------------------------------
(* What is in them: read_archive, resolve_source_to_chunks.                *)

\* The archive as read while it is being written: its end is missing.
CutFile(f, n) == [base |-> f.base, ext |-> f.ext, body |-> SubSeq(f.body, 1, n)]
CutAt(a, e, n) == [SubSeq(a, 1, e) EXCEPT ![e] = CutFile(a[e], n)]
CutOff(a) == {<<>>} \cup UNION {{CutAt(a, e, n) : n \in 0..Len(a[e].body)} : e \in DOMAIN a}

StartsWith(b, mark) == b # <<>> /\ Head(b) = mark

\* mutant: the prefix is compared without ".pcap#".
IsNamedByPrefix(f) == IsPrefix(<<Me>>, f.base)

\* find_files_in_tar_by_name
IsNamed(f) == f.base = <<Me>> /\ f.ext \in {"", ".pcap", ".pcap#"}

\* A chunk that is no more than its header keeps it.
StripChunk(b) == IF StartsWith(b, Header) /\ Len(b) > 1 THEN Tail(b) ELSE b

\* The chunks of the call, one after the other in the order of the tar.
NamedChunks(a) ==
  LET named == {e \in DOMAIN a : IsNamed(a[e])}
      l == Listing(UNION {{<<0, e, j>> : j \in DOMAIN StripChunk(a[e].body)} : e \in named})
  IN [k \in DOMAIN l |-> StripChunk(a[l[k][2]].body)[l[k][3]]]

\* find_pcap_in_tar: the first file that ends in ".pcap".
Pcaps(a) == {e \in DOMAIN a : a[e].ext = ".pcap"}
FirstPcap(a) == a[Listing({<<0, 0, e>> : e \in Pcaps(a)})[1][3]].body

Chunk(a, slice) ==
  CASE slice.kind = "ByName" -> NamedChunks(a)
    [] slice.kind = "Full" -> IF Pcaps(a) = {} THEN <<>> ELSE FirstPcap(a)
    [] slice.kind = "From" ->
         IF Pcaps(a) = {} \/ slice.pos > Len(FirstPcap(a)) THEN <<>>
         ELSE SubSeq(FirstPcap(a), slice.pos + 1, Len(FirstPcap(a)))

-----------------------------------------------------------------------------
(* merge_pcaps.                                                            *)

\* A compressed stream with a chunk that does not decompress.  It is passed
\* through as it is, and no record is found in it.
Damaged == <<Lzo, Lzo>>

\* decompress_voipmonitor_lzo, then the header.
Decompressed(b) == IF StartsWith(b, Lzo) THEN Tail(b) ELSE b
Records(b) == LET d == Decompressed(b) IN IF StartsWith(d, Header) THEN Tail(d) ELSE d

\* mutant: a record is taken when its first half is there.
Begun(b) == {j \in 1..((Len(Records(b)) + 1) \div 2) : \A i \in 1..(2 * j - 1) : Records(b)[i] \in Half}

\* The records of a blob, up to the first that is cut off or is none.
Complete(b) == {j \in 1..(Len(Records(b)) \div 2) : \A i \in 1..(2 * j) : Records(b)[i] \in Half}
RecordAt(b, j) == Records(b)[2 * j - 1][1]

\* What is taken for a record is one: two halves of the same packet.
Straight(b) == \A j \in Complete(b) : /\ Records(b)[2 * j - 1] = <<RecordAt(b, j), 1>>
                                      /\ Records(b)[2 * j] = <<RecordAt(b, j), 2>>

\* An archive holds the packet; a slice of it gives it.
Holds(a, p) == \E k \in DOMAIN a : \E j \in DOMAIN a[k].body : a[k].body[j] = <<p, 1>>
Gives(b, p) == \E j \in Complete(b) : RecordAt(b, j) = p

RowArchive(i, k) == <<i.parts[k].minute, i.parts[k].type>>
RowSlice(i, k) == [kind |-> "From", pos |-> i.parts[k].pos]

\* VoIPmonitor writes streams of records: a pcap is one, at each of the
\* call's offsets a record begins, and its files in a tar, joined, are one.
ASSUME StreamAssumption ==
  \A i \in Installs : \A a \in Archive : i.disk[a] # None =>
    /\ Straight(Chunk(i.disk[a], Full)) /\ Straight(Chunk(i.disk[a], ByName))
    /\ \A k \in DOMAIN i.parts : RowArchive(i, k) = a => Straight(Chunk(i.disk[a], RowSlice(i, k)))

\* In what it writes of the call it leaves out none of its packets: behind
\* one of the archive's offsets, or in its files of a minute of the call.
ASSUME WholeAssumption ==
  \A i \in Installs : \A a \in Archive : a[2] \in {"sip", "rtp"} /\ i.disk[a] # None =>
    \A p \in Packet : p.call = Me /\ Holds(i.disk[a], p) =>
      \/ \E k \in DOMAIN i.parts : RowArchive(i, k) = a /\ Gives(Chunk(i.disk[a], RowSlice(i, k)), p)
      \/ /\ \A k \in DOMAIN i.parts : i.parts[k].type = "graph"
         /\ i.fbasename # None =>
              /\ a[1] \in (i.calldate \div Seconds)..(i.callend \div Seconds)
              /\ Gives(Chunk(i.disk[a], ByName), p)

\* mutant: sort_unstable_by_key, which may turn round what is of one instant.
ByTimeUnstable ==
  LET l == Listing(UNION {{<<RecordAt(blobs[k], j).ts, -k, j>> : j \in Complete(blobs[k])} :
                            k \in DOMAIN blobs})
  IN [i \in DOMAIN l |-> <<l[i][1], -l[i][2], l[i][3]>>]

\* The sort by time is stable: blob by blob, record by record.
ByTime == Listing(UNION {{<<RecordAt(blobs[k], j).ts, k, j>> : j \in Complete(blobs[k])} :
                           k \in DOMAIN blobs})

Merged == LET l == ByTime IN [k \in DOMAIN l |-> RecordAt(blobs[l[k][2]], l[k][3])]

-----------------------------------------------------------------------------
(* The handler.                                                            *)

Respond(s) == pc' = "answered" /\ status' = s
Goes(p) == pc' = p /\ UNCHANGED status

Receive == /\ pc = "idle"
           /\ \/ Goes("parts")
              \/ Respond("forbidden")
           /\ UNCHANGED <<install, disk, cdr_exists, mode, sources, blobs, packets, lost>>

HasOffsets == \E k \in DOMAIN install.parts : install.parts[k].type # "graph"

\* fetch_parts, then fetch_fbasename, whatever the first one found.
FetchParts == /\ pc = "parts"
              /\ \/ Goes("fbasename")
                 \/ Respond("error")
                 \/ Respond("timeout")
              /\ UNCHANGED <<install, disk, cdr_exists, mode, sources, blobs, packets, lost>>

\* A query that fails or times out counts as one without a name.
FetchFbasename ==
  /\ pc = "fbasename"
  /\ \E fb \in {install.fbasename, None} :
       mode' = IF HasOffsets THEN "parts" ELSE IF fb # None THEN "fbasename" ELSE "minutes"
  /\ Goes(IF HasOffsets THEN "scan" ELSE "range")
  /\ UNCHANGED <<install, disk, cdr_exists, sources, blobs, packets, lost>>

\* fetch_cdr_time_range.  Without parts and name its failure is a 404.
FetchRange ==
  /\ pc = "range"
  /\ \/ cdr_exists /\ Goes("scan")
     \/ ~cdr_exists /\ Respond("not_found")
     \/ Respond(IF mode = "minutes" /\ install.parts = <<>> THEN "not_found" ELSE "error")
  /\ UNCHANGED <<install, disk, cdr_exists, mode, sources, blobs, packets, lost>>

Scan ==
  /\ pc = "scan"
  /\ sources' = CASE mode = "parts" -> FromParts
                  [] mode = "fbasename" -> FromFbasename
                  [] mode = "minutes" -> FromMinutes
  /\ IF sources' = <<>> THEN Respond("not_found") ELSE Goes("read")
  /\ lost' = {a \in Archive : ~Found(a)}
  /\ UNCHANGED <<install, disk, cdr_exists, mode, blobs, packets>>

Loses(a) == lost' = lost \cup {a}

\* An archive that is gone, or does not decompress, is left out.
ReadFails == /\ pc = "read" /\ sources # <<>>
             /\ sources' = Tail(sources)
             /\ Loses(Head(sources).archive)
             /\ UNCHANGED <<install, disk, cdr_exists, pc, status, mode, blobs, packets>>

ReadArchive ==
  /\ pc = "read" /\ sources # <<>>
  /\ LET s == Head(sources)
     IN /\ Found(s.archive)
        /\ \/ /\ blobs' = Append(blobs, Chunk(disk[s.archive], s.slice))
              /\ UNCHANGED lost
           \/ /\ StartsWith(Chunk(disk[s.archive], s.slice), Lzo)
              /\ blobs' = Append(blobs, Damaged)
              /\ Loses(s.archive)
           \/ /\ s.archive \in install.hot
              /\ \E a \in CutOff(disk[s.archive]) : blobs' = Append(blobs, Chunk(a, s.slice))
              /\ Loses(s.archive)
  /\ sources' = Tail(sources)
  /\ UNCHANGED <<install, disk, cdr_exists, pc, status, mode, packets>>

\* The worker merges; nothing read at all is a 404, nothing in it is not.
Merge == /\ pc = "read" /\ sources = <<>>
         /\ IF blobs = <<>> THEN Respond("not_found") /\ UNCHANGED packets
            ELSE Respond("ok") /\ packets' = Merged
         /\ UNCHANGED <<install, disk, cdr_exists, mode, sources, blobs, lost>>

-----------------------------------------------------------------------------
(* VoIPmonitor.                                                            *)

\* It deletes its oldest minute.
CleanDisk == /\ \E a \in Archive : Found(a)
             /\ LET m == CHOOSE m \in 0..LastMinute :
                           /\ \E t \in Type : Found(<<m, t>>)
                           /\ \A n \in 0..(m - 1), t \in Type : ~Found(<<n, t>>)
                IN disk' = [a \in Archive |-> IF a[1] = m THEN None ELSE disk[a]]
             /\ UNCHANGED <<install, cdr_exists, pc, status, mode, sources, blobs, packets, lost>>

CleanCdr == /\ cdr_exists
            /\ cdr_exists' = FALSE
            /\ UNCHANGED <<install, disk, pc, status, mode, sources, blobs, packets, lost>>

Build == Receive \/ FetchParts \/ FetchFbasename \/ FetchRange \/ Scan
           \/ ReadFails \/ ReadArchive \/ Merge

Next == Build \/ CleanDisk \/ CleanCdr

Spec == Init /\ [][Next]_vars

-----------------------------------------------------------------------------
(* Properties.                                                             *)

\* A record that was read, as <<blob, number in it>>, and which of two comes
\* first: the earlier one, and of one instant the one that was read first.
Taken == UNION {{<<k, j>> : j \in Complete(blobs[k])} : k \in DOMAIN blobs}
At(r) == RecordAt(blobs[r[1]], r[2])

Sooner(q, r) == \/ At(q).ts < At(r).ts
                \/ /\ At(q).ts = At(r).ts
                   /\ q[1] < r[1] \/ (q[1] = r[1] /\ q[2] < r[2])

\* The answer is a stable merge of all that was read, archives that were cut
\* off included: it has as many packets as records were read, and each record
\* has before it those that are earlier or of the same instant and read first.
\* So nothing is left out or doubled, time never goes back, and records of one
\* instant keep the order of their archives and their place in their archive.
InOrder ==
  status = "ok" =>
    /\ Len(packets) = Cardinality(Taken)
    /\ \A r \in Taken : packets[Cardinality({q \in Taken : Sooner(q, r)}) + 1] = At(r)

\* A record cut off by a capture in progress is not in the answer: each of
\* its packets was read with both halves, one after the other.
NothingTorn ==
  \A i \in DOMAIN packets : \E k \in DOMAIN blobs : \E j \in 1..(Len(blobs[k]) - 1) :
    blobs[k][j] = <<packets[i], 1>> /\ blobs[k][j + 1] = <<packets[i], 2>>

\* The name of the call picks its own packets and nobody else's.
PureByName ==
  mode = "fbasename" => \A i \in DOMAIN packets : packets[i].call = Me

\* An archive that is cut off, damaged, gone or unread spoils nothing of what
\* the others give: the answer has every SIP and RTP packet of the call that
\* any other archive holds, by offsets as well as by name, also when the call
\* crosses minutes and its files are split inside a record.
Stored(p) == \E a \in Archive \ lost : /\ a[2] \in {"sip", "rtp"} /\ install.disk[a] # None
                                       /\ Holds(install.disk[a], p)

WholeCall ==
  status = "ok" /\ mode \in {"parts", "fbasename"} =>
    \A p \in Packet : p.call = Me /\ Stored(p) => \E i \in DOMAIN packets : packets[i] = p
=============================================================================
