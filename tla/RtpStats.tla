------------------------------ MODULE RtpStats ------------------------------
(***************************************************************************)
(* src/cdr/rtp_pcap.rs: the RTP packets of a pcap, and their jitter, loss  *)
(* and MOS per second and direction.                                       *)
(*                                                                         *)
(* Arrival times are natural numbers of a unit in which Ptime is the time  *)
(* between two packets of a sender.  A clock rate is a pair, samples per   *)
(* time.  Jitter is a number of times 1 / Fixed, MOS one of thousandths;   *)
(* what is smaller is dropped.                                             *)
(***************************************************************************)
EXTENDS Integers, Sequences, FiniteSets, SequencesExt, Option

CONSTANTS Window,       \* 30 packets
          MaxStep,      \* 50000 samples
          DefaultRate,  \* 8000 Hz
          Second,       \* bucket_secs is 1
          Millis,       \* milliseconds per unit of time
          Fixed

ASSUME RateAssumption == DefaultRate \in (Nat \ {0}) \X (Nat \ {0})
ASSUME StatsAssumption ==
  {Window, MaxStep, Second, Millis, Fixed} \subseteq Nat \ {0}

Mapped(s, Op(_)) == [k \in DOMAIN s |-> Op(s[k])]

\* The k-th of I.
Nth(I, Before(_, _), k) == CHOOSE i \in I : Cardinality({j \in I : j = i \/ Before(j, i)}) = k

\* What s has at the places in I, in its order.  (TLC evaluates it once,
\* because of the concatenation.)
Those(s, I) == [k \in 1..Cardinality(I) |-> s[Nth(I, LAMBDA i, j : i < j, k)]] \o <<>>

Total(s) ==
  LET upto[k \in 0..Len(s)] == IF k = 0 THEN 0 ELSE upto[k - 1] + s[k]
  IN upto[Len(s)]

-----------------------------------------------------------------------------
(* A record of the pcap is RTP, or it is something else and passed over.   *)
(* nth, which packet of its sender it is, is an observation.               *)

\* The last byte of the payload counts the padding, if there can be so much.
Media(r) == IF r.pad <= r.len THEN r.len - r.pad ELSE r.len

parse_rtp_packets_from_pcap(pcap) ==
  LET packet(r) == [at |-> r.at, ts |-> r.ts, seq |-> r.seq, ssrc |-> r.ssrc, src |-> r.src,
                    pt |-> r.pt, size |-> Media(r), nth |-> r.nth]
  IN Mapped(Those(pcap, {i \in DOMAIN pcap : pcap[i].kind = "rtp"}), packet)

-----------------------------------------------------------------------------
(* The clock rate of a stream: the median of the first rates.              *)

Usable(p, q) == /\ q.at > p.at
                /\ q.ts > p.ts /\ q.ts - p.ts < MaxStep

SlowerRate(x, y) == x[1] * y[2] < y[1] * x[2]

\* The pairs of a packet, and its next, from which a rate is measured.
Measured(packets) ==
  {i \in 1..(Len(packets) - 1) : i < Window /\ Usable(packets[i], packets[i + 1])}

RateAt(packets, i) == <<packets[i + 1].ts - packets[i].ts, packets[i + 1].at - packets[i].at>>

\* The sort is stable.
LowerRate(packets, i, j) ==
  LET x == RateAt(packets, i)  y == RateAt(packets, j)
  IN SlowerRate(x, y) \/ (~SlowerRate(y, x) /\ i < j)

estimate_clock_rate_hz(packets) ==
  LET pairs == Measured(packets)
      middle == Nth(pairs, LAMBDA i, j : LowerRate(packets, i, j), Cardinality(pairs) \div 2 + 1)
  IN IF pairs = {} THEN DefaultRate ELSE RateAt(packets, middle)

-----------------------------------------------------------------------------
(* The jitter of RFC 3550, from one accepted packet to the next.           *)

Abs(x) == IF x < 0 THEN -x ELSE x

\* |d_arrival - d_rtp|
Deviation(prev, p, rate) ==
  (Fixed * Abs((p.at - prev.at) * rate[1] - (p.ts - prev.ts) * rate[2])) \div rate[1]

\* mutant: overtaken packets are measured as well.
AcceptsAll(packets, prev, k) == TRUE

\* prev is the last packet that was accepted, 0 before the first.
Accepts(packets, prev, k) == prev = 0 \/ packets[k].ts >= packets[prev].ts

\* A packet whose timestamp went back is passed over, and prev stays.
Next3550(packets, rate, s, k) ==
  IF ~Accepts(packets, s.prev, k) THEN s
  ELSE [prev |-> k,
        jitter |-> IF s.prev = 0 THEN 0
                   ELSE (15 * s.jitter + Deviation(packets[s.prev], packets[k], rate)) \div 16]

\* The state after each number of packets.
Jitters(packets, rate) ==
  LET after[k \in 0..Len(packets)] == IF k = 0 THEN [prev |-> 0, jitter |-> 0]
                                     ELSE Next3550(packets, rate, after[k - 1], k)
  IN after

-----------------------------------------------------------------------------
(* The buckets of a direction: one record for each that is not empty.      *)

\* The stream of the direction: the SSRC with the most packets, any of them
\* if several have (the order of a HashMap).
SsrcCount(packets, s) == Cardinality({i \in DOMAIN packets : packets[i].ssrc = s})

DominantSsrcs(packets) ==
  LET all == {packets[i].ssrc : i \in DOMAIN packets}
  IN {s \in all : \A t \in all : SsrcCount(packets, t) <= SsrcCount(packets, s)}

Earlier(packets, i, j) ==
  packets[i].at < packets[j].at \/ (packets[i].at = packets[j].at /\ i < j)

ByArrival(packets) ==
  [k \in DOMAIN packets |->
     packets[Nth(DOMAIN packets, LAMBDA i, j : Earlier(packets, i, j), k)]]

Stream(packets, ssrc) ==
  LET sorted == ByArrival(packets) IN Those(sorted, {i \in DOMAIN sorted : sorted[i].ssrc = ssrc})

mos(r) ==   \* r in tenths
  LET m == 1000 + (35 * r) \div 10 + (7 * r * (r - 600) * (1000 - r)) \div 1000000
  IN CASE r <= 0 -> 1000
       [] r >= 1000 -> 4500
       [] OTHER -> IF m < 1000 THEN 1000 ELSE IF m > 5000 THEN 5000 ELSE m

\* Loss is counted from the bucket before, if there is one with packets.
Loss(group, b) ==
  IF b = 0 \/ group[b - 1] = {} THEN 0
  ELSE LET expected == Cardinality(group[b - 1])  got == Cardinality(group[b])
       IN IF got >= expected THEN 0 ELSE ((expected - got) * 100) \div expected

\* The mean over the packets that were accepted.
MeanJitter(after, packets) ==
  LET accepted == {i \in packets : after[i].prev = i}
      jitters == [k \in 1..Cardinality(accepted) |->
                    after[Nth(accepted, LAMBDA i, j : i < j, k)].jitter]
  IN IF accepted = {} THEN 0 ELSE Total(jitters) \div Cardinality(accepted)

Bucket(after, group, b) ==
  LET jitter == MeanJitter(after, group[b])
      loss == Loss(group, b)
  IN [jitter |-> jitter, loss |-> loss, count |-> Cardinality(group[b]),
      mos |-> mos(932 - 25 * loss - (jitter * Millis) \div Fixed)]

BucketsOf(stream) ==
  LET after == Jitters(stream, estimate_clock_rate_hz(stream))
      bucket(i) == (stream[i].at - stream[1].at) \div Second
      group == [b \in 0..bucket(Len(stream)) |-> {i \in DOMAIN stream : bucket(i) = b}]
  IN [b \in {c \in DOMAIN group : group[c] # {}} |-> Bucket(after, group, b)]

\* The charts the direction can get.
bucket_one_direction(packets) ==
  IF packets = <<>> THEN {<<>>}
  ELSE {BucketsOf(Stream(packets, ssrc)) : ssrc \in DominantSsrcs(packets)}

\* What does not come from the caller's address is the other direction.
AtoB(packets, caller) == Those(packets, {i \in DOMAIN packets : packets[i].src = caller})
BtoA(packets, caller) == Those(packets, {i \in DOMAIN packets : packets[i].src # caller})

compute_rtp_stats(packets, caller) ==
  {[a_to_b |-> a, b_to_a |-> b] :
     a \in bucket_one_direction(AtoB(packets, caller)),
     b \in bucket_one_direction(BtoA(packets, caller))}
=============================================================================
