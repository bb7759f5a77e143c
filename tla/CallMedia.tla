----------------------------- MODULE CallMedia ------------------------------
(***************************************************************************)
(* A call's media and what its page makes of them: rtp_chart_json,         *)
(* cdr_audio_wav and render_audio_players (src/routes/cdr.rs), with        *)
(* src/cdr/wav.rs and RtpStats.                                            *)
(*                                                                         *)
(* The two parties send RTP through a network that loses, delays and       *)
(* doubles packets; VoIPmonitor captures what passes, and writes the CDR   *)
(* when the call ends.  A request reads the CDR, then the pcap; the one or *)
(* the other may be cleaned up before.                                     *)
(***************************************************************************)
EXTENDS RtpStats

CONSTANTS SeqSpace,   \* 2^16
          TsSpace,    \* 2^32
          MaxFill,    \* 200 packets
          Sender,     \* Sender[p]: [src, start, seq, ts, step, len, pad], party p at its first packet
          Parties,    \* \subseteq {"a", "b"}
          Cdrs,       \* what may be recorded: [caller, saddr, payload]
          Length,     \* packets a party sends
          Ptime,      \* time between them
          Delay,      \* how long one is held up
          MaxFaults,  \* packets lost, held up, doubled, or of another type
          Codec       \* Codec[p]: the payload type of its audio

PT_PCMU == 0
PT_PCMA == 8
Event == 101       \* telephone-event
Opus == 96

ASSUME MediaAssumption ==
  /\ {SeqSpace, TsSpace, MaxFill, Length, Ptime, Delay} \subseteq Nat \ {0}
  /\ 2 * MaxFill < SeqSpace /\ MaxFaults \in Nat
  /\ Parties \subseteq {"a", "b"} /\ DOMAIN Sender = Parties

\* A packet of a phone has audio, and a payload type of seven bits.
ASSUME SenderAssumption ==
  \A p \in Parties : LET s == Sender[p]
                     IN /\ {s.start, s.seq, s.ts, s.step, s.len, s.pad} \subseteq Nat
                        /\ Media(s) > 0 /\ Codec[p] \in 0..127

\* No call lasts for a whole cycle of the timestamps (a day, at 48 kHz).
ASSUME CycleAssumption == \A p \in Parties : Length * Sender[p].step + MaxStep <= TsSpace

VARIABLES now, sent,  \* sent[p]: how many packets p has sent
          faults,     \* how many things went wrong
          wire,       \* packets that are held up
          pcap,       \* the records captured so far; None when they are deleted
          cdr,        \* the row of the CDR, or None
          pc, req,    \* a request for the chart or the audio: where it is, [what, leg, row]
          players,    \* the legs that the call's page shows a player for
          answer      \* [status, chart or audio, from]

call == <<now, sent, faults, wire>>
media_vars == <<call, pcap, cdr, pc, req, players, answer>>

NoAnswer == [status |-> "none", what |-> "none", leg |-> "a", body |-> <<>>, from |-> <<>>, row |-> None]
NoRequest == [what |-> "none", leg |-> "a", row |-> None]

MediaInit == /\ now = 0 /\ sent = [p \in Parties |-> 0] /\ faults = 0
             /\ wire = {} /\ pcap = <<>> /\ cdr = None
             /\ pc = "talking" /\ req = NoRequest
             /\ players = {} /\ answer = NoAnswer

-----------------------------------------------------------------------------
(* The call.                                                               *)

Packet(p, pt) ==
  LET s == Sender[p]  k == sent[p]
  IN [kind |-> "rtp", at |-> now, sent |-> now, ts |-> (s.ts + k * s.step) % TsSpace,
      seq |-> (s.seq + k) % SeqSpace, nth |-> k, ssrc |-> p, src |-> s.src, pt |-> pt,
      len |-> s.len, pad |-> s.pad]

\* Another stream of the same sender, with numbers and a clock of its own.
Noise(p) == [Packet(p, Event) EXCEPT !.ssrc = "noise", !.ts = sent[p], !.seq = sent[p]]

\* SIP passes at the beginning of the call.
Signal == /\ pc = "talking" /\ pcap = <<>>
          /\ pcap' = <<[kind |-> "sip", at |-> now]>>
          /\ UNCHANGED <<call, cdr, pc, req, players, answer>>

\* When p sends its next packet.
Due(p) == Sender[p].start + sent[p] * Ptime

Fault == faults < MaxFaults /\ faults' = faults + 1

Send(p) ==
  /\ pc = "talking" /\ pcap # <<>>
  /\ sent[p] < Length /\ Due(p) = now
  /\ sent' = [sent EXCEPT ![p] = @ + 1]
  /\ \/ /\ pcap' = Append(pcap, Packet(p, Codec[p]))
        /\ UNCHANGED <<wire, faults>>
     \/ /\ Fault
        /\ \/ UNCHANGED <<pcap, wire>>
           \/ wire' = wire \cup {Packet(p, Codec[p])} /\ UNCHANGED pcap
           \/ pcap' = pcap \o <<Packet(p, Codec[p]), Packet(p, Codec[p])>> /\ UNCHANGED wire
           \/ (\E pt \in {Event, PT_PCMA} : pcap' = Append(pcap, Packet(p, pt))) /\ UNCHANGED wire
           \/ pcap' = Append(pcap, Noise(p)) /\ UNCHANGED wire
  /\ UNCHANGED <<now, cdr, pc, req, players, answer>>

Arrive == /\ pc = "talking"
          /\ \E r \in wire : /\ r.sent + Delay = now
                             /\ pcap' = Append(pcap, [r EXCEPT !.at = now])
                             /\ wire' = wire \ {r}
          /\ UNCHANGED <<now, sent, faults, cdr, pc, req, players, answer>>

Tick == /\ pc = "talking"
        /\ wire # {} \/ \E p \in Parties : sent[p] < Length
        /\ \A p \in Parties : sent[p] = Length \/ Due(p) > now
        /\ \A r \in wire : r.sent + Delay > now
        /\ now' = now + 1
        /\ UNCHANGED <<sent, faults, wire, pcap, cdr, pc, req, players, answer>>

\* VoIPmonitor writes the CDR.
CallEnds == /\ pc = "talking" /\ wire = {} /\ pcap # <<>>
            /\ \A p \in Parties : sent[p] = Length
            /\ cdr' \in Cdrs
            /\ pc' = "idle"
            /\ UNCHANGED <<call, pcap, req, players, answer>>

\* It cleans up its database and its disk, each in its own time.
CleanUp == /\ pc # "talking"
           /\ \/ cdr' = None /\ cdr # None /\ UNCHANGED pcap
              \/ pcap' = None /\ pcap # None /\ UNCHANGED cdr
           /\ UNCHANGED <<call, pc, req, players, answer>>

-----------------------------------------------------------------------------
(* cdr::wav.  A WAV is a sequence of runs, the samples of a packet behind  *)
(* the silence for those that are missing before it.                       *)

is_wav_capable(pt) == pt \in {PT_PCMU, PT_PCMA}

SampleCount(wav) == Total([k \in DOMAIN wav |-> wav[k].silence + wav[k].n])

OfType(packets, pt) == Those(packets, {i \in DOMAIN packets : packets[i].pt = pt})

\* The media bytes of a sequence of packets.
Carried(packets) == Total([k \in DOMAIN packets |-> packets[k].size])

\* mutant: the sequence number does not wrap.
LostNoWrap(prev, seq) == seq - (prev + 1)

\* u16: a packet sent before `prev` looks as if most of the numbers were lost.
Lost(prev, seq) == (seq - (prev + 1)) % SeqSpace

\* A short gap before the k-th is filled, a long one is a new stream.
Fill(media, k, avg) ==
  IF k > 1 /\ Lost(media[k - 1].seq, media[k].seq) \in 1..MaxFill
  THEN Lost(media[k - 1].seq, media[k].seq) * avg ELSE 0

Average(media) == IF Carried(media) < Len(media) THEN 1 ELSE Carried(media) \div Len(media)

Runs(media) == [k \in DOMAIN media |-> [src |-> media[k].src, n |-> media[k].size,
                                        silence |-> Fill(media, k, Average(media))]]

\* The audio of the packets of the type; or the empty one, for None.
encode_wav_from_rtp(packets, pt) ==
  LET wav == Runs(OfType(packets, pt))
  IN IF ~is_wav_capable(pt) \/ wav = <<>> \/ SampleCount(wav) = 0 THEN <<>> ELSE wav

-----------------------------------------------------------------------------
(* The handlers.                                                           *)

\* A payload type is read as u8.
u8(n) == n % 256

\* cdr_detail renders a player for a leg with a known codec.
render_audio_players ==
  /\ pc = "idle" /\ cdr # None
  /\ pc' = "page"
  /\ players' = {leg \in {"a", "b"} : cdr.payload[leg] # None /\ is_wav_capable(u8(cdr.payload[leg]))}
  /\ UNCHANGED <<call, pcap, cdr, req, answer>>

\* Both handlers begin with the row: they find it, find none, or end with the
\* error of the query.
Ask(what, leg) ==
  /\ pc = "page"
  /\ \/ /\ cdr # None
        /\ pc' = "build" /\ req' = [what |-> what, leg |-> leg, row |-> cdr]
        /\ answer' = NoAnswer
     \/ \E status \in {"error"} \cup IF cdr # None THEN {}
                                      ELSE IF what = "chart" THEN {"ok"} ELSE {"not_found"} :
          /\ answer' = [NoAnswer EXCEPT !.what = what, !.leg = leg, !.status = status]
          /\ UNCHANGED <<pc, req>>
  /\ UNCHANGED <<call, pcap, cdr, players>>

Respond(status, body, from) ==
  /\ pc' = "page" /\ req' = NoRequest
  /\ answer' = [status |-> status, what |-> req.what, leg |-> req.leg, body |-> body,
                from |-> from, row |-> req.row]

\* mutant: whoever the packets come from.
BothLegs(packets, row, leg) == packets

\* A leg whose address is not known gets every packet.
LegPackets(packets, row, leg) ==
  IF row.saddr[leg] = None THEN packets
  ELSE Those(packets, {i \in DOMAIN packets : packets[i].src = row.saddr[leg]})

\* The recorded type, or the one that carries more, u-law if they are even.
payload_type(packets, recorded) ==
  IF recorded # None THEN u8(recorded)
  ELSE IF Carried(OfType(packets, PT_PCMU)) >= Carried(OfType(packets, PT_PCMA))
       THEN PT_PCMU ELSE PT_PCMA

rtp_chart_json(packets) ==
  \E stats \in compute_rtp_stats(packets, req.row.caller) : Respond("ok", stats, packets)

cdr_audio_wav(packets) ==
  LET leg == LegPackets(packets, req.row, req.leg)
      wav == encode_wav_from_rtp(leg, payload_type(leg, req.row.payload[req.leg]))
  IN IF wav = <<>> THEN Respond("not_found", <<>>, leg) ELSE Respond("ok", wav, leg)

\* build_pcap_bytes: the call, or its SIP only, or a failure.
Build ==
  /\ pc = "build"
  /\ \/ /\ pcap # None
        /\ \E records \in {pcap, SubSeq(pcap, 1, 1)} :
             LET packets == parse_rtp_packets_from_pcap(records)
             IN IF req.what = "chart" THEN rtp_chart_json(packets) ELSE cdr_audio_wav(packets)
     \/ Respond(IF req.what = "chart" THEN "ok" ELSE "not_found", <<>>, <<>>)
  /\ UNCHANGED <<call, pcap, cdr, players>>

-----------------------------------------------------------------------------

Talk == Signal \/ Arrive \/ Tick \/ CallEnds \/ \E p \in Parties : Send(p)

Asks == Ask("chart", "a") \/ Ask("audio", "a") \/ Ask("audio", "b")

MediaNext == Talk \/ CleanUp \/ render_audio_players \/ Asks \/ Build

MediaSpec == MediaInit /\ [][MediaNext]_media_vars

-----------------------------------------------------------------------------

Chart == answer.what = "chart" /\ answer.row # None /\ answer.from # <<>>
Audio == answer.what = "audio" /\ answer.row # None

\* The packets of a direction that were overtaken.
Overtaken(s) == {i \in DOMAIN s : \E j \in 1..(i - 1) : s[j].nth > s[i].nth}

\* All took equally long but those.
Steady(s) == \A i, j \in DOMAIN s :
  i \notin Overtaken(s) /\ j \notin Overtaken(s) =>
    s[i].at - s[i].nth * Ptime = s[j].at - s[j].nth * Ptime

\* Each packet that was overtaken has an earlier timestamp than one before it;
\* if the timestamps wrap between the two, it has a later one.
SeenAsOvertaken(s) ==
  \A i \in Overtaken(s) : \E j \in 1..(i - 1) : s[j].nth > s[i].nth /\ s[j].ts > s[i].ts

\* Less than half of the pairs from which the clock is measured.
Few(s) == 2 * Cardinality(Measured(s) \cap Overtaken(s)) < Cardinality(Measured(s))

\* A direction whose packets all took equally long shows no jitter, whatever
\* the codec's clock, and whether or not packets are lost, doubled, or mixed
\* with those of another stream, and its timestamps wrap; nor do a few packets
\* that were overtaken on the way disturb it.  Few: less than half of the pairs
\* from which the clock is measured begin with one that was; and none of them
\* was sent before a wrap, and overtaken by one sent behind it.
SteadyIsCalm ==
  Chart => \A d \in {"a_to_b", "b_to_a"} :
    LET packets == IF d = "a_to_b" THEN AtoB(answer.from, answer.row.caller)
                                   ELSE BtoA(answer.from, answer.row.caller)
    IN \A ssrc \in DominantSsrcs(packets) :
         LET s == Stream(packets, ssrc)
         IN /\ ssrc \in Parties /\ DominantSsrcs(packets) = {ssrc}
            /\ Steady(s) /\ SeenAsOvertaken(s) /\ Few(s)
            => \A b \in DOMAIN answer.body[d] : answer.body[d][b].jitter = 0

\* The packets a WAV was made of.
Played == OfType(answer.from, payload_type(answer.from, answer.row.payload[answer.leg]))

\* Audio is never shorter than the time it was spoken in: whatever was lost,
\* overtaken or doubled, from its first packet to its latest each packet time
\* has its samples, also over a wrap of the sequence numbers; and it is not
\* longer either when packets were only lost.  As long as no gap is larger
\* than MaxFill, and the leg is one stream.
KeepsTime ==
  Audio /\ answer.status = "ok" =>
    LET m == Played
        latest == CHOOSE i \in DOMAIN m : \A j \in DOMAIN m : m[j].nth <= m[i].nth
        spoken == (m[latest].nth - m[1].nth + 1) * m[1].size
    IN (\A i \in 1..(Len(m) - 1) : m[i].ssrc = m[i + 1].ssrc /\ m[i + 1].nth - m[i].nth - 1 <= MaxFill)
         => /\ SampleCount(answer.body) >= spoken
            /\ (\A i \in 1..(Len(m) - 1) : m[i].nth < m[i + 1].nth)
                 => SampleCount(answer.body) = spoken

\* A player that the page of the call shows plays its leg: if the pcap has
\* media of the recorded type from the leg's address, the answer is audio, with
\* nothing of the other party.
PlayerPlays ==
  Audio /\ answer.leg \in players /\ answer.row.saddr[answer.leg] # None =>
    /\ answer.status = "not_found" =>
         \A i \in DOMAIN answer.from : answer.from[i].pt = answer.row.payload[answer.leg]
                                         => answer.from[i].size = 0
    /\ answer.status = "ok" =>
         \A i \in DOMAIN answer.body : answer.body[i].src = answer.row.saddr[answer.leg]
=============================================================================
