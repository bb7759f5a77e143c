---------------------------- MODULE MCPcapBuild -----------------------------
(***************************************************************************)
(* PcapBuild for TLC: four ways in which VoIPmonitor stores a call of two  *)
(* minutes, next to another call whose name begins with this one's.        *)
(***************************************************************************)
EXTENDS PcapBuild

CONSTANT Other

Pkt(c, ts, n) == [call |-> c, ts |-> ts, id |-> n]
m1 == Pkt(Me, 1, 1)
m2 == Pkt(Me, 2, 2)
m3 == Pkt(Me, 2, 3)
m4 == Pkt(Me, 4, 4)
o1 == Pkt(Other, 1, 5)
o2 == Pkt(Other, 2, 6)

Packets == {m1, m2, m3, m4, o1, o2}

Rec(p) == <<<<p, 1>>, <<p, 2>>>>
Tar(base, ext, body) == [base |-> base, ext |-> ext, body |-> body]
Row(m, t, pos) == [minute |-> m, type |-> t, pos |-> pos]

Disk(sip0, rtp0, rtp1) ==
  [a \in Archive |-> CASE a = <<0, "sip">> -> sip0
                       [] a = <<0, "rtp">> -> rtp0
                       [] a = <<1, "rtp">> -> rtp1
                       [] OTHER -> None]

WithGraph(d) == [d EXCEPT ![<<0, "graph">>] = <<Tar(<<"x">>, "other", <<>>)>>]

WithOther(d) == [d EXCEPT ![<<0, "other">>] = <<Tar(<<"x">>, ".pcap", Rec(o1))>>]

\* One pcap a minute for all calls, and the offset of this call's first record.
SipPcap == <<Tar(<<"x">>, ".pcap", <<Header>> \o Rec(o1) \o Rec(m1) \o Rec(o2))>>
RtpPcap == <<Tar(<<"x">>, "other", <<>>), Tar(<<"x">>, ".pcap", Rec(m2) \o Rec(m3))>>
LatePcap == <<Tar(<<"x">>, ".pcap", <<Lzo, Header>> \o Rec(m4))>>

Offsets == [disk |-> WithOther(WithGraph(Disk(SipPcap, RtpPcap, LatePcap))), hot |-> {<<1, "rtp">>},
            parts |-> <<Row(0, "sip", 3), Row(0, "rtp", 0), Row(0, "graph", 0), Row(0, "other", 0),
                       Row(1, "rtp", 0)>>,
            fbasename |-> <<Me>>, calldate |-> 0, callend |-> 3]

\* Two rows for one archive, one of them past its end.
TwoRows == [Offsets EXCEPT !.parts = <<Row(0, "sip", 3), Row(0, "sip", 1), Row(0, "rtp", 0),
                                       Row(0, "rtp", 9), Row(1, "sip", 0)>>,
                           !.disk = Disk(SipPcap, RtpPcap, None)]

\* A file per call, split inside a record.
Names == [disk |-> WithGraph(Disk(
            <<Tar(<<Me, "x">>, ".pcap", <<Header>> \o Rec(o1)), Tar(<<Me>>, ".pcap", <<Header>> \o Rec(m1))>>,
            <<Tar(<<Me>>, ".pcap#", <<Lzo, Header>> \o Rec(m2) \o <<<<m3, 1>>>>),
              Tar(<<Me>>, ".pcap#", <<<<m3, 2>>>>),
              Tar(<<Me, "x">>, ".pcap#", Rec(o2))>>,
            <<Tar(<<Me>>, "", Rec(m4))>>)),
          hot |-> {<<0, "rtp">>, <<1, "rtp">>}, parts |-> <<Row(0, "graph", 0)>>,
          fbasename |-> <<Me>>, calldate |-> 1, callend |-> 2]

\* Neither offsets nor a name.
Nothing == [Offsets EXCEPT !.parts = <<>>, !.fbasename = None]

FourInstalls == {Offsets, TwoRows, Names, Nothing}
=============================================================================
