----------------------------- MODULE MCCdrList ------------------------------
(***************************************************************************)
(* CdrList for TLC: days of two seconds, three calls, an operator and a    *)
(* database each in a zone of its own, pages of one row.                   *)
(***************************************************************************)
EXTENDS CdrList

TheOrder == <<4, 2, 1>>
TheDbZone == -1

Columns(at, caller, port, code, mos) ==
  [at |-> at, caller |-> caller, called |-> 7, src_ip |-> 10 + caller, dst_ip |-> 20,
   sip_code |-> code, id_sensor |-> 1, src_port |-> port, dst_port |-> 5,
   mos |-> mos, duration |-> 1]

TheCall ==
  (1 :> Columns(0, 12, 5, 200, 44)) @@ (2 :> Columns(1, 3, 0, 404, 29))
    @@ (4 :> Columns(1, 12, 5, 200, None))

\* 1 is contained in 1 and in 12.
TheLike(column, value) ==
  \/ value = <<column>>
  \/ value = <<1>> /\ column = 12

With(k, value) == [NoParams EXCEPT ![k] = <<value>>]

\* " 3" and "12 3", and what a form makes of them.
TheTrimmed == (-10 :> 3) @@ (-11 :> -11)
ThePlussed == (-10 :> -20) @@ (-11 :> -21)

\* 3 is too large for a page.
TheUrls ==
  {NoParams,
   With("tz_offset_secs", <<-1>>), With("tz_offset_hours", <<2>>),
   [With("tz_offset_secs", <<>>) EXCEPT !["tz_offset_hours"] = <<<<2>>>>,
                                        !["called"] = <<<<-11>>>>],
   [With("caller", <<1>>) EXCEPT !["src_port"] = <<<<0, 5>>>>, !["to"] = <<<<1>>>>],
   [With("caller", <<12, Blank, -10>>) EXCEPT !["src_ip"] = <<<<13>>, <<22, 13>>>>,
                                              !["mos_max"] = <<<<3>>>>,
                                              !["page_size"] = <<<<3>>>>]}
=============================================================================
