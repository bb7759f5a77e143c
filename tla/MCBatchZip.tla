----------------------------- MODULE MCBatchZip -----------------------------
(***************************************************************************)
(* BatchZip for TLC: three CDRs in the table, requests of both modes, with *)
(* a zero, with repeats, with more ids than the cap, and with nothing.     *)
(***************************************************************************)
EXTENDS BatchZip

TheNewest == <<3, 2, 1>>

Ask(can, ids, f) == [can_pcap |-> can, ids |-> ids, filter |-> f]

EveryRequest == {Ask(FALSE, <<1>>, None),
                 Ask(TRUE, <<>>, None),
                 Ask(TRUE, <<0>>, {3}),
                 Ask(TRUE, <<2, 0, 2, 3>>, {1}),
                 Ask(TRUE, <<1, 2, 4, 3, 1>>, None),
                 Ask(TRUE, <<>>, {1, 2, 3}),
                 Ask(TRUE, <<>>, {1})}
=============================================================================
