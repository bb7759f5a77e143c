---------------------------- MODULE MCCsvExport -----------------------------
(***************************************************************************)
(* CsvExport for TLC: an export of any kind and a page share the only      *)
(* connection; channels of one item, and a result longer than what the     *)
(* channels and the hands can hold.                                        *)
(***************************************************************************)
EXTENDS CsvExport

TheNewest == <<5, 4, 3, 2, 1>>

Ask(how, ids, f, cap) == [how |-> how, ids |-> ids, filter |-> f, cap |-> cap]

TheRequests == {Ask("get", <<>>, 1..5, 5),
                Ask("get", <<>>, 1..5, 2),
                Ask("post", <<1, 0, 4, 1, 3>>, {1}, 3),
                Ask("post", <<0>>, 1..5, 3),
                Ask("post", <<>>, 1..3, 2),
                Ask("post", <<>>, None, 2)}
=============================================================================
