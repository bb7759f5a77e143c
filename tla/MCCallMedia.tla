---------------------------- MODULE MCCallMedia -----------------------------
(***************************************************************************)
(* CallMedia for TLC: a caller whose sequence numbers and timestamps wrap  *)
(* in the middle of the call, and a callee with another clock.             *)
(***************************************************************************)
EXTENDS CallMedia

CONSTANTS A, B, Proxy

TheSender == ("a" :> [src |-> A, start |-> 0, seq |-> 13, ts |-> 230, step |-> 8, len |-> 3, pad |-> 1])
          @@ ("b" :> [src |-> B, start |-> 1, seq |-> 2, ts |-> 7, step |-> 20, len |-> 2, pad |-> 9])

TheCodec == ("a" :> PT_PCMU) @@ ("b" :> PT_PCMU)

Legs(a, b) == ("a" :> a) @@ ("b" :> b)

TheCdrs == {[caller |-> A, saddr |-> Legs(A, B), payload |-> Legs(PT_PCMU, PT_PCMU)],
            [caller |-> Proxy, saddr |-> Legs(A, B), payload |-> Legs(None, Opus)],
            [caller |-> None, saddr |-> Legs(None, B), payload |-> Legs(PT_PCMA, None)]}

TheRate == <<8, 2>>
=============================================================================
