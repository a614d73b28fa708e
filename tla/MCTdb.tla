------------------------------- MODULE MCTdb -------------------------------
(* Two processes and three keys, two of which share a chain.               *)
EXTENDS Tdb, TLC

CONSTANTS p1, p2, ka, kb, kc, short, long, huge

MCHash == (ka :> 3) @@ (kb :> 6) @@ (kc :> 4)
MCKeyLen == [k \in {ka, kb, kc} |-> 1]
MCDataLen == (short :> 1) @@ (long :> 4) @@ (huge :> 12)

Store(k, v, f) == [type |-> "store", key |-> k, val |-> v, flag |-> f]
Of(t, k) == [type |-> t, key |-> k]

\* Both processes insert one key, and both replace another.
MCRequests ==
    (p1 :> {Store(ka, short, "replace"), Store(ka, long, "replace"), Store(kb, short, "insert"),
            Of("delete", ka), [type |-> "traverse"]})
    @@ (p2 :> {Store(ka, long, "replace"), Store(kc, huge, "replace"), Of("delete", kb),
               Store(kb, short, "insert"), Of("fetch", ka), Of("exists", kb), [type |-> "firstkey"], Of("nextkey", ka)})
=============================================================================
