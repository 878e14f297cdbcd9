----------------------------- MODULE MCPgStore ------------------------------
(* PgStore on small instances.  Asset k1 is observed at three instants, of *)
(* which the first two fall into the same microsecond; one event has an    *)
(* unsupported schema version.                                             *)
EXTENDS PgStore

CONSTANTS k1, k2

MCKey == {k1, k2}

Observed(k, t) == [key |-> k, ns |-> t, schema_version |-> 1]
Unsupported == [key |-> k1, ns |-> 2, schema_version |-> 2]

MCEvent == {Observed(k1, 0), Observed(k1, 1), Observed(k1, 2), Unsupported}
           \union {Observed(k2, 1)}

(* Two batches touch the same two assets in opposite orders; an empty one  *)
(* and one that is refused whole never reach the store.                    *)
MCBatch == {<< >>,
            <<Observed(k2, 1), Unsupported>>,
            <<Observed(k1, 1)>>,
            <<Observed(k1, 2), Observed(k2, 1)>>,
            <<Observed(k2, 1), Observed(k1, 0)>>}

=============================================================================
