----------------------------- MODULE MCMemStore -----------------------------
(* MemStore on small instances: asset k1 is observed at three instants.    *)
EXTENDS MemStore

CONSTANTS k1, k2

MCKey == {k1, k2}

Observed(k, t) == [key |-> k, ns |-> t, schema_version |-> 1]
Unsupported == [key |-> k1, ns |-> 2, schema_version |-> 2]

MCEvent == {Observed(k1, 0), Observed(k1, 1), Observed(k1, 2), Unsupported}
           \union {Observed(k2, 1)}

MCBatch == {b \in BoundedSeq(MCEvent, 2) :
              Unsupported \notin Range(b) \/ b = <<Observed(k2, 1), Unsupported>>}

=============================================================================
