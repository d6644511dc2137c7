---------------------------- MODULE MCIdempotency ----------------------------
EXTENDS Idempotency, TLC

RequestSymmetry == Permutations(Workers) \cup Permutations(Prints)

\* Bounds: after an overrun only the first TTL is explored (nothing is promised
\* later), and one failure fewer once rows can expire.
Bounds ==
    IF clock <= TTL THEN "late" \notin faults.kinds => faults.count < MaxFaults
    ELSE "late" \notin faults.kinds /\ faults.count < MaxFaults - 1
==============================================================================
