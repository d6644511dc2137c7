--------------------------- MODULE IdempotencyStore ---------------------------
(***************************************************************************)
(* The table idempotency_records: one row for each key, and the statements *)
(* the repository runs on it.  The coordinator of HTTP retries and the     *)
(* lock of system operations are both built on these statements.           *)
(*                                                                         *)
(* A NULL locked_until is 0: every comparison of the code treats the two   *)
(* alike, since the clock starts at 1.                                     *)
(***************************************************************************)
EXTENDS Integers

CONSTANTS
    Keys,      \* (scope, idempotency_key_hash)
    Prints,    \* request fingerprints
    NoPrint,   \* none
    MaxTime    \* bound on the clock

ASSUME PrintAssumption == NoPrint \notin Prints
ASSUME BoundAssumption == MaxTime \in Nat

VARIABLES
    rows,    \* the row of each key
    lastId,  \* the id sequence
    clock    \* time.Now()

table == <<rows, lastId>>

RowStatuses == {"processing", "succeeded", "failed_retryable"}

\* body is the request whose response is stored, readable whether the stored
\* text still parses after redaction and truncation.
NoRow == [id |-> 0, print |-> NoPrint, status |-> "none", lockedUntil |-> 0,
          expiresAt |-> 0, body |-> NoPrint, readable |-> TRUE]

StoreTypeOK ==
    /\ rows \in [Keys -> [id          : Nat,
                          print       : Prints \cup {NoPrint},
                          status      : RowStatuses \cup {"none"},
                          lockedUntil : Nat,
                          expiresAt   : Nat,
                          body        : Prints \cup {NoPrint},
                          readable    : BOOLEAN]]
    /\ lastId \in Nat
    /\ clock  \in Nat

StoreInit ==
    /\ rows = [k \in Keys |-> NoRow]
    /\ lastId = 0
    /\ clock = 1

Exists(k) == rows[k].id # 0

\* INSERT ... ON CONFLICT DO NOTHING, when it inserts.
CreateProcessing(k, print, lockedUntil, expiresAt) ==
    /\ ~Exists(k)
    /\ lastId' = lastId + 1
    /\ rows' = [rows EXCEPT ![k] =
          [NoRow EXCEPT !.id = lastId + 1, !.print = print,
                        !.status = "processing", !.lockedUntil = lockedUntil,
                        !.expiresAt = expiresAt]]

\* The WHERE clause of TryReclaim.
Reclaimable(k, id, from, now) ==
    /\ rows[k].id = id
    /\ rows[k].status = from
    /\ rows[k].lockedUntil <= now

\* Mutant: the old lease is kept.
Reclaim_SameLease(k, lockedUntil, expiresAt) ==
    rows' = [rows EXCEPT ![k].status = "processing", ![k].expiresAt = expiresAt]

\* Its SET clause: the fingerprint of the row stays what it was.
Reclaim(k, lockedUntil, expiresAt) ==
    rows' = [rows EXCEPT ![k].status = "processing",
                         ![k].lockedUntil = lockedUntil,
                         ![k].expiresAt = expiresAt]

\* The updates by id do not ask who holds the row or what its status is.
MarkSucceeded(k, id, body, readable, expiresAt) ==
    rows' = IF rows[k].id = id
            THEN [rows EXCEPT ![k].status = "succeeded",
                              ![k].body = body,
                              ![k].readable = readable,
                              ![k].lockedUntil = 0,
                              ![k].expiresAt = expiresAt]
            ELSE rows

MarkFailedRetryable(k, id, lockedUntil, expiresAt) ==
    rows' = IF rows[k].id = id
            THEN [rows EXCEPT ![k].status = "failed_retryable",
                              ![k].lockedUntil = lockedUntil,
                              ![k].expiresAt = expiresAt]
            ELSE rows

\* Mutant: a row is deleted when its lock has lapsed.
Expired_Unlocked(k) == rows[k].lockedUntil <= clock

Expired(k) == rows[k].expiresAt <= clock

\* The cleanup job; its batch limit only delays a deletion.
DeleteExpired(k) ==
    /\ Exists(k) /\ Expired(k)
    /\ rows' = [rows EXCEPT ![k] = NoRow]
    /\ UNCHANGED lastId
==============================================================================
