--------------------------- MODULE RequestLedger ---------------------------
(***************************************************************************)
(* What the store promises a client about its request ids, without turns,  *)
(* rows or handlers: a request is admitted once, a conversation works on   *)
(* one request at a time, a request can be displaced only when it is       *)
(* overdue, a verdict is final until the user deletes it, except that a    *)
(* success may be withdrawn once, and nothing is admitted while the user's *)
(* data is being erased.                                                   *)
(***************************************************************************)
CONSTANTS Convs, Requests, None

VARIABLES
  fate,    \* what became of every request
  flight,  \* the request each conversation is working on, or None
  closed   \* the user's data is being erased

ledger == <<fate, flight, closed>>

Fates   == {"new", "running", "overdue", "completed", "failed"}
Pending == {"running", "overdue"}

LedgerTypeOK ==
  /\ fate   \in [Requests -> Fates]
  /\ flight \in [Convs -> Requests \cup {None}]
  /\ closed \in BOOLEAN

LedgerInit ==
  /\ fate   = [r \in Requests |-> "new"]
  /\ flight = [c \in Convs |-> None]
  /\ closed = FALSE

\* Request r starts in conversation c, which is free or stuck on an overdue one.
Admit(r, c) ==
  /\ ~closed
  /\ fate[r] = "new"
  /\ flight[c] # None => fate[flight[c]] = "overdue"
  /\ fate'   = [q \in Requests |-> IF q = r THEN "running"
                                   ELSE IF q = flight[c] THEN "failed" ELSE fate[q]]
  /\ flight' = [flight EXCEPT ![c] = r]
  /\ UNCHANGED closed

Expire(r) ==
  /\ fate[r] = "running"
  /\ fate' = [fate EXCEPT ![r] = "overdue"]
  /\ UNCHANGED <<flight, closed>>

Decide(r, verdict) ==
  /\ fate[r] \in Pending
  /\ fate'   = [fate EXCEPT ![r] = verdict]
  /\ flight' = [c \in Convs |-> IF flight[c] = r THEN None ELSE flight[c]]
  /\ UNCHANGED closed

\* A success that was recorded and could not be reported becomes a failure.
Withdraw(r) ==
  /\ fate[r] = "completed"
  /\ fate' = [fate EXCEPT ![r] = "failed"]
  /\ UNCHANGED <<flight, closed>>

\* The user clears or deletes the conversations of the requests rs.
Forget(rs) ==
  /\ fate'   = [q \in Requests |-> IF q \in rs THEN "new" ELSE fate[q]]
  /\ flight' = [c \in Convs |-> IF flight[c] \in rs THEN None ELSE flight[c]]
  /\ UNCHANGED closed

\* Erasure begins once no request is within its time; overdue ones are given up.
Shut ==
  /\ ~closed
  /\ \A r \in Requests : fate[r] # "running"
  /\ fate'   = [q \in Requests |-> IF fate[q] = "overdue" THEN "failed" ELSE fate[q]]
  /\ flight' = [c \in Convs |-> None]
  /\ closed' = TRUE

Reopen ==
  /\ closed
  /\ closed' = FALSE
  /\ UNCHANGED <<fate, flight>>

LedgerNext ==
  \/ \E r \in Requests, c \in Convs : Admit(r, c)
  \/ \E r \in Requests : Expire(r)
  \/ \E r \in Requests, verdict \in {"completed", "failed"} : Decide(r, verdict)
  \/ \E r \in Requests : Withdraw(r)
  \/ \E rs \in SUBSET Requests : Forget(rs)
  \/ Shut
  \/ Reopen

LedgerSpec == LedgerInit /\ [][LedgerNext]_ledger
=============================================================================
