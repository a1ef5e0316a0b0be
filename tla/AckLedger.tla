----------------------------- MODULE AckLedger -----------------------------
(***************************************************************************)
(* What an individual acknowledgement index promises to its session store, *)
(* whatever files, buffers and restarts are behind it.                     *)
(*                                                                         *)
(* The ledger knows the first `high' records of the store.  A record is    *)
(* pending from the moment it is known until the moment it is              *)
(* acknowledged, and never again after that.  A pending record may be      *)
(* marked as retransmitted, and the mark lasts as long as it is pending.   *)
(***************************************************************************)
EXTENDS Integers

CONSTANTS
  Base,      \* sequence number of the first record of the store
  MaxCount   \* bound on the records of the store

VARIABLES
  high,      \* number of records the ledger knows
  pending,   \* known records that nobody acknowledged yet
  redeliver  \* pending records that were marked as retransmitted

ledgerVars == <<high, pending, redeliver>>

Known(n) == Base .. Base + n - 1

Init ==
  /\ high \in 0 .. MaxCount
  /\ pending = Known(high)
  /\ redeliver = {}

\* The store told the ledger about more records: each of them is pending.
Record(n) ==
  /\ n >= high
  /\ high' = n
  /\ pending' = pending \cup (Known(n) \ Known(high))
  /\ UNCHANGED redeliver

\* Record s is acknowledged; if it was not known, everything up to it is now.
Acknowledge(n, s) ==
  /\ n >= high
  /\ s \in Known(n)
  /\ high' = n
  /\ pending' = (pending \cup (Known(n) \ Known(high))) \ {s}
  /\ redeliver' = redeliver \ {s}

\* Record s was sent again; a request for an acknowledged record is ignored.
Retransmit(n, s) ==
  /\ n >= high
  /\ high' = n
  /\ pending' = pending \cup (Known(n) \ Known(high))
  /\ s \in pending'
  /\ redeliver' = redeliver \cup {s}

Next ==
  \E n \in 0 .. MaxCount :
    \/ Record(n)
    \/ \E s \in Known(n) : Acknowledge(n, s) \/ Retransmit(n, s)

Spec == Init /\ [][Next]_ledgerVars

=============================================================================
