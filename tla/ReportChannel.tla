--------------------------- MODULE ReportChannel ---------------------------
(***************************************************************************)
(* What the journal of reports promises, abstractly: an at-least-once      *)
(* channel from a worker to the scheduler.  A report is written once and   *)
(* waits until the scheduler has ruled on it; only a file that cannot be   *)
(* read leaves earlier, and it is kept aside.  A report that comes after   *)
(* another one is not ruled on before it.  How reports are sent, lost,     *)
(* repeated, parked and retried, and what the worker does meanwhile, does  *)
(* not matter here.                                                        *)
(***************************************************************************)
CONSTANTS
    Report,
    Before    \* pairs: the first is ruled on before the second

VARIABLES
    written,  \* reports the journal was given
    direct,   \* reports sent past the journal, which promises nothing of them
    pending,  \* written ones that wait for a ruling
    aside,    \* written ones that were unreadable once
    ruled     \* reports the scheduler took or turned down

channel == <<written, direct, pending, aside, ruled>>

Init ==
    /\ written = {} /\ direct = {} /\ pending = {} /\ aside = {} /\ ruled = {}

Fresh(r) == r \notin written \cup direct

Write(r) ==
    /\ Fresh(r)
    /\ written' = written \cup {r}
    /\ pending' = pending \cup {r}
    /\ UNCHANGED <<direct, aside, ruled>>

SendPast(r) ==
    /\ Fresh(r)
    /\ direct' = direct \cup {r}
    /\ UNCHANGED <<written, pending, aside, ruled>>

\* The worker may not know yet, or never learn of it.
Rule(r) ==
    /\ r \in written \cup direct
    /\ r \notin direct => \A b \in written : <<b, r>> \in Before => b \in ruled \cup aside
    /\ ruled' = ruled \cup {r}
    /\ UNCHANGED <<written, direct, pending, aside>>

Acknowledge(r) ==
    /\ r \in pending \cap ruled
    /\ pending' = pending \ {r}
    /\ UNCHANGED <<written, direct, aside, ruled>>

SetAside(r) ==
    /\ r \in pending
    /\ pending' = pending \ {r}
    /\ aside' = aside \cup {r}
    /\ UNCHANGED <<written, direct, ruled>>

\* It was being sent: the failed attempt is noted in a new file.
PutBack(r) ==
    /\ r \in aside
    /\ pending' = pending \cup {r}
    /\ UNCHANGED <<written, direct, aside, ruled>>

Next ==
    \E r \in Report :
        \/ Write(r) \/ SendPast(r) \/ Rule(r)
        \/ Acknowledge(r) \/ SetAside(r) \/ PutBack(r)

Spec == Init /\ [][Next]_channel
=============================================================================
