----------------------------- MODULE Telemetry -----------------------------
(***************************************************************************)
(* What monitoring promises, whatever fails: a reading the agent was told  *)
(* of as stored is stored, an alert is about a stored reading that calls   *)
(* for one, and no reading is alerted of twice.  Readings and alerts may   *)
(* be lost.                                                                *)
(***************************************************************************)
EXTENDS Sequences, Functions

CONSTANTS
    Readings,   \* all readings an agent can report
    Severe      \* those that call for an alert

VARIABLES
    submitted,  \* the readings reported
    log,        \* the readings stored
    acked,      \* the readings whose agent was told so
    alerts      \* the readings alerted of, in order

vars == <<submitted, log, acked, alerts>>

Init == submitted = {} /\ log = {} /\ acked = {} /\ alerts = <<>>

Submit(r) ==
    /\ r \in Readings \ submitted
    /\ submitted' = submitted \cup {r}
    /\ UNCHANGED <<log, acked, alerts>>

\* One save can store several readings.
Store(rs) ==
    /\ rs \subseteq submitted
    /\ log' = log \cup rs
    /\ UNCHANGED <<submitted, acked, alerts>>

Ack(r) ==
    /\ r \in log
    /\ acked' = acked \cup {r}
    /\ UNCHANGED <<submitted, log, alerts>>

Alert(r) ==
    /\ r \in log \cap Severe
    /\ r \notin Range(alerts)
    /\ alerts' = Append(alerts, r)
    /\ UNCHANGED <<submitted, log, acked>>

Next ==
    \/ \E r \in Readings : Submit(r) \/ Ack(r) \/ Alert(r)
    \/ \E rs \in SUBSET submitted : Store(rs)

Spec == Init /\ [][Next]_vars
=============================================================================
