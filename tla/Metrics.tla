------------------------------ MODULE Metrics ------------------------------
(***************************************************************************)
(* The way of the server's counters to the metrics it exposes: the         *)
(* handler counts, metricsUpdater() takes snapshots and pushes them into   *)
(* the MetricsChannel, and a thread of main() pops them and updates the    *)
(* exported counters.  Who runs when is the subject of Lifecycle.          *)
(***************************************************************************)
EXTENDS Integers, Sequences

CONSTANTS
    MaxRequests, MaxErrors,  \* bounds on what the handler counts
    MaxQueued                \* bound on the snapshots in the channel

ASSUME MetricsAssumption ==
    MaxRequests \in Nat /\ MaxErrors \in Nat /\ MaxQueued \in Nat \ {0}

VARIABLES
    numErrors, numRequests,  \* atomics of the server
    snapshot,      \* numErrors as metricsUpdater() has read it, or Idle
    channel,       \* snapshots, oldest first
    exported,      \* the counters of the metrics server
    exporterPc,    \* "drain", "sleep" or "exited"
    exporterStop   \* its stop_token is set

counters == <<numErrors, numRequests>>
metricsVars == <<counters, snapshot, channel, exported, exporterPc, exporterStop>>

Idle == -1   \* metricsUpdater() is between two snapshots
Counts == [errors : Nat, requests : Nat]

MetricsInit ==
    /\ numErrors = 0 /\ numRequests = 0
    /\ snapshot = Idle /\ channel = <<>>
    /\ exported = [errors |-> 0, requests |-> 0]
    /\ exporterPc = "drain" /\ exporterStop = FALSE

\* The handler counts what epoll_wait() reported and the errors it met.
CountEvents ==
    /\ numRequests' \in {numRequests, numRequests + 1} /\ numRequests' <= MaxRequests
    /\ numErrors' \in {numErrors, numErrors + 1} /\ numErrors' <= MaxErrors
    /\ UNCHANGED <<snapshot, channel, exported, exporterPc, exporterStop>>

\* metricsUpdater(): the counters are read one after the other, in an order
\* left to the compiler, and pushed.
ReadErrors ==
    /\ snapshot = Idle /\ Len(channel) < MaxQueued
    /\ snapshot' = numErrors
    /\ UNCHANGED <<counters, channel, exported, exporterPc, exporterStop>>

\* Seeded faults: the snapshot does not reach the channel; it goes to its head.
PushNothing ==
    /\ snapshot # Idle
    /\ snapshot' = Idle
    /\ UNCHANGED <<counters, channel, exported, exporterPc, exporterStop>>

PushInFront ==
    /\ snapshot # Idle
    /\ channel' = <<[errors |-> snapshot, requests |-> numRequests]>> \o channel
    /\ snapshot' = Idle
    /\ UNCHANGED <<counters, exported, exporterPc, exporterStop>>

PushSnapshot ==
    /\ snapshot # Idle
    /\ channel' = Append(channel, [errors |-> snapshot, requests |-> numRequests])
    /\ snapshot' = Idle
    /\ UNCHANGED <<counters, exported, exporterPc, exporterStop>>

\* Seeded fault: the counters grow by what the snapshot holds.
UpdateMetricsAdds(s) ==
    exported' = [errors   |-> exported.errors + s.errors,
                 requests |-> exported.requests + s.requests]

\* A counter of the metrics library can only be incremented; UpdateMetrics()
\* increments it by the difference to what it shows.
UpdateMetrics(s) ==
    exported' = [errors   |-> exported.errors + (s.errors - exported.errors),
                 requests |-> exported.requests + (s.requests - exported.requests)]

\* The thread of main(): it pops until the channel is empty, sleeps, and only
\* then looks at its token.
PopSnapshot ==
    /\ exporterPc = "drain" /\ channel # <<>>
    /\ channel' = Tail(channel)
    /\ UpdateMetrics(Head(channel))
    /\ UNCHANGED <<counters, snapshot, exporterPc, exporterStop>>

ExporterSleeps ==
    /\ exporterPc = "drain" /\ channel = <<>>
    /\ exporterPc' = "sleep"
    /\ UNCHANGED <<counters, snapshot, channel, exported, exporterStop>>

ExporterWakes ==
    /\ exporterPc = "sleep"
    /\ exporterPc' = IF exporterStop THEN "exited" ELSE "drain"
    /\ UNCHANGED <<counters, snapshot, channel, exported, exporterStop>>

ExporterStep == PopSnapshot \/ ExporterSleeps \/ ExporterWakes

-----------------------------------------------------------------------------
(* The exported totals never exceed what the server has counted: no        *)
(* snapshot is applied twice or added to another.                          *)
ExportedNeverAhead ==
    exported.errors <= numErrors /\ exported.requests <= numRequests

Below(a, b) == a.errors <= b.errors /\ a.requests <= b.requests
\* What the next snapshot will hold at least.
Coming == [errors   |-> IF snapshot = Idle THEN numErrors ELSE snapshot,
           requests |-> numRequests]

(* What the proofs show to be inductive: the snapshots lie in the channel  *)
(* in the order they were taken, between what is exported and what is      *)
(* counted, so that no increment UpdateMetrics() makes is negative.        *)
SnapshotsGrow ==
    /\ numErrors \in Nat /\ numRequests \in Nat
    /\ snapshot \in Nat \cup {Idle} /\ snapshot <= numErrors
    /\ channel \in Seq(Counts) /\ exported \in Counts
    /\ Below(exported, Coming)
    /\ \A i \in DOMAIN channel : Below(exported, channel[i]) /\ Below(channel[i], Coming)
    /\ \A i, j \in DOMAIN channel : i <= j => Below(channel[i], channel[j])
=============================================================================
