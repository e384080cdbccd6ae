----------------------------- MODULE MCModules -----------------------------
(* Small values for Modules: one or two users, calls, alerts or connections,  *)
(* and tables of one to three entries so that every one of them is full.      *)
(* The transmit path rests or runs alone beside them: `tx_runs` chooses.      *)
EXTENDS Modules, TxPath, MCAccess

CONSTANT t1

VARIABLE tx_runs

MCInit ==
    /\ Init /\ TxInit
    /\ tx_runs \in BOOLEAN
    /\ IF tx_runs THEN focus = "records" ELSE software_relay = FALSE

\* Bound: CallIsWhole claims nothing once a command of another thread has
\* overlapped a handler (`overlap` is never reset), so no such state is left.
Claimed == ~overlap

MCNext ==
    /\ Claimed
    /\ UNCHANGED tx_runs
    /\ IF tx_runs THEN TxNext /\ UNCHANGED vars ELSE Next /\ UNCHANGED txVars

\* TxFairSpec's, when the transmit path runs.
TxFairness ==
    /\ WF_txVars(tx_runs /\ AudioThread) /\ WF_txVars(tx_runs /\ PlaybackCallback)
    /\ WF_txVars(tx_runs /\ CorEnd)

MCSpec == MCInit /\ [][MCNext]_<<tx_runs, vars, txVars>> /\ Fairness /\ TxFairness
=============================================================================
