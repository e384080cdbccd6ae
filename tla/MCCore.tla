------------------------------- MODULE MCCore -------------------------------
(* The repeater alone, the node around it and the audio queue for TLC: a     *)
(* behaviour runs one of the three and the others rest.  Alone, the repeater *)
(* gets carrier edges in any order and may be reconfigured and unloaded; in  *)
(* the node its edges come from the detector.                                *)
EXTENDS MCNode, Queue

CONSTANTS t1, t2

VARIABLE focus

coreVars == <<focus, nodeVars, queueVars>>

\* Besides them values out of range, and a closed relay whose debounce comes
\* from require_id alone.
AllConfigs == BothRelays \cup {Raw(99999, 99999, 0, -1, FALSE, FALSE),
                               Raw(2000, 500, 900000, 0, TRUE, TRUE)}

NodeConfigs == {repeater_configure(raw) : raw \in BothRelays}

\* While the repeater runs alone there is no receiver beside it: the line
\* stays up and the loop deaf to it.
Receiver(absent) ==
  /\ line = absent /\ report = NoData /\ tone = FALSE
  /\ main_pc = "sample" /\ seen = [cos_raw |-> 0, dtmf |-> FALSE]
  /\ deaf = absent /\ calm = 0 /\ quiet = 0

MCInit ==
  /\ focus \in {"repeater", "node", "queue"}
  /\ Init /\ kerchunk_txactivity_init /\ Receiver(focus = "repeater")
  /\ focus = "node" => cfg \in NodeConfigs
  /\ focus = "queue" => cfg = CHOOSE c \in NodeConfigs : TRUE
  /\ focus # "node" => trust_cos_bit
  /\ kerchunk_queue_init

\* The queue has been shut down, or the bound on what is added is reached.
QueueEnded == (~up \/ g_next_id > MaxIds) /\ UNCHANGED coreVars

MCNext ==
  /\ UNCHANGED focus
  /\ \/ focus = "repeater" /\ Next
          /\ UNCHANGED <<txactVars, radioVars, loopVars, queueVars>>
     \/ focus = "node" /\ NodeNext /\ UNCHANGED queueVars
     \/ focus = "queue" /\ (QueueNext \/ QueueEnded) /\ UNCHANGED nodeVars

\* NodeFairSpec's and QueueFairSpec's, for the one that runs.
Fairness ==
  /\ WF_nodeVars(focus = "node" /\ Sample) /\ WF_nodeVars(focus = "node" /\ Detect)
  /\ \A s \in TimerIds : SF_nodeVars(focus = "node" /\ Timers(s))
  /\ WF_nodeVars(focus = "node" /\ link_change_state
                   /\ UNCHANGED <<txactVars, radioVars, loopVars>>)
  /\ WF_queueVars(focus = "queue" /\ Poll) /\ WF_queueVars(focus = "queue" /\ Drain)

MCSpec == MCInit /\ [][MCNext]_coreVars /\ Fairness
=============================================================================
