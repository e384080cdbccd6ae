----------------------------- MODULE MCRepeater -----------------------------
(* Instances of Repeater for TLC. *)
EXTENDS Repeater

Raw(tail, hang, tot, debounce, closed, relay) ==
  [tail_time |-> tail, hang_time |-> hang, timeout_time |-> tot,
   cor_debounce |-> debounce, require_id |-> closed, software_relay |-> relay]

RelayOn   == {Raw(2000, 500, 180000, 150, FALSE, TRUE)}
RelayOff  == {Raw(2000, 500, 180000, 150, FALSE, FALSE)}

\* The operator unloads in any state but the receive time-out.
UnloadSafe == States \ {"RX_TIMEOUT"}
=============================================================================
