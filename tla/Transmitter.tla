---------------------------- MODULE Transmitter ----------------------------
(***************************************************************************)
(* What push-to-talk arbitration promises the rest of the repeater: the    *)
(* radio transmits exactly while somebody has a reason for it.  Holders    *)
(* are reasons, not modules: the playback queue, the relay session of      *)
(* mod_repeater, the audio stream of mod_link, one `ptt on` of the         *)
(* operator.  No counter, no pin, no mutex: kerchunk_core.c implements     *)
(* this with an anonymous reference count.                                 *)
(***************************************************************************)
CONSTANT Holders

VARIABLES holding,      \* the reasons that hold the transmitter now
          keyed         \* the transmitter is on the air

Init == holding = {} /\ keyed = FALSE

Acquire(h) == /\ h \notin holding
              /\ holding' = holding \cup {h}
              /\ keyed' = TRUE

Drop(h) == /\ h \in holding
           /\ holding' = holding \ {h}
           /\ keyed' = (holding' # {})

Next == \E h \in Holders : Acquire(h) \/ Drop(h)

Spec == Init /\ [][Next]_<<holding, keyed>>
=============================================================================
