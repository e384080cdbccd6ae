-------------------------------- MODULE Ptt --------------------------------
(***************************************************************************)
(* The push-to-talk arbiter of src/kerchunk_core.c.  Every module that     *)
(* wants the transmitter calls request_ptt and later release_ptt; the core *)
(* keeps one reference count under g_ptt_mutex, writes the GPIO pin when   *)
(* the count leaves or reaches zero, and fires PTT_ASSERT / PTT_DROP while *)
(* it still holds the mutex, so each call is one atomic step.              *)
(*                                                                         *)
(* The count is anonymous: release_ptt(name) only logs the name.  The      *)
(* auxiliary variable held remembers what the count forgets.               *)
(***************************************************************************)
EXTENDS Integers, FiniteSets

CONSTANTS
  Holders,      \* the reasons that may hold the transmitter
  HidFails      \* may a GPIO write be lost (unplugged or stalled adapter)?

ASSUME PttAssumption == HidFails \in BOOLEAN

VARIABLES
  g_ptt_refcount,
  g_ptt_active,
  pin,          \* what the radio's PTT line really is
  held          \* auxiliary: the holders whose request is outstanding

pttVars == <<g_ptt_refcount, g_ptt_active, pin, held>>

PttInit == /\ g_ptt_refcount = 0
           /\ g_ptt_active = FALSE
           /\ pin = FALSE
           /\ held = {}

\* The callers ignore the return value, so a failed write leaves the pin.
kerchunk_hid_set_ptt(on) == pin' \in IF HidFails THEN {on, pin} ELSE {on}

core_request_ptt(h) ==
  /\ g_ptt_refcount' = g_ptt_refcount + 1
  /\ g_ptt_active' = TRUE
  /\ IF g_ptt_active THEN pin' = pin ELSE kerchunk_hid_set_ptt(TRUE)
  /\ held' = held \cup {h}

\* Mutant: every release unkeys, whoever else still holds the transmitter.
core_release_ptt_Unconditional(h) ==
  /\ g_ptt_refcount' = IF g_ptt_refcount > 0 THEN g_ptt_refcount - 1 ELSE 0
  /\ g_ptt_active' = FALSE
  /\ kerchunk_hid_set_ptt(FALSE)
  /\ held' = held \ {h}

core_release_ptt(h) ==
  /\ g_ptt_refcount' = IF g_ptt_refcount > 0 THEN g_ptt_refcount - 1 ELSE 0
  /\ IF g_ptt_refcount' = 0 /\ g_ptt_active
       THEN g_ptt_active' = FALSE /\ kerchunk_hid_set_ptt(FALSE)
       ELSE UNCHANGED <<g_ptt_active, pin>>
  /\ held' = held \ {h}
----------------------------------------------------------------------------
PttTypeOK == /\ g_ptt_refcount \in Nat
             /\ g_ptt_active \in BOOLEAN
             /\ pin \in BOOLEAN
             /\ held \subseteq Holders

\* The anonymous count is the number of holders: no request is lost and
\* no release is counted twice (core_request_ptt, core_release_ptt).
CountIsHolders == IsFiniteSet(held) /\ g_ptt_refcount = Cardinality(held)

\* The flag kerchunk_core_get_ptt() publishes, which gates carrier detection
\* in the main loop and the queue's transmit delay, is exact.
ActiveIffHeld == g_ptt_active <=> (held # {})
============================================================================
