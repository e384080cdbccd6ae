----------------------------- MODULE PttLemmas -----------------------------
(* What one request or release does to the arbiter's state, for any set of *)
(* holders.  Cited by the proofs of every module that drives the arbiter.  *)
EXTENDS Ptt, FiniteSetTheorems, TLAPS

\* Requests and releases keep the arbiter's state typed.
LEMMA PttStepTypes ==
  ASSUME PttTypeOK, NEW h \in Holders,
         core_request_ptt(h) \/ core_release_ptt(h)
  PROVE  PttTypeOK'
<1>1. g_ptt_refcount' \in Nat
  <2>1. \/ g_ptt_refcount' = g_ptt_refcount + 1
        \/ g_ptt_refcount' = IF g_ptt_refcount > 0 THEN g_ptt_refcount - 1
                                                   ELSE 0
    BY Zenon DEF core_request_ptt, core_release_ptt
  <2> QED BY <2>1 DEF PttTypeOK
<1>2. held' \subseteq Holders
  BY DEF PttTypeOK, core_request_ptt, core_release_ptt
<1>3. g_ptt_active' \in BOOLEAN
  BY Zenon DEF PttTypeOK, core_request_ptt, core_release_ptt
<1>4. pin' \in BOOLEAN
  BY Zenon DEF PttTypeOK, core_request_ptt, core_release_ptt,
               kerchunk_hid_set_ptt
<1> QED BY <1>1, <1>2, <1>3, <1>4 DEF PttTypeOK

\* A request by somebody who does not hold PTT yet keeps the count exact.
LEMMA RequestCounts ==
  ASSUME CountIsHolders, NEW h, h \notin held, core_request_ptt(h)
  PROVE  CountIsHolders'
<1>1. held' = held \cup {h} /\ g_ptt_refcount' = g_ptt_refcount + 1
  BY DEF core_request_ptt
<1>2. /\ IsFiniteSet(held \cup {h})
      /\ Cardinality(held \cup {h}) = Cardinality(held) + 1
  BY FS_AddElement DEF CountIsHolders
<1> QED BY <1>1, <1>2 DEF CountIsHolders

\* A release by somebody who holds PTT keeps the count exact.
LEMMA ReleaseCounts ==
  ASSUME CountIsHolders, NEW h, h \in held, core_release_ptt(h)
  PROVE  CountIsHolders'
<1>1. /\ held' = held \ {h}
      /\ g_ptt_refcount' = IF g_ptt_refcount > 0 THEN g_ptt_refcount - 1 ELSE 0
  BY DEF core_release_ptt
<1>2. /\ IsFiniteSet(held \ {h})
      /\ Cardinality(held \ {h}) = Cardinality(held) - 1
  BY FS_RemoveElement DEF CountIsHolders
<1>3. Cardinality(held) \in Nat /\ Cardinality(held \ {h}) \in Nat
  BY <1>2, FS_CardinalityType DEF CountIsHolders
<1> QED BY <1>1, <1>2, <1>3 DEF CountIsHolders

\* With an exact count, the release of the last holder is the one that
\* brings the count to zero.
LEMMA LastRelease ==
  ASSUME CountIsHolders, NEW h, h \in held, core_release_ptt(h)
  PROVE  g_ptt_refcount' = 0 <=> held' = {}
<1>1. CountIsHolders'
  BY ReleaseCounts
<1>2. IsFiniteSet(held') /\ g_ptt_refcount' = Cardinality(held')
  BY <1>1 DEF CountIsHolders
<1> QED BY <1>2, FS_EmptySet

\* The exact arbiter: count, published flag and PTT line all say the same.
PttExact == PttTypeOK /\ CountIsHolders /\ ActiveIffHeld /\ (pin <=> g_ptt_active)

\* A step of a disciplined caller: nothing, a first request, or a release
\* of what is held.
PttStep == \/ UNCHANGED pttVars
           \/ \E h \in Holders : h \notin held /\ core_request_ptt(h)
           \/ \E h \in Holders : h \in held /\ core_release_ptt(h)

LEMMA PttInitExact == PttInit => PttExact
<1> SUFFICES ASSUME PttInit PROVE PttExact
  OBVIOUS
<1>1. held = {} /\ g_ptt_refcount = 0 /\ g_ptt_active = FALSE /\ pin = FALSE
  BY DEF PttInit
<1>2. PttTypeOK
  BY <1>1 DEF PttTypeOK
<1>3. CountIsHolders
  BY <1>1, FS_EmptySet DEF CountIsHolders
<1> QED BY <1>1, <1>2, <1>3, Zenon DEF PttExact, ActiveIffHeld

\* With a working GPIO adapter, disciplined callers keep the arbiter exact.
LEMMA PttStepExact ==
  ASSUME ~HidFails, PttExact, PttStep
  PROVE  PttExact'
<1>1. ASSUME NEW h \in Holders, h \notin held, core_request_ptt(h)
      PROVE  PttExact'
  <2>1. PttTypeOK' /\ CountIsHolders'
    BY <1>1, PttStepTypes, RequestCounts DEF PttExact
  <2>2. g_ptt_active' = TRUE /\ h \in held'
    BY <1>1, Zenon DEF core_request_ptt
  <2>3. pin' = TRUE
    BY <1>1, Zenon DEF core_request_ptt, kerchunk_hid_set_ptt, PttExact,
                       PttTypeOK
  <2> QED BY <2>1, <2>2, <2>3, Zenon DEF PttExact, ActiveIffHeld
<1>2. ASSUME NEW h \in Holders, h \in held, core_release_ptt(h)
      PROVE  PttExact'
  <2>1. PttTypeOK' /\ CountIsHolders'
    BY <1>2, PttStepTypes, ReleaseCounts DEF PttExact
  <2>2. g_ptt_refcount' = 0 <=> held' = {}
    BY <1>2, LastRelease DEF PttExact
  <2>3. g_ptt_active /\ pin
    BY <1>2, Zenon DEF PttExact, ActiveIffHeld
  <2>4. CASE g_ptt_refcount' = 0
    <3>1. g_ptt_active' = FALSE /\ pin' = FALSE
      BY <1>2, <2>3, <2>4, Zenon DEF core_release_ptt, kerchunk_hid_set_ptt
    <3> QED BY <2>1, <2>2, <2>4, <3>1, Zenon DEF PttExact, ActiveIffHeld
  <2>5. CASE g_ptt_refcount' # 0
    <3>1. g_ptt_active' = g_ptt_active /\ pin' = pin
      BY <1>2, <2>5, Zenon DEF core_release_ptt
    <3> QED BY <2>1, <2>2, <2>3, <2>5, <3>1, Zenon DEF PttExact, ActiveIffHeld
  <2> QED BY <2>4, <2>5
<1>3. CASE UNCHANGED pttVars
  <2>1. PttTypeOK' /\ CountIsHolders'
    BY <1>3 DEF pttVars, PttExact, PttTypeOK, CountIsHolders
  <2> QED BY <1>3, <2>1, Zenon DEF pttVars, PttExact, ActiveIffHeld
<1> QED BY <1>1, <1>2, <1>3 DEF PttStep
============================================================================
