------------------------------ MODULE MCLinkNet ------------------------------
EXTENDS LinkNet

CONSTANTS self, peer

\* Two files: both nodes free to use both talkgroups; the client without its
\* talkgroup and banned.  Order and length stay.
Roster(nodes, own, banned) ==
    [roster |-> nodes,
     allowed |-> [n \in {self, peer} |-> IF n = self THEN own ELSE {1, 2}],
     default |-> [n \in {self, peer} |-> IF n = self /\ 1 \notin own THEN 2 ELSE 1],
     banned |-> banned, keyed |-> {self, peer}]

KeptRosters == { Roster(<<peer, self>>, {1, 2}, {}),
                 Roster(<<peer, self>>, {2}, {self}) }

\* The peer's section is removed from the file.
ShrinkingRosters == KeptRosters \cup { Roster(<<self>>, {1, 2}, {}) }
=============================================================================
