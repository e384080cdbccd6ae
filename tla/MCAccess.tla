------------------------------ MODULE MCAccess ------------------------------
(* Instances of Access for TLC. *)
EXTENDS Access

\* Two users whose ANI codes are prefixes of each other; only one can log in.
U1 == [id |-> 1, ani |-> <<"1">>, login |-> <<"1", "1">>, totp |-> TRUE]
U2 == [id |-> 2, ani |-> <<"1", "1">>, login |-> <<>>, totp |-> TRUE]
Tables == {<<U1, U2>>, <<U2>>}
Logout == <<"1">>
Otp == <<"1">>
=============================================================================
