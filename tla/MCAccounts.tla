------------------------------ MODULE MCAccounts ------------------------------
(* Model values for checking Accounts. *)
EXTENDS Accounts, TLC

CONSTANTS d1, i1, i2, t1, t2, q1, q2, v1, v2

OneDevice == {d1}
TwoIds == {i1, i2}
Nickname == {"nickname"}
TwoValues == {v1, v2}
TwoTokens == {t1, t2}
TwoRequests == {q1, q2}

\* Every sign-up sends the same nickname.
NewProfiles == {[s \in Settings |-> v1]}
===============================================================================
