---------------------------- MODULE MCAppSysFreq ----------------------------
(* Two of the six QoS users, the pseudo user and two other users.  The     *)
(* QoS users are interchangeable: the code only adds their wishes up.      *)
EXTENDS AppSysFreq, TLC

Symm == Permutations(QosUsers)
=============================================================================
