---------------------------- MODULE MCMitigation ----------------------------
(* Two instances whose rules are encoded to one NLRI: a rule may emit less *)
(* than its descriptor tells apart.                                        *)
EXTENDS Mitigation

MCNlri == [id \in Ids |-> "n"]
=============================================================================
