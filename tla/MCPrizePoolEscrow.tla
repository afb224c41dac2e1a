------------------------- MODULE MCPrizePoolEscrow -------------------------
(* Values for the constants of PrizePoolEscrow that sets of model values     *)
(* cannot express.                                                           *)
EXTENDS PrizePoolEscrow

CONSTANTS admin, host, judge

MCGrants == [role \in Roles |->
    CASE role = "HOST_ROLE" -> {host}
      [] role = "JUDGE_ROLE" -> {judge}
      [] OTHER -> {}]

MCRoleChanges == {<<"JUDGE_ROLE", judge>>}

To(account, n) == [recipient |-> account, amount |-> n]

MCBatches == {<<To(judge, 1)>>, <<To(judge, 1), To(host, 1)>>}
=============================================================================
