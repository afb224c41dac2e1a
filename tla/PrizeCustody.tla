---------------------------- MODULE PrizeCustody ----------------------------
(***************************************************************************)
(* What the escrow promises, transaction by transaction, without contracts *)
(* calls or callbacks.  Every vault is opened, takes deposits, releases    *)
(* the amount of a request that enough signers approved, once, or returns  *)
(* everything that is left; a vault with nothing left is closed for good.  *)
(* One transaction may touch several vaults and requests, each by a step   *)
(* of its own.                                                             *)
(***************************************************************************)
EXTENDS Integers, FiniteSets

CONSTANTS Vaults, Requests, Signers, MinQuorum

VARIABLES vaults, requests

Vault == [quorum : Nat, deposited : Nat, paid : Nat, returned : Nat, closed : BOOLEAN]
Request == [state : {"none", "pending", "executed", "rejected"},
            vault : Vaults, amount : Nat, signers : SUBSET Signers]

NoVault == [quorum |-> 0, deposited |-> 0, paid |-> 0, returned |-> 0, closed |-> FALSE]

Init ==
    /\ vaults = [v \in Vaults |-> NoVault]
    /\ requests \in [Requests -> Request]
    /\ \A r \in Requests : requests[r].state = "none" /\ requests[r].signers = {}

IsOpen(v) == vaults[v].quorum > 0 /\ ~vaults[v].closed

Open(v) ==
    /\ vaults[v] = NoVault
    /\ vaults'[v].quorum >= MinQuorum
    /\ vaults'[v] = [NoVault EXCEPT !.quorum = vaults'[v].quorum,
                                    !.deposited = vaults'[v].deposited]

Deposit(v) ==
    /\ IsOpen(v)
    /\ vaults'[v].deposited > vaults[v].deposited
    /\ vaults'[v] = [vaults[v] EXCEPT !.deposited = vaults'[v].deposited]

Executes(r) == requests[r].state = "pending" /\ requests'[r].state = "executed"

Release(v) ==
    /\ IsOpen(v)
    /\ \E r \in Requests :
         LET paid == vaults[v].paid + requests[r].amount
         IN /\ Executes(r) /\ requests[r].vault = v
            /\ paid <= vaults[v].deposited
            /\ vaults'[v] = [vaults[v] EXCEPT !.paid = paid,
                                              !.closed = (paid = vaults[v].deposited)]

Return(v) ==
    /\ IsOpen(v)
    /\ vaults'[v] = [vaults[v] EXCEPT !.returned = vaults[v].deposited - vaults[v].paid,
                                      !.closed = TRUE]

VaultStep(v) == Open(v) \/ Deposit(v) \/ Release(v) \/ Return(v)

\* A request is made, then signed, then executed or rejected, and never changes
\* afterwards.  It executes with a quorum of its vault's signers, in the step
\* in which its vault pays exactly its amount.
RequestStep(r) ==
    LET old == requests[r]
        new == requests'[r]
    IN /\ new \in Request
       /\ <<old.state, new.state>> \in
            {"none", "pending"} \X {"pending", "executed", "rejected"}
       /\ old.state = "pending" =>
            /\ <<new.vault, new.amount>> = <<old.vault, old.amount>>
            /\ old.signers \subseteq new.signers
       /\ new.state = "executed" =>
            /\ old.state = "pending"
            /\ Cardinality(new.signers) >= vaults[old.vault].quorum
            /\ vaults'[old.vault].paid = vaults[old.vault].paid + old.amount

Next ==
    /\ \A v \in Vaults : vaults'[v] = vaults[v] \/ VaultStep(v)
    /\ \A r \in Requests : requests'[r] = requests[r] \/ RequestStep(r)

Spec == Init /\ [][Next]_<<vaults, requests>>
=============================================================================
