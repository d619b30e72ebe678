---------------------------- MODULE ChatContract ----------------------------
(***************************************************************************)
(* The chat service implements the exchange contract.  A reply that was    *)
(* completed may turn failed only if the completing commit can be in doubt *)
(* when the handler is interrupted: cancelled, or cut off from the         *)
(* database.                                                               *)
(***************************************************************************)
EXTENDS Chat

PhaseOf(status) == IF status \in InProgress THEN "working" ELSE status

Contract == INSTANCE ExchangeContract WITH
    MayRetract <- CommitInDoubt,
    phase      <- [e \in Exchanges |-> PhaseOf(reply[e].status)],
    attempt    <- [e \in Exchanges |-> reply[e].by],
    answer     <- [r \in Requests |-> receipt[r].by]

\* Every step of the service is a step of the contract, or leaves all it
\* speaks of unchanged.
ImplementsContract == Contract!Spec
=============================================================================
