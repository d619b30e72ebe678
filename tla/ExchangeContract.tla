-------------------------- MODULE ExchangeContract --------------------------
(***************************************************************************)
(* What the chat service promises of an exchange, one client message id    *)
(* with its reply, to the clients that send and resend it (ADR-009): one   *)
(* attempt at a time; a completed exchange is only ever replayed; a failed *)
(* one may be attempted again.  Nothing here knows of transactions, locks  *)
(* or streams.                                                             *)
(***************************************************************************)
CONSTANTS
    Requests,
    Exchanges,
    NoRequest,
    MayRetract  \* a completed exchange may still turn failed (see Chat)

VARIABLES
    phase,      \* each exchange: absent, working, completed or failed
    attempt,    \* the request whose attempt its reply comes from
    answer      \* the attempt whose completed reply answered each request

contractVars == <<phase, attempt, answer>>

Init ==
    /\ phase = [e \in Exchanges |-> "absent"]
    /\ attempt = [e \in Exchanges |-> NoRequest]
    /\ answer = [r \in Requests |-> NoRequest]

Begin(e, r) ==
    /\ phase[e] \in {"absent", "failed"}
    /\ phase' = [phase EXCEPT ![e] = "working"]
    /\ attempt' = [attempt EXCEPT ![e] = r]
    /\ UNCHANGED answer

Settle(e, outcome) ==
    /\ \/ phase[e] = "working"
       \/ MayRetract /\ phase[e] = "completed" /\ outcome = "failed"
    /\ phase' = [phase EXCEPT ![e] = outcome]
    /\ UNCHANGED <<attempt, answer>>

Answer(e, r) ==
    /\ phase[e] = "completed"
    /\ answer[r] = NoRequest
    /\ answer' = [answer EXCEPT ![r] = attempt[e]]
    /\ UNCHANGED <<phase, attempt>>

Next == \E e \in Exchanges :
    \/ \E r \in Requests : Begin(e, r) \/ Answer(e, r)
    \/ \E outcome \in {"completed", "failed"} : Settle(e, outcome)

Spec == Init /\ [][Next]_contractVars
=============================================================================
