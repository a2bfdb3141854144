------------------------- MODULE MCProviderTraffic -------------------------
(***************************************************************************)
(* What this program and the identity provider tell each other about ended *)
(* sessions: the outbox of what it owes the provider, and the security     *)
(* events the provider sends, one instance of each for TLC.                *)
(***************************************************************************)
EXTENDS MCRevocationOutbox, MCProviderEvents

trafficVars == <<vars, eventVars>>

TrafficInit == Init /\ EventsInit

\* The two share no rows, so every state of one is reached with the other at
\* rest, where the run leaves it.
OutboxAlone == EventsInit /\ UNCHANGED eventVars
EventsAlone == Init /\ UNCHANGED vars

TrafficStep ==
    \/ OutboxAlone /\ Next
    \/ EventsAlone /\ EventsStep

\* The fairness of RevocationOutbox, for the runs that no event enters.
TrafficSpec ==
    /\ TrafficInit /\ [][TrafficStep]_trafficVars
    /\ WF_trafficVars(OutboxAlone /\ Tick)
    /\ \A d \in Drains : WF_trafficVars(OutboxAlone /\ StartDrain(d)) /\ WF_trafficVars(OutboxAlone /\ DrainWork(d))

\* Every variable has its shape.
TrafficTypeOK == TypeOK /\ EventsTypeOK
=============================================================================
