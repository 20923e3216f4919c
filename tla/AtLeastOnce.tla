---------------------------- MODULE AtLeastOnce ----------------------------
(***************************************************************************)
(* What the delivery path promises, without streams, queues or storage: an *)
(* observation that Publish has accepted is held by the agent until it is  *)
(* settled, that is, stored in ClickHouse or rejected for good; only what  *)
(* was accepted is ever settled, and what is settled stays so.             *)
(* Observations are pairs <<cluster, sequence>>.                           *)
(***************************************************************************)
CONSTANTS Observation,
          Exempt       \* observations for which no row is written

VARIABLES accepted,  \* published so far
          held,      \* still in the agents' buffers
          settled    \* stored, or rejected

vars == <<accepted, held, settled>>

Init == /\ accepted = {}
        /\ held = {}
        /\ settled = {}

Publish == /\ \E o \in Observation \ accepted :
                /\ accepted' = accepted \cup {o}
                /\ held' = held \cup {o}
           /\ UNCHANGED settled

Settle == /\ settled \subseteq settled'
          /\ settled' \subseteq accepted
          /\ UNCHANGED <<accepted, held>>

Forget == /\ held' \subseteq held
          /\ held \ held' \subseteq settled \cup Exempt
          /\ UNCHANGED <<accepted, settled>>

Next == Publish \/ Settle \/ Forget

Spec == Init /\ [][Next]_vars
=============================================================================
