----------------------------- MODULE RobotDrive -----------------------------
(***************************************************************************)
(* What the coordinator's two cancellation barriers are for: the robot is  *)
(* driven by navigation goals of the coordinator or by a search execution  *)
(* and never by both, and neither starts before the other has stopped.     *)
(***************************************************************************)
CONSTANTS Goals, Requests

VARIABLES
  driving,  \* goals of the coordinator that run or can still be accepted
  searching \* search requests that run or can still be taken up

Init == driving = {} /\ searching = {}

Drive(g) == searching = {} /\ driving' = driving \cup {g} /\ UNCHANGED searching

GoalsEnd == driving' \in SUBSET driving /\ UNCHANGED searching

Search(r) == driving = {} /\ searching = {} /\ searching' = {r} /\ UNCHANGED driving

SearchEnds == searching' \in SUBSET searching /\ UNCHANGED driving

Next ==
  \/ \E g \in Goals : Drive(g)
  \/ \E r \in Requests : Search(r)
  \/ GoalsEnd \/ SearchEnds

Spec == Init /\ [][Next]_<<driving, searching>>

\* What the handover is for. Every implementation inherits it.
OneDriver == driving = {} \/ searching = {}

=============================================================================
