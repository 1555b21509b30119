----------------------------- MODULE MCEventBus -----------------------------
(* Instances of EventBus for TLC.  The store with its faults, the live        *)
(* subscribers and the replaying ones (with one fault left) are explored     *)
(* from initial states of their own, in which the other subscribers have     *)
(* left already: the product of the three is too large.                      *)
EXTENDS EventBus

MCInit ==
    /\ seq = 0 /\ critical = {} /\ timeline = <<>>
    /\ saving = {} /\ log = <<>> /\ failed = <<>> /\ retries = {} /\ flush = "no"
    /\ \E listening \in {{}, Live, Replaying} :
          /\ sub = [s \in Subscribers |->
                      IF s \in listening THEN NoSubscriber ELSE [NoSubscriber EXCEPT !.state = "closed"]]
          /\ faults = IF listening = {} THEN 0
                      ELSE IF listening = Live THEN MaxFaults ELSE MaxFaults - 1

MCSpec == MCInit /\ [][Next]_vars /\ Fairness

=============================================================================
