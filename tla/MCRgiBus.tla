------------------------------ MODULE MCRgiBus ------------------------------
(* TLC instances of RgiBus. *)
EXTENDS RgiBus, TLC

Symmetry == Permutations(Fds)

(* The state bus_init and the first RouteGuidance.start leave behind, on a *)
(* system where the timer could not be created.                            *)
UpInit ==
  /\ life = "up" /\ shutdown = FALSE
  /\ bus = [ring |-> <<>>, last |-> 0, client_fd |-> NoFd, client_gen |-> 0]
  /\ writer = [stage |-> "check"]
  /\ connector = [stage |-> "connect"]
  /\ timer = "gone"
  /\ fds = [d \in Fds |-> NoConn]
  /\ conns = [c \in Conns |-> Unused]
  /\ java = [listening |-> TRUE, conn |-> NoConn, running |-> TRUE,
             view |-> 0]
  /\ heard = 0 /\ lost = FALSE
  /\ made = 0 /\ sends = 0 /\ stimuli = 0

UpSpec     == UpInit /\ [][Next]_vars
UpFairSpec == UpSpec /\ Fairness
=============================================================================
