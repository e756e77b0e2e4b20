-------------------------- MODULE MCAddressRecovery --------------------------
(***************************************************************************)
(* Bounded instances of AddressRecovery for TLC, started from one          *)
(* placement of the cameras, since addresses differ in nothing else. Every *)
(* camera changes its address; one of them also leaves the network.        *)
(***************************************************************************)
EXTENDS AddressRecovery, TLC

Home == CHOOSE f \in [Cameras -> Hosts] : \A c, d \in Cameras : f[c] = f[d] => c = d

Wanderer == CHOOSE c \in Cameras : TRUE

HomeInit == Init /\ where = Home /\ on \in {Cameras, Cameras \ {Wanderer}}

HomeNext == Next /\ \A c \in Cameras \ {Wanderer} : where'[c] # Nowhere

HomeSpec == HomeInit /\ [][HomeNext]_vars /\ Fairness
=============================================================================
