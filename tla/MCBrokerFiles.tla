------------------------------ MODULE MCBrokerFiles ------------------------------
(* The operator's files side by side: a behaviour is one of the approval queue *)
(* file, which no lock guards, or one of the signed grant cache, which a file  *)
(* lock does.                                                                   *)
EXTENDS ApprovalQueue, SignedGrantCache

CONSTANTS r1, r2, agent, operator, broker, g1, g2, forged

VARIABLE scene

MCGrantOf ==
  [g \in Grants |->
     IF g = g1 THEN [request |-> r1, key |-> "prod", genuine |-> TRUE]
     ELSE IF g = g2 THEN [request |-> r1, key |-> "dev", genuine |-> TRUE]
     ELSE [request |-> r1, key |-> "prod", genuine |-> FALSE]]

MCInit ==
  /\ scene \in {"queue", "cache"}
  /\ Init /\ CacheInit
MCNext ==
  /\ \/ scene = "queue" /\ Next /\ UNCHANGED cacheVars
     \/ scene = "cache" /\ CacheNext /\ UNCHANGED vars
  /\ UNCHANGED scene
MCSpec ==
  /\ MCInit
  /\ [][MCNext]_<<scene, vars, cacheVars>>
  /\ \A p \in Brokers :
       WF_cacheVars(scene = "cache" /\ CacheStep(p) /\ UNCHANGED <<scene, vars>>)
=============================================================================
