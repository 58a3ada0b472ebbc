----------------------------- MODULE MCSharedVM -----------------------------
(* Instances of SharedVM for TLC. *)
EXTENDS SharedService, TLC

\* Instances, requests, ports and pids are interchangeable
Symmetry == Permutations(Instances) \cup Permutations(Requests)
              \cup Permutations(Ports) \cup Permutations(Pids)

Faults(redis, broker, monitor, io) ==
  [k \in FaultKind |-> CASE k = "redis" -> redis
                         [] k = "broker" -> broker
                         [] k = "monitor" -> monitor
                         [] k = "io" -> io]

NoFaults == Faults(0, 0, 0, 0)
RedisFaults == Faults(1, 0, 0, 0)
BrokerFaults == Faults(1, 1, 0, 1)
AnyFault == Faults(1, 1, 1, 0)

AllOps == {"provision", "deprovision", "bind", "unbind", "other"}
LifecycleOps == {"provision", "deprovision"}
ProvisionOnly == {"provision"}
=============================================================================
