------------------------- MODULE ResourceAllocation -------------------------
(***************************************************************************)
(* How the CPU and the memory that an Astarte asks for are shared out      *)
(* among its services (internal/misc/utils.go).  CPU is in thousandths of  *)
(* a core, memory in bytes.                                                *)
(*                                                                         *)
(* Simplification: the code multiplies floating-point numbers, here the    *)
(* arithmetic is exact and then rounded down, as the code rounds.          *)
(***************************************************************************)
EXTENDS Integers

CONSTANT Mega   \* bytes in a megabyte

ASSUME MegaAssumption == Mega \in Nat \ {0}

\* defaultComponentAllocations, in hundredths, the same for CPU and memory.
Weight ==
    [appengine |-> 18, data_updater_plant |-> 21, flow |-> 10,
     housekeeping |-> 8, pairing |-> 19, realm_management |-> 12,
     trigger_engine |-> 7, dashboard |-> 5]
Services == DOMAIN Weight

\* A service's Deploy is a pointer: true, false or not set.
DeployValues == {"yes", "no", "unset"}
Deploys == [Services -> DeployValues]
Amounts == [cpu : Nat, memory : Nat]
Resources == [requests : Amounts, limits : Amounts]

\* A sum over the services, one after the other, as the code adds them up.
OverServices(part(_)) ==
    part("appengine") + part("dashboard") + part("data_updater_plant")
      + part("flow") + part("housekeeping") + part("pairing")
      + part("realm_management") + part("trigger_engine")

\* getNumberOfDeployedAstarteComponentsAsFloat.  A service whose Deploy is not
\* set counts, also Flow, which is not deployed then.
Counted(deploy) == OverServices(LAMBDA c : IF deploy[c] = "no" THEN 0 ELSE 1)

\* getLeftoverCoefficients.
Leftover(deploy) ==
    OverServices(LAMBDA c : IF deploy[c] = "no" THEN Weight[c] ELSE 0)

\* Mutant: each service gets all that is left over.
ShareOfAll(total, deploy, c) == (total * (Weight[c] + Leftover(deploy))) \div 100

\* getWeightedDefaultAllocationFor, getCpuScaledQuantity and
\* getMemoryScaledQuantity.
Share(total, deploy, c) ==
    LET n == Counted(deploy)
    IN  (total * (Weight[c] * n + Leftover(deploy))) \div (100 * n)

Larger(a, b) == IF a < b THEN b ELSE a

\* "If the CPU is <150m, we're better off bursting the component."
RequestedCPU(share) == IF share < 150 THEN 0 ELSE share
\* ScaledValue rounds up.
RequestedMemory(share) == IF share <= 127 * Mega THEN 128 * Mega ELSE share

\* GetResourcesForAstarteComponent, when nothing is asked for the service
\* itself and something is for all.
Distributed(total, deploy, c) ==
    LET cpu == RequestedCPU(Share(total.requests.cpu, deploy, c))
        memory == RequestedMemory(Share(total.requests.memory, deploy, c))
    IN  [requests |-> [cpu |-> cpu, memory |-> memory],
         limits |->
           [cpu |-> Larger(Larger(Share(total.limits.cpu, deploy, c), cpu), 300),
            memory |-> Larger(Share(total.limits.memory, deploy, c), memory)]]
=============================================================================
