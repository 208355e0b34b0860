----------------------------- MODULE QosContract -----------------------------
(***************************************************************************)
(* The route QoS contract (runtime/src/ev_qos_contract.c): what a failed     *)
(* delivery means for each QoS class, and which routes an actor module       *)
(* accepts.  A module's route policy is the one class it was made for;       *)
(* CRITICAL is its zero value and stands for "no particular class".          *)
(***************************************************************************)
EXTENDS Naturals

QosClasses == {"CRITICAL", "BEST_EFFORT", "LOSSY", "COALESCED", "LATEST_ONLY",
               "WAKEUP_CRITICAL", "TELEMETRY", "COMMAND"}

StrictClasses == {"CRITICAL", "WAKEUP_CRITICAL", "COMMAND"}

\* ev_qos_failure_is_strict; its negation is ev_qos_failure_is_drop_allowed
FailureIsStrict(qos) == qos \in StrictClasses

\* ev_actor_module_route_policy_accepts_qos
PolicyAccepts(policy, qos) ==
  \/ policy = "CRITICAL"
  \/ qos = policy
  \/ policy \in {"WAKEUP_CRITICAL", "TELEMETRY", "COMMAND"} /\ qos = "CRITICAL"
  \/ policy = "TELEMETRY" /\ qos \in {"BEST_EFFORT", "LOSSY"}

\* Classes that only a module made for them may receive.
Relevant == {"WAKEUP_CRITICAL", "COMMAND", "TELEMETRY"}

\* ev_qos_validate_route_against_module
RouteIsValid(policy, qos) ==
  PolicyAccepts(policy, qos) /\ (qos \in Relevant => policy = qos)

=============================================================================
