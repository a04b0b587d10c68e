---------------------------- MODULE PolicyDecision ----------------------------
(***************************************************************************)
(* The outcome of one tool call (policy/decide.ts): a chain of rules of    *)
(* which the first that has something to say decides, and the gate's own   *)
(* second look at an inventory that cannot be trusted                      *)
(* (gate-decide-input.ts).  A function of its input, without state.        *)
(*                                                                         *)
(* An input has the policy in force, the agent's grant of the tool, the    *)
(* tool's state and surface delta, and what the session knows of the       *)
(* catalog.  A policy has what it says of this tool, of its server, of its *)
(* class and of everything: "none" where it says nothing.                  *)
(***************************************************************************)

Outcomes == {"allow", "deny", "require-approval"}

(* The answer of a rule that has nothing to say. *)
NoVerdict == "no-verdict"

orElse(verdict, next) == IF verdict = NoVerdict THEN next ELSE verdict

said(outcome) == IF outcome = "none" THEN NoVerdict ELSE outcome

failClosedQuarantineOutcome(policy) ==
  IF policy.onQuarantined = "deny" THEN "deny" ELSE "require-approval"

decideByAgentGrant(in) == IF in.agentGrant = "not-granted" THEN "deny" ELSE NoVerdict

AllowSurvivingDeltas == {"narrowed", "neutral"}

withdrawnBySurfaceChange(in) ==
  /\ in.policy.toolRule = "allow"
  /\ in.policy.isQuarantining
  /\ in.quarantineState = "changed"
  /\ in.surfaceDelta \notin AllowSurvivingDeltas

decideByToolRule(in) ==
  IF withdrawnBySurfaceChange(in)
  THEN failClosedQuarantineOutcome(in.policy)
  ELSE said(in.policy.toolRule)

decideByCatalogUntrusted(in) ==
  IF in.catalogTrusted THEN NoVerdict ELSE failClosedQuarantineOutcome(in.policy)

isShadow(in) == in.quarantineState = "unknown" /\ in.catalogObserved

decideByQuarantine(in) ==
  IF in.policy.isQuarantining /\ (in.quarantineState \in {"new", "changed"} \/ isShadow(in))
  THEN failClosedQuarantineOutcome(in.policy)
  ELSE NoVerdict

decide(in) ==
  orElse(decideByAgentGrant(in),
  orElse(decideByToolRule(in),
  orElse(decideByCatalogUntrusted(in),
  orElse(decideByQuarantine(in),
  orElse(said(in.policy.serverDefault),
  orElse(said(in.policy.classDefault), in.policy.defaultDecision))))))

enforceCatalogTrust(outcome, isTrusted) ==
  IF outcome = "allow" /\ ~isTrusted THEN "deny" ELSE outcome
=============================================================================
