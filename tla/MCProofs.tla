------------------------------- MODULE MCProofs ------------------------------
(***************************************************************************)
(* What the runs of MCControllers and MCAgents check of their situations   *)
(* follows from the theorems about the components, which hold for every    *)
(* situation: AutomationProofs and ExecutionLoopProofs for the drivers,    *)
(* AgentProofs for the agents.  The inductive invariant of the one that a  *)
(* behaviour is about holds initially and is kept by its steps; the others *)
(* do not move.                                                            *)
(***************************************************************************)
EXTENDS MCControllers, MCAgents, TLAPS

-----------------------------------------------------------------------------
(* The drivers of the kernel *)

ControllersInvariant ==
  /\ driver = "crown_shared" => Shared!EffectInvariant
  /\ driver = "crown_refusals" => Refusals!EffectInvariant
  /\ driver = "crown_retry" => Retries!EffectInvariant
  /\ driver = "crown_admission" => Admits!EffectInvariant
  /\ driver = "batch_keys" => BKeys!AutomationInvariant /\ BKeys!KeyInvariant
  /\ driver = "batch_outages" => BOut!AutomationInvariant
  /\ driver = "loop" => Loop!Base /\ Loop!BudgetInvariant
  /\ driver = "loop_outages" => LoopOut!Base /\ LoopOut!BudgetInvariant

DriverSituations ==
  {"crown_shared", "crown_refusals", "crown_retry", "crown_admission", "batch_keys",
   "batch_outages", "loop", "loop_outages"}

(* The driver of a behaviour begins in its invariant. *)
LEMMA ControllersInit ==
  ASSUME Init
  PROVE  ControllersInvariant
<1>1. driver = "crown_shared" => Shared!EffectInvariant
  <2>1. driver = "crown_shared" => Shared!CrownInit({"e1"})
    BY DEF Init
  <2> QED
    BY <2>1, ControllerAssumption, Shared!InitEffects
<1>2. driver = "crown_refusals" => Refusals!EffectInvariant
  <2>1. driver = "crown_refusals" => Refusals!CrownInit({"e1"})
    BY DEF Init
  <2> QED
    BY <2>1, ControllerAssumption, Refusals!InitEffects
<1>3. driver = "crown_retry" => Retries!EffectInvariant
  <2>1. driver = "crown_retry" => Retries!CrownInit(Retriers)
    BY DEF Init
  <2> QED
    BY <2>1, ControllerAssumption, Retries!InitEffects
<1>4. driver = "crown_admission" => Admits!EffectInvariant
  <2>1. driver = "crown_admission" => Admits!CrownInit({"e1"})
    BY DEF Init
  <2> QED
    BY <2>1, ControllerAssumption, Admits!InitEffects
<1>5. driver = "batch_keys" => BKeys!AutomationInvariant /\ BKeys!KeyInvariant
  <2>1. driver = "batch_keys" => BKeys!Init
    BY DEF Init
  <2> QED
    BY <2>1, ControllerAssumption, BKeys!InitAutomation, BKeys!InitKeys
<1>6. driver = "batch_outages" => BOut!AutomationInvariant
  <2>1. driver = "batch_outages" => BOut!Init
    BY DEF Init
  <2> QED
    BY <2>1, ControllerAssumption, BOut!InitAutomation
<1>7. Loop!Base /\ Loop!BudgetInvariant
  <2>1. Loop!Init
    BY DEF Init
  <2> QED
    BY <2>1, ControllerAssumption, Loop!InitClaims
<1>8. driver = "loop_outages" => LoopOut!Base /\ LoopOut!BudgetInvariant
  <2>1. driver = "loop_outages" => LoopOut!Init
    <3>1. Loop!Init /\ (driver = "loop_outages" => sha = 0)
      BY DEF Init
    <3> QED
      BY <3>1 DEF Loop!Init, LoopOut!Init, Loop!NoRun, LoopOut!NoRun, Loop!NoResult,
         LoopOut!NoResult
  <2> QED
    BY <2>1, ControllerAssumption, LoopOut!InitClaims
<1> QED
  BY <1>1, <1>2, <1>3, <1>4, <1>5, <1>6, <1>7, <1>8 DEF ControllersInvariant

(* A step is one of the driver that the behaviour is about, or none. *)
LEMMA ControllersStep ==
  ASSUME ControllersInvariant, [Next]_vars
  PROVE  ControllersInvariant'
<1>1. driver' = driver
  BY DEF Next, vars
<1>2. CASE driver = "crown_shared"
  <2>1. [Shared!CrownNext]_Shared!crownVars
    BY <1>2 DEF Next, vars, crown, Shared!crownVars, Shared!execVars, Shared!kernelVars
  <2> QED
    BY <1>1, <1>2, <2>1, ControllerAssumption, Shared!NextEffects DEF ControllersInvariant
<1>3. CASE driver = "crown_refusals"
  <2>1. [Refusals!CrownNext]_Refusals!crownVars
    BY <1>3 DEF Next, vars, crown, Refusals!crownVars, Refusals!execVars, Refusals!kernelVars
  <2> QED
    BY <1>1, <1>3, <2>1, ControllerAssumption, Refusals!NextEffects DEF ControllersInvariant
<1>4. CASE driver = "crown_retry"
  <2>1. [Retries!CrownNext]_Retries!crownVars
    BY <1>4 DEF Next, vars, crown, Retries!crownVars, Retries!execVars, Retries!kernelVars
  <2> QED
    BY <1>1, <1>4, <2>1, ControllerAssumption, Retries!NextEffects DEF ControllersInvariant
<1>5. CASE driver = "crown_admission"
  <2>1. [Admits!CrownNext]_Admits!crownVars
    BY <1>5 DEF Next, vars, crown, Admits!crownVars, Admits!execVars, Admits!kernelVars
  <2> QED
    BY <1>1, <1>5, <2>1, ControllerAssumption, Admits!NextEffects DEF ControllersInvariant
<1>6. CASE driver = "batch_keys"
  <2>1. [BKeys!Next]_BKeys!vars
    BY <1>6 DEF Next, vars, crown, control, BKeys!vars, BKeys!controlVars, BKeys!crownVars,
       BKeys!execVars, BKeys!kernelVars
  <2> QED
    BY <1>1, <1>6, <2>1, ControllerAssumption, BKeys!NextAutomation, BKeys!NextKeys
       DEF ControllersInvariant
<1>7. CASE driver = "batch_outages"
  <2>1. [BOut!Next]_BOut!vars
    BY <1>7 DEF Next, vars, crown, control, BOut!vars, BOut!controlVars, BOut!crownVars,
       BOut!execVars, BOut!kernelVars
  <2> QED
    BY <1>1, <1>7, <2>1, ControllerAssumption, BOut!NextAutomation
       DEF ControllersInvariant
<1>8. CASE driver = "loop"
  <2>1. [Loop!Next]_Loop!vars
    BY <1>8 DEF Next, vars, loop, Loop!vars, Loop!memory, Loop!outside
  <2> QED
    BY <1>1, <1>8, <2>1, ControllerAssumption, Loop!NextClaims DEF ControllersInvariant
<1>9. CASE driver = "loop_outages"
  <2>1. [LoopOut!Next]_LoopOut!vars
    BY <1>9 DEF Next, vars, loop, LoopOut!vars, LoopOut!memory, LoopOut!outside
  <2> QED
    BY <1>1, <1>9, <2>1, ControllerAssumption, LoopOut!NextClaims DEF ControllersInvariant
<1>10. CASE driver \notin DriverSituations
  BY <1>1, <1>10 DEF ControllersInvariant, DriverSituations
<1> QED
  BY <1>2, <1>3, <1>4, <1>5, <1>6, <1>7, <1>8, <1>9, <1>10 DEF DriverSituations

(* So every situation has its invariant. *)
LEMMA ControllersSafety == Spec => []ControllersInvariant
  BY ControllersInit, ControllersStep, PTL DEF Spec

(* The properties of the run of MCControllers *)

(* ALIVE stands on receipts and effects, for the broker on shared worlds,  *)
(* over retries, and inside batches whose runs share keys.                 *)
THEOREM ControllersAlive == Spec => []AliveIsEvidenced
<1>1. ASSUME ControllersInvariant
      PROVE  AliveIsEvidenced
  <2>1. driver = "crown_shared" => Shared!AliveIsEvidenced /\ Shared!CrownInvariant
    BY <1>1, ControllerAssumption, Shared!EffectClaims
       DEF ControllersInvariant, Shared!EffectInvariant
  <2>2. driver = "crown_retry" => Retries!AliveIsEvidenced /\ Retries!CrownInvariant
    BY <1>1, ControllerAssumption, Retries!EffectClaims
       DEF ControllersInvariant, Retries!EffectInvariant
  <2>3. driver = "batch_keys" => BKeys!AliveIsEvidenced /\ BKeys!AutomationInvariant
    BY <1>1, ControllerAssumption, BKeys!AutomationClaims DEF ControllersInvariant
  <2> QED
    BY <2>1, <2>2, <2>3 DEF AliveIsEvidenced
<1> QED
  BY <1>1, ControllersSafety, PTL

(* Effects are admitted, told and not repeated, and the loop's claims stay *)
(* within its budgets, in all the situations.                              *)
THEOREM ControllersEffects == Spec => []EffectsAreAccountedFor
<1>1. ASSUME ControllersInvariant
      PROVE  EffectsAreAccountedFor
  <2>1. driver = "crown_shared" => Shared!EffectsAreAccountedFor
    BY <1>1, ControllerAssumption, Shared!EffectClaims DEF ControllersInvariant
  <2>2. driver = "crown_refusals" => Refusals!EffectsAreAccountedFor
    BY <1>1, ControllerAssumption, Refusals!EffectClaims DEF ControllersInvariant
  <2>3. driver = "crown_retry" => Retries!EffectsAreAccountedFor
    BY <1>1, ControllerAssumption, Retries!EffectClaims DEF ControllersInvariant
  <2>4. driver = "crown_admission" => Admits!EffectsAreAccountedFor
    BY <1>1, ControllerAssumption, Admits!EffectClaims DEF ControllersInvariant
  <2>5. driver = "batch_keys" => BKeys!KeysActOnce /\ BKeys!KeyInvariant
    BY <1>1, ControllerAssumption, BKeys!KeyClaims DEF ControllersInvariant
  <2>6. driver = "loop" => Loop!TypeOK /\ Loop!ClaimsAreBounded
    BY <1>1, ControllerAssumption, Loop!ClaimBound DEF ControllersInvariant
  <2>7. driver = "loop_outages" => LoopOut!ClaimsAreBounded
    BY <1>1, ControllerAssumption, LoopOut!ClaimBound DEF ControllersInvariant
  <2> QED
    BY <2>1, <2>2, <2>3, <2>4, <2>5, <2>6, <2>7 DEF EffectsAreAccountedFor
<1> QED
  BY <1>1, ControllersSafety, PTL

(* A batch whose collaborators fail returns an outcome per request, and    *)
(* says of each world it leaves behind that it does.                       *)
THEOREM ControllersLeaks == Spec => []LeaksAreTold
<1>1. ASSUME ControllersInvariant
      PROVE  LeaksAreTold
  BY <1>1, ControllerAssumption, BOut!AutomationClaims DEF ControllersInvariant, LeaksAreTold
<1> QED
  BY <1>1, ControllersSafety, PTL

-----------------------------------------------------------------------------
(* The agents *)

AgentsInvariant ==
  /\ agent = "epistemic_rounds" => First!E!EpistemicInvariant
  /\ agent = "epistemic_demands" => Second!E!EpistemicInvariant
  /\ agent = "diagnosis_admits" => First!G!DiagnosisInvariant
  /\ agent = "diagnosis_records" => Second!G!DiagnosisInvariant
  /\ agent = "diagnosis_fails" => Third!G!DiagnosisInvariant
  /\ agent = "react_runs" => First!R!ReactInvariant
  /\ agent = "react_fresh" => Second!R!ReactInvariant
  /\ agent = "harness_steps" => First!HarnessTransaction
  /\ agent = "harness_chain" => Second!HarnessTransaction

AgentSituations ==
  {"epistemic_rounds", "epistemic_demands", "diagnosis_admits", "diagnosis_records",
   "diagnosis_fails", "react_runs", "react_fresh", "harness_steps", "harness_chain"}

(* Each agent begins in its invariant. *)
LEMMA AgentsInit ==
  ASSUME AgentInit
  PROVE  AgentsInvariant
<1>1. First!E!EpistemicInvariant /\ Second!E!EpistemicInvariant
  <2>1. First!E!Init /\ Second!E!Init
    BY DEF AgentInit, First!E!Init, Second!E!Init, First!E!NoResult, Second!E!NoResult
  <2> QED
    BY <2>1, AgentAssumption, First!EpistemicInit, Second!EpistemicInit
<1>2. /\ First!G!DiagnosisInvariant /\ Second!G!DiagnosisInvariant
      /\ Third!G!DiagnosisInvariant
  <2>1. First!G!Init /\ Second!G!Init /\ Third!G!Init
    BY DEF AgentInit, First!G!Init, Second!G!Init, Third!G!Init,
       First!G!NoHypothesis, Second!G!NoHypothesis, Third!G!NoHypothesis
  <2> QED
    BY <2>1, AgentAssumption, First!DiagnosisInit, Second!DiagnosisInit, Third!DiagnosisInit
<1>3. First!R!ReactInvariant /\ Second!R!ReactInvariant
  <2>1. First!R!Init /\ Second!R!Init
    BY DEF AgentInit, First!R!Init, Second!R!Init, First!R!NoCall, Second!R!NoCall
  <2> QED
    BY <2>1, AgentAssumption, First!ReactInit, Second!ReactInit
<1>4. First!HarnessTransaction /\ Second!HarnessTransaction
  <2>1. First!H!Init /\ Second!H!Init
    BY DEF AgentInit, First!H!Init, Second!H!Init, First!H!NoAction, Second!H!NoAction,
       First!H!Nothing, Second!H!Nothing, First!H!None, Second!H!None
  <2> QED
    BY <2>1, AgentAssumption, First!TransactionInit, Second!TransactionInit
<1> QED
  BY <1>1, <1>2, <1>3, <1>4 DEF AgentsInvariant

(* A step is one of the agent that the behaviour is about, or none. *)
LEMMA AgentsStep ==
  ASSUME AgentsInvariant, [AgentNext]_agentVars
  PROVE  AgentsInvariant'
<1>1. agent' = agent
  BY DEF AgentNext, agentVars
<1>2. CASE agent = "epistemic_rounds"
  <2>1. [First!E!Next]_First!E!vars
    BY <1>2 DEF AgentNext, agentVars, epistemic, First!E!vars
  <2> QED
    BY <1>1, <1>2, <2>1, AgentAssumption, First!EpistemicStep DEF AgentsInvariant
<1>3. CASE agent = "epistemic_demands"
  <2>1. [Second!E!Next]_Second!E!vars
    BY <1>3 DEF AgentNext, agentVars, epistemic, Second!E!vars
  <2> QED
    BY <1>1, <1>3, <2>1, AgentAssumption, Second!EpistemicStep DEF AgentsInvariant
<1>4. CASE agent = "diagnosis_admits"
  <2>1. [First!G!Next]_First!G!vars
    BY <1>4 DEF AgentNext, agentVars, diagnosis, First!G!vars
  <2> QED
    BY <1>1, <1>4, <2>1, AgentAssumption, First!DiagnosisStep DEF AgentsInvariant
<1>5. CASE agent = "diagnosis_records"
  <2>1. [Second!G!Next]_Second!G!vars
    BY <1>5 DEF AgentNext, agentVars, diagnosis, Second!G!vars
  <2> QED
    BY <1>1, <1>5, <2>1, AgentAssumption, Second!DiagnosisStep DEF AgentsInvariant
<1>6. CASE agent = "diagnosis_fails"
  <2>1. [Third!G!Next]_Third!G!vars
    BY <1>6 DEF AgentNext, agentVars, diagnosis, Third!G!vars
  <2> QED
    BY <1>1, <1>6, <2>1, AgentAssumption, Third!DiagnosisStep DEF AgentsInvariant
<1>7. CASE agent = "react_runs"
  <2>1. [First!R!Next]_First!R!vars
    BY <1>7 DEF AgentNext, agentVars, react, First!R!vars
  <2> QED
    BY <1>1, <1>7, <2>1, AgentAssumption, First!ReactStep DEF AgentsInvariant
<1>8. CASE agent = "react_fresh"
  <2>1. [Second!R!Next]_Second!R!vars
    BY <1>8 DEF AgentNext, agentVars, react, Second!R!vars
  <2> QED
    BY <1>1, <1>8, <2>1, AgentAssumption, Second!ReactStep DEF AgentsInvariant
<1>9. CASE agent = "harness_steps"
  <2>1. [First!H!Next]_First!H!vars
    BY <1>9 DEF AgentNext, agentVars, harness, First!H!vars, First!H!sessionVars,
       First!H!kernelVars, First!H!localVars, First!H!ghosts
  <2> QED
    BY <1>1, <1>9, <2>1, AgentAssumption, First!TransactionStep DEF AgentsInvariant
<1>10. CASE agent = "harness_chain"
  <2>1. [Second!H!Next]_Second!H!vars
    BY <1>10 DEF AgentNext, agentVars, harness, Second!H!vars, Second!H!sessionVars,
       Second!H!kernelVars, Second!H!localVars, Second!H!ghosts
  <2> QED
    BY <1>1, <1>10, <2>1, AgentAssumption, Second!TransactionStep DEF AgentsInvariant
<1>11. CASE agent \notin AgentSituations
  BY <1>1, <1>11 DEF AgentsInvariant, AgentSituations
<1> QED
  BY <1>2, <1>3, <1>4, <1>5, <1>6, <1>7, <1>8, <1>9, <1>10, <1>11 DEF AgentSituations

(* So every situation has its invariant. *)
LEMMA AgentsSafety == AgentSpec => []AgentsInvariant
  BY AgentsInit, AgentsStep, PTL DEF AgentSpec

(* The properties of the run of MCAgents *)

(* Every agent keeps what a model says only as far as the program saw it,  *)
(* and the tool-calling agent ends on a world it has seen but for changes  *)
(* by others and by acts not accepted or not looked at, in all situations. *)
THEOREM AgentClaims == AgentSpec => []ClaimsAreGrounded
<1>1. ASSUME AgentsInvariant
      PROVE  ClaimsAreGrounded
  <2>1. agent = "epistemic_rounds" => First!E!ClaimsAreGrounded
    BY <1>1 DEF AgentsInvariant, First!E!EpistemicInvariant
  <2>2. agent = "epistemic_demands" => Second!E!ClaimsAreGrounded
    BY <1>1 DEF AgentsInvariant, Second!E!EpistemicInvariant
  <2>3. agent = "diagnosis_admits" => First!G!ClaimsAreGrounded
    BY <1>1 DEF AgentsInvariant, First!G!DiagnosisInvariant
  <2>4. agent = "diagnosis_records" => Second!G!ClaimsAreGrounded
    BY <1>1 DEF AgentsInvariant, Second!G!DiagnosisInvariant
  <2>5. agent = "react_runs" => First!R!ClaimsAreGrounded /\ First!R!ReactInvariant
    BY <1>1 DEF AgentsInvariant, First!R!ReactInvariant
  <2>6. agent = "react_fresh" => Second!R!ClaimsAreGrounded /\ Second!R!ReactInvariant
    BY <1>1 DEF AgentsInvariant, Second!R!ReactInvariant
  <2> QED
    BY <2>1, <2>2, <2>3, <2>4, <2>5, <2>6 DEF ClaimsAreGrounded
<1> QED
  BY <1>1, AgentsSafety, PTL

(* Consequences come after admission, in all the situations. *)
THEOREM AgentOrder == AgentSpec => []ActsFollowAdmission
<1>1. ASSUME AgentsInvariant
      PROVE  ActsFollowAdmission
  <2>1. agent = "epistemic_rounds" => First!E!ActsFollowAdmission /\ First!E!EpistemicInvariant
    BY <1>1 DEF AgentsInvariant, First!E!EpistemicInvariant
  <2>2. agent = "epistemic_demands" => Second!E!ActsFollowAdmission /\ Second!E!EpistemicInvariant
    BY <1>1 DEF AgentsInvariant, Second!E!EpistemicInvariant
  <2>3. agent = "diagnosis_admits" => First!G!ActsFollowAdmission /\ First!G!DiagnosisInvariant
    BY <1>1 DEF AgentsInvariant, First!G!DiagnosisInvariant
  <2>4. agent = "diagnosis_records" => Second!G!ActsFollowAdmission /\ Second!G!DiagnosisInvariant
    BY <1>1 DEF AgentsInvariant, Second!G!DiagnosisInvariant
  <2>5. agent = "diagnosis_fails" => Third!G!ActsFollowAdmission /\ Third!G!DiagnosisInvariant
    BY <1>1 DEF AgentsInvariant, Third!G!DiagnosisInvariant
  <2> QED
    BY <2>1, <2>2, <2>3, <2>4, <2>5 DEF ActsFollowAdmission
<1> QED
  BY <1>1, AgentsSafety, PTL

(* The guarded session and the chain keep the harness's transaction, with  *)
(* its exceptions for acts that land late and materializations that raise. *)
THEOREM AgentTransactions == AgentSpec => []HarnessIsTransactional
<1>1. ASSUME AgentsInvariant
      PROVE  HarnessIsTransactional
  <2>1. agent = "harness_steps" => First!H!HarnessIsTransactional
    BY <1>1, First!TransactionClaims DEF AgentsInvariant
  <2>2. agent = "harness_chain" => Second!H!HarnessIsTransactional
    BY <1>1, Second!TransactionClaims DEF AgentsInvariant
  <2> QED
    BY <2>1, <2>2 DEF HarnessIsTransactional
<1> QED
  BY <1>1, AgentsSafety, PTL
=============================================================================
