------------------------- MODULE PodReconciliation ---------------------------
(***************************************************************************)
(* The Kubernetes environment (gyms/kubernetes_reconciliation.py): one pod *)
(* applied through kubectl, restarted by deleting and applying it again,   *)
(* verified and torn down by polling `kubectl get pod`.  Changes go to the *)
(* configured context; reads go to the current one.                        *)
(*                                                                         *)
(* The clusters are external: pods are scheduled, run, end and terminate   *)
(* by themselves, the API server may not answer and a kubectl call may run *)
(* out of time, before or after it had its effect.                         *)
(***************************************************************************)
EXTENDS Naturals

CONSTANTS
  Contexts,   \* kubeconfig contexts
  Target,     \* the context changes go to: kubeconfig_context or Current
  Current,    \* the current context, which reads use
  MaxGen,     \* bound: pod instances created
  Faults,     \* a subset of {"unreachable", "timeout", "stuck"}
  None

PodAssumption == MaxGen \in Nat /\ Target \in Contexts /\ Current \in Contexts

Phases == {"Pending", "Running", "Succeeded"}

VARIABLES
  pod,       \* external: [Contexts -> "NotFound", a phase or "Terminating"]
  gen,       \* external: instances created in the target context
  env,       \* "none", "open", "failed" or "closed"
  at,        \* where the running handler is
  expired,   \* the deadline of the running poll has passed
  codes,     \* return codes of the delete and the apply of a restart
  was,       \* history: gen when the running call began
  want,      \* the phase verify() waits for
  answer     \* the last answer of a call, with its evidence

vars == <<pod, gen, env, at, expired, codes, was, want, answer>>

NoCodes == [del |-> None, app |-> None]
NoAnswer == [op |-> "none", end |-> "none", want |-> None, saw |-> None, real |-> None,
             codes |-> NoCodes, fresh |-> FALSE, late |-> FALSE]

TypeOK ==
  /\ pod \in [Contexts -> Phases \cup {"NotFound", "Terminating"}]
  /\ gen \in 0..MaxGen /\ was \in 0..MaxGen
  /\ env \in {"none", "open", "failed", "closed"}
  /\ at \in {"idle", "delete", "apply", "after", "verify", "poll", "teardown"}
  /\ expired \in BOOLEAN
  /\ want \in Phases \cup {"NotFound", None}
  /\ answer.end \in {"none", "returned", "raised"}
  /\ at # "idle" => env = "open"

Init ==
  /\ pod = [c \in Contexts |-> "NotFound"] /\ gen = 0
  /\ env = "none" /\ at = "idle" /\ expired = FALSE
  /\ codes = NoCodes /\ was = 0 /\ want = None /\ answer = NoAnswer

-----------------------------------------------------------------------------
(* The target cluster *)

Real == pod[Target]
SetPod(p) == pod' = [pod EXCEPT ![Target] = p]

PodMoves ==
  /\ \/ Real = "Pending" /\ SetPod("Running")
     \/ Real = "Running" /\ SetPod("Succeeded")
     \/ Real = "Terminating" /\ "stuck" \notin Faults /\ SetPod("NotFound")
  /\ UNCHANGED <<gen, env, at, expired, codes, was, want, answer>>

Tick ==
  /\ at \in {"verify", "poll"} /\ ~expired /\ expired' = TRUE
  /\ UNCHANGED <<pod, gen, env, at, codes, was, want, answer>>

(* kubectl apply: a pod that exists, also a terminating one, is left       *)
(* alone; a missing one is created.                                        *)
Applied ==
  IF Real = "NotFound" THEN gen < MaxGen /\ SetPod("Pending") /\ gen' = gen + 1
                       ELSE UNCHANGED <<pod, gen>>
Deleted == (IF Real = "NotFound" THEN UNCHANGED pod ELSE SetPod("Terminating")) /\ UNCHANGED gen
Nothing == UNCHANGED <<pod, gen>>

-----------------------------------------------------------------------------
(* Reads *)

(* _get_pod_json: any failure of kubectl reads as "no such pod". *)
Read(real) == IF "unreachable" \in Faults THEN {real, "NotFound"} ELSE {real}

(* _state: the phase of the pod in the current context.  A pod that        *)
(* terminates still has one, whichever it was in.                          *)
Seen ==
  IF pod[Current] = "Terminating" THEN UNION {Read(p) : p \in Phases} ELSE Read(pod[Current])

Answer(op, end, saw) ==
  /\ answer' = [op |-> op, end |-> end, want |-> want, saw |-> saw, real |-> Real,
                codes |-> codes, fresh |-> gen > was, late |-> expired]
  /\ at' = "idle"

(* kubectl get has a timeout of its own, which no caller catches. *)
ReadRaises(op) == "timeout" \in Faults /\ Answer(op, "raised", None)

-----------------------------------------------------------------------------
(* Handlers *)

(* The constructor raises for a failed apply, also for one that had its    *)
(* effect before the return code or in spite of the timeout.               *)
Materialize ==
  /\ env = "none" /\ at = "idle"
  /\ \/ Applied /\ env' = "open"
     \/ "timeout" \in Faults /\ (Applied \/ Nothing) /\ env' = "failed"
     \/ "unreachable" \in Faults /\ Nothing /\ env' = "failed"
  /\ UNCHANGED <<at, expired, codes, was, want, answer>>

Idle == env = "open" /\ at = "idle"

(* observe() and the get_status binding; also a restart whose snapshot     *)
(* before raises.                                                          *)
Observe ==
  /\ Idle
  /\ ReadRaises("observe") \/ \E s \in Seen : Answer("observe", "returned", s)
  /\ UNCHANGED <<pod, gen, env, expired, codes, was, want>>

ScaleRestart ==
  /\ Idle /\ gen < MaxGen
  /\ at' = "delete" /\ was' = gen /\ codes' = NoCodes
  /\ UNCHANGED <<pod, gen, env, expired, want, answer>>

(* Mutant: the delete of a restart does not wait for the pod's end. *)
RestartDeletes_NoWait ==
  /\ at = "delete" /\ Deleted /\ at' = "apply" /\ codes' = [codes EXCEPT !.del = 0]
  /\ UNCHANGED <<env, expired, was, want, answer>>

(* delete --wait=true: it returns 0 once the pod is gone, fails for a pod  *)
(* that is not there or a server that does not answer, and TimeoutExpired  *)
(* leaves actuate() with the pod terminating and nothing applied again.    *)
RestartDeletes ==
  /\ at = "delete"
  /\ \/ /\ Real \notin {"NotFound", "Terminating"} /\ Deleted
        /\ UNCHANGED <<at, codes, answer>>
     \/ /\ Real = "NotFound" /\ Nothing
        /\ \E c \in {0, 1} : codes' = [codes EXCEPT !.del = c]
        /\ at' = "apply" /\ UNCHANGED answer
     \/ /\ "unreachable" \in Faults /\ Nothing
        /\ codes' = [codes EXCEPT !.del = 1] /\ at' = "apply" /\ UNCHANGED answer
     \/ /\ "timeout" \in Faults /\ Nothing
        /\ Answer("restart", "raised", None) /\ UNCHANGED codes
  /\ UNCHANGED <<env, expired, was, want>>

(* The apply runs whatever the delete returned; its code is reported only. *)
RestartApplies ==
  /\ at = "apply"
  /\ \/ Applied /\ codes' = [codes EXCEPT !.app = 0] /\ at' = "after" /\ UNCHANGED answer
     \/ /\ "unreachable" \in Faults /\ Nothing
        /\ codes' = [codes EXCEPT !.app = 1] /\ at' = "after" /\ UNCHANGED answer
     \/ /\ "timeout" \in Faults /\ (Applied \/ Nothing) /\ UNCHANGED codes
        /\ Answer("restart", "raised", None)
  /\ UNCHANGED <<env, expired, was, want>>

RestartReturns ==
  /\ at = "after"
  /\ ReadRaises("restart") \/ \E s \in Seen : Answer("restart", "returned", s)
  /\ UNCHANGED <<pod, gen, env, expired, codes, was, want>>

Verify(p) ==
  /\ Idle /\ at' = "verify" /\ want' = p /\ expired' = FALSE
  /\ UNCHANGED <<pod, gen, env, codes, was, answer>>

(* Mutant: a pod that was applied is taken for a running one. *)
VerifyPolls_TrustsApply ==
  /\ at = "verify"
  /\ IF want \in {"Pending", "Running"} THEN Answer("verify", "returned", want)
     ELSE \E s \in Seen : (s = want \/ expired) /\ Answer("verify", "returned", s)
  /\ UNCHANGED <<pod, gen, env, expired, codes, was, want>>

(* Mutant: the poll has no deadline. *)
VerifyPolls_Forever ==
  /\ at = "verify"
  /\ \E s \in Seen : s = want /\ Answer("verify", "returned", s)
  /\ UNCHANGED <<pod, gen, env, expired, codes, was, want>>

(* poll_until ends with a match, with the deadline or with a read that     *)
(* raises; any other read is followed by another.                          *)
VerifyPolls ==
  /\ at = "verify"
  /\ \/ ReadRaises("verify")
     \/ \E s \in Seen : (s = want \/ expired) /\ Answer("verify", "returned", s)
  /\ UNCHANGED <<pod, gen, env, expired, codes, was, want>>

(* Mutant: the environment is marked closed before anything is deleted. *)
Teardown_ClosesFirst ==
  /\ Idle /\ was' = gen /\ env' = "closed"
  /\ Deleted /\ at' = "poll" /\ expired' = FALSE
  /\ UNCHANGED <<codes, want, answer>>

(* teardown(): the delete, whose code is ignored; its TimeoutExpired       *)
(* leaves through the finally clause.                                      *)
Teardown ==
  /\ Idle /\ was' = gen
  /\ \/ Deleted /\ at' = "poll" /\ UNCHANGED <<env, answer>>
     \/ "unreachable" \in Faults /\ Nothing /\ at' = "poll" /\ UNCHANGED <<env, answer>>
     \/ /\ "timeout" \in Faults /\ (Deleted \/ Nothing)
        /\ Answer("teardown", "raised", None) /\ env' = "closed"
  /\ expired' = FALSE
  /\ UNCHANGED <<codes, want>>

(* Mutant: the poll for the pod's end is left out. *)
TeardownPolls_NoPoll ==
  /\ at = "poll" /\ env' = "closed" /\ Answer("teardown", "returned", None)
  /\ UNCHANGED <<pod, gen, expired, codes, was, want>>

(* The poll ends with the pod or with the deadline, and its result is not  *)
(* used: teardown() returns either way.  A read that raises leaves through *)
(* the finally clause too.                                                 *)
TeardownPolls ==
  /\ at = "poll"
  /\ \/ ReadRaises("teardown")
     \/ \E s \in Seen : (s = "NotFound" \/ expired) /\ Answer("teardown", "returned", s)
  /\ env' = "closed"
  /\ UNCHANGED <<pod, gen, expired, codes, was, want>>

-----------------------------------------------------------------------------
Handle ==
  \/ RestartDeletes \/ RestartApplies \/ RestartReturns \/ VerifyPolls \/ TeardownPolls

Next ==
  \/ PodMoves \/ Tick \/ Materialize \/ Handle
  \/ Observe \/ ScaleRestart \/ Teardown
  \/ \E p \in Phases \cup {"NotFound"} : Verify(p)

(* Handlers go on, deadlines pass, and the cluster moves pods along. *)
Spec == Init /\ [][Next]_vars /\ WF_vars(Handle) /\ WF_vars(Tick) /\ WF_vars(PodMoves)

-----------------------------------------------------------------------------
(* Properties *)

(* A phase that verify() answers with is one of the target's pod at the    *)
(* poll that gave it, never one inferred from an accepted manifest, and    *)
(* another phase than the expected one is the answer only at the deadline. *)
(* "NotFound" says so much only of a server that answered.                 *)
VerdictsAreReal ==
  answer.op = "verify" /\ answer.end = "returned" =>
    /\ answer.saw \in Phases => answer.real \in {answer.saw, "Terminating"}
    /\ answer.saw = "NotFound" /\ "unreachable" \notin Faults => answer.real = "NotFound"
    /\ answer.saw = answer.want \/ answer.late

(* The docstring of _get_pod_json takes None for a real NotFound.  Any     *)
(* failure of kubectl gives it, so that verify() passes "NotFound" for a   *)
(* pod that runs.                                                          *)
NotFoundIsReal ==
  answer.op = "verify" /\ answer.saw = "NotFound" => answer.real = "NotFound"

(* The class docstring and the comment in teardown() promise that the pod  *)
(* in the cluster of the context is read, and that its deletion is         *)
(* confirmed: whoever gets an answer that the pod is gone finds it gone.   *)
DeletionIsConfirmed ==
  answer.op = "teardown" /\ answer.end = "returned" => answer.real = "NotFound"

(* Short of that: with every read answered by the target cluster, a        *)
(* teardown that returns before its deadline has seen the pod's end.       *)
EarlyTeardownsAreClean ==
  answer.op = "teardown" /\ answer.end = "returned" /\ ~answer.late =>
    answer.real = "NotFound"

(* A restart that reports two zero codes has replaced the pod by a new     *)
(* instance, whatever the cluster did between delete and apply.            *)
RestartsReschedule ==
  answer.op = "restart" /\ answer.codes = [del |-> 0, app |-> 0] => answer.fresh

(* Every handler ends; only a pod that never terminates holds a restart up *)
(* (until the delete's timeout).                                           *)
HandlersEnd == at # "idle" ~> at = "idle"
=============================================================================
