--------------------------- MODULE TerraformApply ----------------------------
(***************************************************************************)
(* The Terraform/Docker environment (gyms/terraform_docker_apply.py):      *)
(* terraform runs as a subprocess in a working directory, without a lock   *)
(* on the state file there, and creates or destroys one container; verify  *)
(* and teardown poll `docker inspect`.  All of it is synchronous code in   *)
(* coroutines: while one handler runs, no other environment of the same    *)
(* Python process takes a step.  Environments of other processes do.       *)
(*                                                                         *)
(* terraform and the Docker daemon are external.  A run of terraform reads *)
(* the state, changes containers and writes the state, and the timeout of  *)
(* subprocess.run may kill it between any two of these.                    *)
(***************************************************************************)
EXTENDS Naturals, FiniteSets

CONSTANTS
  Envs,       \* environments; each one's container is named after it (uuid4)
  DirOf,      \* [Envs -> working directories]
  ProcOf,     \* [Envs -> Python processes]
  Ops,        \* calls made: bindings of Cmds, "verify" and "checkpoint"
  MaxActs,    \* bound: actuations per environment
  Faults,     \* a subset of {"daemon", "timeout", "stop", "init"}
  None

Cmds == {"plan", "apply", "destroy"}

TerraformAssumption ==
  /\ MaxActs \in Nat
  /\ Ops \subseteq Cmds \cup {"verify", "checkpoint"}
  /\ Faults \subseteq {"daemon", "timeout", "stop", "init"}

Dirs == {DirOf[e] : e \in Envs}

VARIABLES
  box,       \* external: [Envs -> "absent", "running" or "stopped"]
  daemon,    \* external: whether the Docker daemon answers
  tf,        \* external: [Dirs -> the container the state file records, or None]
  env,       \* [Envs -> "none", "open" or "closed"]
  inited,    \* [Envs -> init_returncode = 0]
  book,      \* [Envs -> the return codes recorded in _state]
  saved,     \* [Envs -> a checkpoint of _state, or None]
  run,       \* [Envs -> the handler in progress]
  acts,      \* [Envs -> actuations so far]
  out,       \* [Envs -> how teardown() ended]
  verdict    \* [Envs -> the last answer of verify(), with its evidence]

vars == <<box, daemon, tf, env, inited, book, saved, run, acts, out, verdict>>
world == <<box, daemon, tf>>

Idle == [at |-> "idle", cmd |-> None, by |-> None, had |-> None, new |-> None,
         expired |-> FALSE, want |-> FALSE]
NoBook == [plan |-> None, apply |-> None, destroy |-> None]
NoVerdict == [passed |-> FALSE, want |-> FALSE, was |-> "absent", told |-> FALSE,
              late |-> FALSE]

TypeOK ==
  /\ box \in [Envs -> {"absent", "running", "stopped"}]
  /\ daemon \in BOOLEAN
  /\ tf \in [Dirs -> Envs \cup {None}]
  /\ env \in [Envs -> {"none", "open", "closed"}]
  /\ inited \in [Envs -> BOOLEAN]
  /\ \A e \in Envs : \A c \in DOMAIN NoBook : book[e][c] \in {None, 0, 1}
  /\ \A e \in Envs : run[e].at \in {"idle", "read", "change", "write", "poll", "check"}
  /\ acts \in [Envs -> 0..MaxActs]
  /\ out \in [Envs -> {"none", "clean", "unanswered", "raised"}]

Init ==
  /\ box = [e \in Envs |-> "absent"] /\ daemon = TRUE /\ tf = [d \in Dirs |-> None]
  /\ env = [e \in Envs |-> "none"] /\ inited = [e \in Envs |-> FALSE]
  /\ book = [e \in Envs |-> NoBook] /\ saved = [e \in Envs |-> None]
  /\ run = [e \in Envs |-> Idle] /\ acts = [e \in Envs |-> 0]
  /\ out = [e \in Envs |-> "none"] /\ verdict = [e \in Envs |-> NoVerdict]

(* The event loop of e's process is free for e. *)
LoopFree(e) == \A o \in Envs : ProcOf[o] = ProcOf[e] => run[o] = Idle
CanCall(e) == env[e] = "open" /\ LoopFree(e)

-----------------------------------------------------------------------------
(* The world *)

DaemonFlips ==
  /\ "daemon" \in Faults /\ daemon' = ~daemon
  /\ UNCHANGED <<box, tf, env, inited, book, saved, run, acts, out, verdict>>

ContainerStops(e) ==
  /\ "stop" \in Faults /\ box[e] = "running" /\ box' = [box EXCEPT ![e] = "stopped"]
  /\ UNCHANGED <<daemon, tf, env, inited, book, saved, run, acts, out, verdict>>

Tick(e) ==
  /\ run[e].at \in {"poll", "check"} /\ ~run[e].expired
  /\ run' = [run EXCEPT ![e].expired = TRUE]
  /\ UNCHANGED <<world, env, inited, book, saved, acts, out, verdict>>

-----------------------------------------------------------------------------
(* Handlers *)

(* materialize(): a failing or late `init` is recorded, not raised. *)
Materialize(e) ==
  /\ env[e] = "none" /\ LoopFree(e)
  /\ env' = [env EXCEPT ![e] = "open"]
  /\ \E ok \in BOOLEAN : /\ ok \/ "init" \in Faults
                         /\ inited' = [inited EXCEPT ![e] = ok]
  /\ UNCHANGED <<world, book, saved, run, acts, out, verdict>>

(* Mutant: the command is started again before the last one ended. *)
Actuate_Unbounded(e, c) ==
  /\ env[e] = "open" /\ c \in Ops /\ acts[e] =< MaxActs
  /\ acts' = [acts EXCEPT ![e] = @ + 1]
  /\ run' = [run EXCEPT ![e] = [Idle EXCEPT !.at = "read", !.cmd = c, !.by = "actuate"]]
  /\ UNCHANGED <<world, env, inited, book, saved, out, verdict>>

(* actuate() runs one terraform command.  The snapshots around it change   *)
(* nothing, also when the timeout of docker inspect makes one of them      *)
(* raise: before the command nothing has begun, after it all is recorded.  *)
Actuate(e, c) ==
  /\ CanCall(e) /\ c \in Ops /\ acts[e] < MaxActs
  /\ acts' = [acts EXCEPT ![e] = @ + 1]
  /\ run' = [run EXCEPT ![e] = [Idle EXCEPT !.at = "read", !.cmd = c, !.by = "actuate"]]
  /\ verdict' = [verdict EXCEPT ![e] = NoVerdict]
  /\ UNCHANGED <<world, env, inited, book, saved, out>>

(* What follows a terraform command that ended with code rc. *)
Ended(e, rc) ==
  /\ book' = [book EXCEPT ![e][run[e].cmd] = rc]
  /\ run' = [run EXCEPT ![e] = IF run[e].by = "teardown"
                                 THEN [Idle EXCEPT !.at = "poll", !.by = "teardown"] ELSE Idle]

(* Mutant: terraform runs in one directory, whatever the configuration. *)
WorkingDir_Fixtures(e) == CHOOSE d \in Dirs : TRUE

WorkingDir(e) == DirOf[e]

(* Refresh: a recorded container that is gone is dropped from the state.   *)
(* Without init, without the daemon, or when the name is taken by a        *)
(* container the state does not record, terraform fails.                   *)
TfReads(e) ==
  /\ run[e].at = "read"
  /\ LET m == tf[WorkingDir(e)]
         had == IF m # None /\ box[m] = "absent" THEN None ELSE m
         taken == run[e].cmd = "apply" /\ had # e /\ box[e] # "absent" IN
     IF inited[e] /\ daemon /\ ~taken
       THEN IF run[e].cmd = "plan"
              THEN Ended(e, 0)
              ELSE /\ run' = [run EXCEPT ![e].at = "change", ![e].had = had]
                   /\ UNCHANGED book
       ELSE Ended(e, 1)
  /\ UNCHANGED <<world, env, inited, saved, acts, out, verdict>>

(* The change: destroy removes the recorded container, whatever its name;  *)
(* apply replaces one of another name and starts its own.                  *)
TfChanges(e) ==
  /\ run[e].at = "change"
  /\ IF daemon
       THEN LET keep == run[e].cmd = "apply" IN
            /\ box' = [o \in Envs |-> CASE keep /\ o = e -> "running"
                                        [] o = run[e].had -> "absent"
                                        [] OTHER -> box[o]]
            /\ run' = [run EXCEPT ![e].at = "write", ![e].new = IF keep THEN e ELSE None]
            /\ UNCHANGED book
       ELSE Ended(e, 1) /\ UNCHANGED box
  /\ UNCHANGED <<daemon, tf, env, inited, saved, acts, out, verdict>>

TfWrites(e) ==
  /\ run[e].at = "write"
  /\ tf' = [tf EXCEPT ![WorkingDir(e)] = run[e].new]
  /\ Ended(e, 0)
  /\ UNCHANGED <<box, daemon, env, inited, saved, acts, out, verdict>>

(* TimeoutExpired: terraform is killed, or docker inspect during a poll,   *)
(* and the exception leaves actuate() with nothing recorded, verify() with *)
(* no verdict, or teardown() through its finally clause.                   *)
TimesOut(e) ==
  /\ "timeout" \in Faults /\ run[e] # Idle
  /\ run' = [run EXCEPT ![e] = Idle]
  /\ IF run[e].by = "teardown"
       THEN env' = [env EXCEPT ![e] = "closed"] /\ out' = [out EXCEPT ![e] = "raised"]
       ELSE UNCHANGED <<env, out>>
  /\ UNCHANGED <<world, inited, book, saved, acts, verdict>>

Teardown(e) ==
  /\ CanCall(e)
  /\ run' = [run EXCEPT ![e] = [Idle EXCEPT !.at = "read", !.cmd = "destroy", !.by = "teardown"]]
  /\ verdict' = [verdict EXCEPT ![e] = NoVerdict]
  /\ UNCHANGED <<world, env, inited, book, saved, acts, out>>

(* _docker_container_json: any failure of the CLI reads as "no container". *)
Inspect(e) == IF daemon THEN box[e] ELSE "absent"

(* Mutant: the exit code of destroy is trusted. *)
TeardownPolls_TrustsDestroy(e) ==
  /\ run[e].at = "poll"
  /\ run' = [run EXCEPT ![e] = Idle]
  /\ env' = [env EXCEPT ![e] = "closed"]
  /\ out' = [out EXCEPT ![e] = IF book[e].destroy = 0 THEN "clean" ELSE "raised"]
  /\ UNCHANGED <<world, inited, book, saved, acts, verdict>>

(* Mutant: the poll for the container's end has no deadline. *)
TeardownPolls_Forever(e) ==
  /\ run[e].at = "poll" /\ Inspect(e) = "absent"
  /\ run' = [run EXCEPT ![e] = Idle]
  /\ env' = [env EXCEPT ![e] = "closed"]
  /\ out' = [out EXCEPT ![e] = "clean"]
  /\ UNCHANGED <<world, inited, book, saved, acts, verdict>>

(* teardown() returns when docker inspect shows no container, or cannot    *)
(* ask the daemon, and raises at the deadline; the environment is closed   *)
(* either way.                                                             *)
TeardownPolls(e) ==
  /\ run[e].at = "poll" /\ (Inspect(e) = "absent" \/ run[e].expired)
  /\ run' = [run EXCEPT ![e] = Idle]
  /\ env' = [env EXCEPT ![e] = "closed"]
  /\ out' = [out EXCEPT ![e] = IF Inspect(e) # "absent" THEN "raised"
                               ELSE IF daemon THEN "clean" ELSE "unanswered"]
  /\ UNCHANGED <<world, inited, book, saved, acts, verdict>>

Verify(e, want) ==
  /\ CanCall(e) /\ "verify" \in Ops
  /\ run' = [run EXCEPT ![e] = [Idle EXCEPT !.at = "check", !.want = want]]
  /\ verdict' = [verdict EXCEPT ![e] = NoVerdict]
  /\ UNCHANGED <<world, env, inited, book, saved, acts, out>>

(* Mutant: a successful apply is taken for a running container. *)
Check_TrustsApply(e) ==
  /\ run[e].at = "check"
  /\ LET ok == (book[e].apply = 0) = run[e].want IN
       /\ ok \/ run[e].expired
       /\ verdict' = [verdict EXCEPT ![e] = [passed |-> ok, want |-> run[e].want,
                                             was |-> box[e], told |-> daemon,
                                             late |-> run[e].expired]]
  /\ run' = [run EXCEPT ![e] = Idle]
  /\ UNCHANGED <<world, env, inited, book, saved, acts, out>>

(* One check of verify() for container_running: a match or the deadline    *)
(* answers.                                                                *)
Check(e) ==
  /\ run[e].at = "check"
  /\ LET ok == (Inspect(e) = "running") = run[e].want IN
       /\ ok \/ run[e].expired
       /\ verdict' = [verdict EXCEPT ![e] = [passed |-> ok, want |-> run[e].want,
                                             was |-> box[e], told |-> daemon,
                                             late |-> run[e].expired]]
  /\ run' = [run EXCEPT ![e] = Idle]
  /\ UNCHANGED <<world, env, inited, book, saved, acts, out>>

Checkpoint(e) ==
  /\ CanCall(e) /\ "checkpoint" \in Ops /\ saved[e] = None /\ saved' = [saved EXCEPT ![e] = book[e]]
  /\ UNCHANGED <<world, env, inited, book, run, acts, out, verdict>>

(* restore() brings the bookkeeping back and not the container. *)
Restore(e) ==
  /\ CanCall(e) /\ saved[e] # None /\ book' = [book EXCEPT ![e] = saved[e]]
  /\ UNCHANGED <<world, env, inited, saved, run, acts, out, verdict>>

-----------------------------------------------------------------------------
Handle(e) ==
  \/ TfReads(e) \/ TfChanges(e) \/ TfWrites(e) \/ TimesOut(e)
  \/ TeardownPolls(e) \/ Check(e)

Call(e) ==
  \/ Materialize(e) \/ Teardown(e) \/ Checkpoint(e) \/ Restore(e)
  \/ \E c \in Ops \cap Cmds : Actuate(e, c)
  \/ \E want \in BOOLEAN : Verify(e, want)

Next ==
  \/ DaemonFlips
  \/ \E e \in Envs : ContainerStops(e) \/ Tick(e) \/ Handle(e) \/ Call(e)

(* A handler that runs goes on and deadlines pass. *)
Spec == Init /\ [][Next]_vars /\ \A e \in Envs : WF_vars(Handle(e)) /\ WF_vars(Tick(e))

-----------------------------------------------------------------------------
(* Properties *)

(* A teardown() that returns with the daemon's answer has lost its         *)
(* container for good, also after a killed apply that terraform's state    *)
(* does not know of, another environment's run in the same directory, or a *)
(* failed destroy.                                                         *)
TeardownIsHonest == \A e \in Envs : out[e] = "clean" => box[e] = "absent"

(* The module's docstring promises that a leaked container is surfaced and *)
(* never a silent success: every teardown() that returns.                  *)
TeardownIsNeverSilent ==
  \A e \in Envs : out[e] \in {"clean", "unanswered"} => box[e] = "absent"

(* A verdict of verify() is the container's state at the poll that gave    *)
(* it: a pass on "running" found it running, a pass on "not running" found *)
(* it so if the daemon answered, and a refusal comes only after the        *)
(* deadline.                                                               *)
VerdictsAreInspected ==
  \A e \in Envs :
    LET v == verdict[e] IN
    /\ v.passed /\ v.want => v.was = "running"
    /\ v.passed /\ ~v.want /\ v.told => v.was # "running"
    /\ ~v.passed /\ v # NoVerdict => v.late

(* The docstring of _docker_container_json takes None for "no container    *)
(* with that exact name exists".  A daemon that does not answer gives it   *)
(* too, so that verify() passes "not running" for a container that runs.   *)
AbsenceIsReal ==
  \A e \in Envs : verdict[e].passed /\ ~verdict[e].want => verdict[e].was # "running"

(* A run of terraform for one environment creates and destroys only that   *)
(* environment's container.                                                *)
TouchesOwnContainer ==
  \A e, o \in Envs : TfChanges(e) /\ box'[o] # box[o] => o = e

(* Handlers end: the process whose event loop they hold gets it back. *)
LoopsAreFreed == \A e \in Envs : run[e] # Idle ~> LoopFree(e)
=============================================================================
