------------------------------- MODULE Sregym --------------------------------
(***************************************************************************)
(* The SREGym environment (gyms/sregym.py) over the bounded polling helper *)
(* (polling.py): one subprocess, main.py, in a process group of its own    *)
(* with the children it spawns; a constructor that waits until the         *)
(* conductor API and the MCP port are reachable; tool calls over a client  *)
(* opened for each call; verification by polling /status; and the kill of  *)
(* the process group, shared by the failed start and by teardown.          *)
(*                                                                         *)
(* The subprocess, its children and the network are external: they start,  *)
(* answer, fail and exit at any moment.  Deadlines are a flag that time    *)
(* raises.  checkpoint() and restore() change nothing and are left out.    *)
(***************************************************************************)
EXTENDS Naturals, FiniteSets

CONSTANTS
  Retries,    \* _CLIENT_CONNECT_RETRIES
  MaxStage,   \* bound: the conductor's last stage
  Ops,        \* the calls made: "tool", "status", "bad" and "verify"
  None

SregymAssumption == Retries \in Nat \ {0} /\ MaxStage \in Nat

Stages == 0..MaxStage
Surfaces == {"api", "mcp"}

VARIABLES
  main,      \* "none", "running", "exited" (a zombie) or "reaped"
  kids,      \* the other members of the group: "none", "running", "late"
             \* (spawned after the group was signalled) or "gone"
  serving,   \* external: surfaces that accept connections
  stage,     \* external: the stage the conductor reports
  hit,       \* history: signals delivered to the children
  phase,     \* where the constructor or teardown is
  task,      \* what the kill of the group belongs to
  ready,     \* api_ready and mcp_ready, as the set of surfaces seen
  expired,   \* the deadline of the running poll or wait has passed
  log,       \* the log file: "none", "open" or "closed"
  why,       \* why the constructor raised
  reached,   \* history: surfaces probed with success since the last spawn
  call,      \* the call being executed on the open environment
  result     \* the answer of the last call

procVars == <<main, kids, serving, stage, hit>>
lifeVars == <<phase, task, ready, log, why, reached>>
callVars == <<call, result>>
vars == <<procVars, lifeVars, expired, callVars>>

NoCall == [op |-> "none", at |-> "idle", tries |-> 0, expect |-> None,
           seen |-> None, from |-> 0, done |-> 0, answered |-> FALSE, cut |-> FALSE]
NoResult == [op |-> "none", end |-> "none", passed |-> FALSE, expect |-> None,
             seen |-> None, from |-> 0, till |-> 0, done |-> 0, answered |-> FALSE,
             cut |-> FALSE, late |-> FALSE]

TypeOK ==
  /\ main \in {"none", "running", "exited", "reaped"}
  /\ kids \in {"none", "running", "late", "gone"}
  /\ serving \subseteq Surfaces
  /\ stage \in Stages
  /\ hit \subseteq {"TERM", "KILL"}
  /\ phase \in {"unbuilt", "exit", "api", "mcp", "pause", "getpgid", "term", "wait",
                "wait9", "ready", "failed", "closed"}
  /\ task \in {"startup", "teardown"}
  /\ ready \subseteq Surfaces /\ reached \subseteq Surfaces
  /\ expired \in BOOLEAN
  /\ log \in {"none", "open", "closed"}
  /\ why \in {"none", "exit", "timeout", "stuck"}
  /\ call.at \in {"idle", "connect", "calling", "close", "after", "poll"}
  /\ call.tries \in 0..(Retries - 1)
  /\ call.done \in Nat /\ call.seen \in Stages \cup {None}

Init ==
  /\ main = "none" /\ kids = "none" /\ serving = {} /\ stage = 0 /\ hit = {}
  /\ phase = "unbuilt" /\ task = "startup" /\ ready = {} /\ log = "none"
  /\ why = "none" /\ reached = {} /\ expired = FALSE
  /\ call = NoCall /\ result = NoResult

-----------------------------------------------------------------------------
(* The world: main.py, its children and time *)

Alive == kids \in {"running", "late"}

SpawnKids ==
  /\ main = "running" /\ kids = "none"
  /\ phase \notin {"wait9", "failed", "closed"}   \* SIGKILL was sent
  /\ kids' = IF phase = "wait" THEN "late" ELSE "running"
  /\ UNCHANGED <<main, serving, stage, hit, lifeVars, expired, callVars>>

Serve(s) ==
  /\ s \notin serving
  /\ IF s = "api" THEN main = "running" ELSE Alive
  /\ serving' = serving \cup {s}
  /\ UNCHANGED <<main, kids, stage, hit, lifeVars, expired, callVars>>

MainExits ==
  /\ main = "running" /\ main' = "exited" /\ serving' = serving \ {"api"}
  /\ UNCHANGED <<kids, stage, hit, lifeVars, expired, callVars>>

KidsExit ==
  /\ Alive /\ kids' = "gone" /\ serving' = serving \ {"mcp"}
  /\ UNCHANGED <<main, stage, hit, lifeVars, expired, callVars>>

(* The conductor moves on by itself, when its own stage times out. *)
StageMoves ==
  /\ main = "running" /\ stage < MaxStage /\ stage' = stage + 1
  /\ UNCHANGED <<main, kids, serving, hit, lifeVars, expired, callVars>>

Tick ==
  /\ ~expired /\ expired' = TRUE
  /\ phase \in {"exit", "api", "mcp", "pause", "wait", "wait9"} \/ call.at = "poll"
  /\ UNCHANGED <<procVars, lifeVars, callVars>>

-----------------------------------------------------------------------------
(* The constructor *)

Spawn ==
  /\ phase = "unbuilt"
  /\ log' = "open" /\ main' = "running" /\ phase' = "exit" /\ expired' = FALSE
  /\ UNCHANGED <<kids, serving, stage, hit, task, ready, why, reached, callVars>>

(* The first test of _startup_check.  poll() reaps a process that exited,  *)
(* and the exception leaves poll_until at once.                            *)
CheckExit ==
  /\ phase = "exit"
  /\ IF main = "exited"
       THEN /\ main' = "reaped" /\ why' = "exit" /\ phase' = "getpgid"
       ELSE /\ phase' = "api" /\ UNCHANGED <<main, why>>
  /\ UNCHANGED <<kids, serving, stage, hit, task, ready, log, reached, expired, callVars>>

(* GET /status, unless it was answered before; errors are remembered only. *)
CheckApi ==
  /\ phase = "api" /\ phase' = "mcp"
  /\ \/ "api" \in serving /\ ready' = ready \cup {"api"} /\ reached' = reached \cup {"api"}
     \/ UNCHANGED <<ready, reached>>
  /\ UNCHANGED <<procVars, task, log, why, expired, callVars>>

Probed == IF "api" \in ready /\ "mcp" \in serving THEN {"mcp"} ELSE {}

(* Mutant: readiness is the conductor's API alone. *)
CheckMcp_ApiOnly ==
  /\ phase = "mcp"
  /\ phase' = IF "api" \in ready THEN "ready" ELSE "pause"
  /\ UNCHANGED <<procVars, task, ready, reached, log, why, expired, callVars>>

(* The TCP probe, only once the API has answered, and the value of         *)
(* _startup_check.                                                         *)
CheckMcp ==
  /\ phase = "mcp"
  /\ ready' = ready \cup Probed /\ reached' = reached \cup Probed
  /\ phase' = IF ready' = Surfaces THEN "ready" ELSE "pause"
  /\ UNCHANGED <<procVars, task, log, why, expired, callVars>>

(* Mutant: the wait for readiness has no deadline. *)
Pause_Forever ==
  /\ phase = "pause" /\ phase' = "exit" /\ why' = why
  /\ UNCHANGED <<procVars, task, ready, log, reached, expired, callVars>>

(* Mutant: a start that times out kills main.py only. *)
Pause_KillsMainOnly ==
  /\ phase = "pause"
  /\ IF expired
       THEN /\ phase' = "wait" /\ why' = "timeout"
            /\ main' = IF main = "running" THEN "exited" ELSE main
            /\ serving' = serving \ {"api"}
       ELSE phase' = "exit" /\ UNCHANGED <<why, main, serving>>
  /\ UNCHANGED <<kids, stage, hit, task, ready, log, reached, expired, callVars>>

(* poll_until between two checks: the deadline ends it, the constructor    *)
(* kills the group and raises.                                             *)
Pause ==
  /\ phase = "pause"
  /\ IF expired THEN phase' = "getpgid" /\ why' = "timeout"
                ELSE phase' = "exit" /\ UNCHANGED why
  /\ UNCHANGED <<procVars, task, ready, log, reached, expired, callVars>>

-----------------------------------------------------------------------------
(* _kill_process_group *)

(* A process that was reaped has no group to look up any more: the error   *)
(* is suppressed, no signal is sent, and wait() returns at once.           *)
GetPgid ==
  /\ phase = "getpgid"
  /\ phase' = IF main = "reaped" THEN "wait" ELSE "term"
  /\ expired' = FALSE
  /\ UNCHANGED <<procVars, task, ready, log, why, reached, callVars>>

Terminate ==
  /\ phase = "term" /\ phase' = "wait"
  /\ hit' = IF kids = "running" THEN hit \cup {"TERM"} ELSE hit
  /\ UNCHANGED <<main, kids, serving, stage, task, ready, log, why, reached, expired, callVars>>

(* What follows the kill: the constructor closes the log and raises,       *)
(* teardown closes it in its finally clause.                               *)
Killed ==
  /\ main' = "reaped" /\ log' = "closed"
  /\ phase' = IF task = "startup" THEN "failed" ELSE "closed"
  /\ UNCHANGED why

WaitReaps ==
  /\ phase \in {"wait", "wait9"} /\ main \in {"exited", "reaped"} /\ Killed
  /\ UNCHANGED <<kids, serving, stage, hit, task, ready, reached, expired, callVars>>

(* Mutant: wait() is called without a timeout. *)
WaitTimesOut_Patient ==
  /\ phase = "wait" /\ main = "none"
  /\ UNCHANGED vars

(* Mutant: the wait for a terminated group is not followed by a kill. *)
WaitTimesOut_GivesUp ==
  /\ phase = "wait" /\ main = "running" /\ expired
  /\ log' = "closed" /\ phase' = IF task = "startup" THEN "failed" ELSE "closed"
  /\ UNCHANGED <<procVars, task, ready, why, reached, expired, callVars>>

(* TimeoutExpired: the whole group is killed.  SIGKILL cannot be ignored,  *)
(* but main.py may be in the kernel and exit only later.                   *)
WaitTimesOut ==
  /\ phase = "wait" /\ main = "running" /\ expired
  /\ kids' = IF Alive THEN "gone" ELSE kids
  /\ hit' = IF Alive THEN hit \cup {"KILL"} ELSE hit
  /\ serving' = serving \ {"mcp"}
  /\ phase' = "wait9" /\ expired' = FALSE
  /\ UNCHANGED <<main, stage, task, ready, log, why, reached, callVars>>

(* The second wait has a deadline too and its TimeoutExpired leaves: past  *)
(* the close in the constructor, through the finally clause in teardown.   *)
Wait9Raises ==
  /\ phase = "wait9" /\ main = "running" /\ expired /\ why' = "stuck"
  /\ phase' = IF task = "startup" THEN "failed" ELSE "closed"
  /\ log' = IF task = "startup" THEN log ELSE "closed"
  /\ UNCHANGED <<procVars, task, ready, reached, expired, callVars>>

(* teardown(), under the episode's lock: no other call is running.  It is  *)
(* a no-op once closed.                                                    *)
Teardown ==
  /\ phase = "ready" /\ call = NoCall
  /\ phase' = "getpgid" /\ task' = "teardown"
  /\ UNCHANGED <<procVars, ready, log, why, reached, expired, callVars>>

-----------------------------------------------------------------------------
(* actuate() *)

Open == phase = "ready"
Idle == Open /\ call = NoCall

Begin(op, at, expect) ==
  call' = [NoCall EXCEPT !.op = op, !.at = at, !.expect = expect, !.from = stage]

(* The answer of the call, with the history its properties speak of. *)
Answer(c, end, passed) ==
  /\ result' = [op |-> c.op, end |-> end, passed |-> passed, expect |-> c.expect,
                seen |-> c.seen, from |-> c.from, till |-> stage, done |-> c.done,
                answered |-> c.answered, cut |-> c.cut, late |-> expired]
  /\ call' = NoCall

(* The snapshot before never raises.  A payload without a command and an   *)
(* unknown binding raise after it; a status binding has no tool to call.   *)
Actuate(op) ==
  /\ Idle /\ op \in Ops \cap {"tool", "status", "bad"}
  /\ CASE op = "tool"   -> Begin(op, "connect", None) /\ UNCHANGED result
       [] op = "status" -> Begin(op, "after", None) /\ UNCHANGED result
       [] OTHER         -> Answer([NoCall EXCEPT !.op = op], "raised", FALSE)
  /\ UNCHANGED <<procVars, lifeVars, expired>>

(* Mutant: one attempt more than the bound allows. *)
ConnectFails_OneMore ==
  /\ Open /\ call.at = "connect"
  /\ IF call.tries < Retries
       THEN call' = [call EXCEPT !.tries = @ + 1] /\ UNCHANGED result
       ELSE Answer(call, "raised", FALSE)
  /\ UNCHANGED <<procVars, lifeVars, expired>>

(* Mutant: the retries have no bound, attempts wrap around. *)
ConnectFails_Forever ==
  /\ Open /\ call.at = "connect"
  /\ call' = [call EXCEPT !.tries = (@ + 1) % Retries] /\ UNCHANGED result
  /\ UNCHANGED <<procVars, lifeVars, expired>>

(* _connect_with_retry: a fresh client for every attempt, the last failure *)
(* raises.  The handshake may fail although the port accepts connections.  *)
ConnectFails ==
  /\ Open /\ call.at = "connect"
  /\ IF call.tries + 1 < Retries
       THEN call' = [call EXCEPT !.tries = @ + 1] /\ UNCHANGED result
       ELSE Answer(call, "raised", FALSE)
  /\ UNCHANGED <<procVars, lifeVars, expired>>

Connects ==
  /\ Open /\ call.at = "connect" /\ "mcp" \in serving
  /\ call' = [call EXCEPT !.at = "calling"]
  /\ UNCHANGED <<procVars, lifeVars, expired, result>>

Effect == stage' \in {stage, IF stage < MaxStage THEN stage + 1 ELSE stage}

(* The tool acts and answers; the client is closed before the handler goes *)
(* on.                                                                     *)
ToolAnswers ==
  /\ Open /\ call.at = "calling" /\ "mcp" \in serving
  /\ Effect
  /\ call' = [call EXCEPT !.at = "close", !.done = @ + 1, !.answered = TRUE]
  /\ UNCHANGED <<main, kids, serving, hit, lifeVars, expired, result>>

(* Mutant: the retry covers the call and not only the handshake. *)
ToolFails_Retried ==
  /\ Open /\ call.at = "calling"
  /\ \E acted \in BOOLEAN :
       /\ IF acted THEN "mcp" \in serving /\ Effect ELSE UNCHANGED stage
       /\ LET c == [call EXCEPT !.done = @ + IF acted THEN 1 ELSE 0] IN
            IF call.tries + 1 < Retries
              THEN call' = [c EXCEPT !.at = "connect", !.tries = @ + 1] /\ UNCHANGED result
              ELSE Answer(c, "raised", FALSE)
  /\ UNCHANGED <<main, kids, serving, hit, lifeVars, expired>>

(* The tool reports an error, the connection is lost before or after it    *)
(* acted, or the kernel's timeout cancels the call: actuate() raises, also *)
(* when the client's close is cancelled after that.                        *)
ToolFails ==
  /\ Open /\ call.at = "calling"
  /\ \E acted \in BOOLEAN :
       /\ IF acted THEN "mcp" \in serving /\ Effect ELSE UNCHANGED stage
       /\ Answer([call EXCEPT !.done = @ + IF acted THEN 1 ELSE 0], "raised", FALSE)
  /\ UNCHANGED <<main, kids, serving, hit, lifeVars, expired>>

(* The kernel's timeout reaches a call at an await: while it waits for its *)
(* next attempt, or while its client closes.  A cancellation is no         *)
(* Exception, so the suppress() around the close lets it through: the call *)
(* raises although its tool answered.                                      *)
Cancelled ==
  /\ Open /\ call.at \in {"connect", "close"}
  /\ Answer([call EXCEPT !.cut = TRUE], "raised", FALSE)
  /\ UNCHANGED <<procVars, lifeVars, expired>>

(* The client is closed, or its close raised what is suppressed. *)
Closes ==
  /\ Open /\ call.at = "close" /\ call' = [call EXCEPT !.at = "after"]
  /\ UNCHANGED <<procVars, lifeVars, expired, result>>

(* _safe_status: the stage, or {} for any failure; it waits for nothing    *)
(* that could be cancelled.                                                *)
Status == IF "api" \in serving THEN {stage, None} ELSE {None}

After ==
  /\ Open /\ call.at = "after"
  /\ \E s \in Status : Answer([call EXCEPT !.seen = s], "returned", FALSE)
  /\ UNCHANGED <<procVars, lifeVars, expired>>

-----------------------------------------------------------------------------
(* observe() and verify() *)

(* observe() uses _status itself: a failed read raises. *)
Observe ==
  /\ Idle
  /\ \E s \in Status : Answer([NoCall EXCEPT !.op = "observe", !.seen = s],
                              IF s = None THEN "raised" ELSE "returned", FALSE)
  /\ UNCHANGED <<procVars, lifeVars, expired>>

(* The expectation None is the empty dict, which every answer matches. *)
Verify(e) ==
  /\ Idle /\ "verify" \in Ops /\ e \in Stages \cup {None}
  /\ Begin("verify", "poll", e) /\ expired' = FALSE
  /\ UNCHANGED <<procVars, lifeVars, result>>

Matches(s, e) == e \in {None, s}

(* Mutant: a stage past the expected one passes as well. *)
Poll_Reached ==
  /\ Open /\ call.at = "poll"
  /\ \E s \in Status :
       LET c == [call EXCEPT !.seen = s]
           p == s # None /\ (call.expect = None \/ call.expect =< s) IN
       IF p \/ expired THEN Answer(c, "returned", p) ELSE call' = c /\ UNCHANGED result
  /\ UNCHANGED <<procVars, lifeVars, expired>>

(* One check of poll_until: a match or the passed deadline answers with    *)
(* what this check read, anything else sleeps and checks again.            *)
Poll ==
  /\ Open /\ call.at = "poll"
  /\ \E s \in Status :
       LET c == [call EXCEPT !.seen = s] IN
       IF Matches(s, call.expect) \/ expired
         THEN Answer(c, "returned", Matches(s, call.expect))
         ELSE call' = c /\ UNCHANGED result
  /\ UNCHANGED <<procVars, lifeVars, expired>>

-----------------------------------------------------------------------------
World ==
  \/ SpawnKids \/ MainExits \/ KidsExit \/ StageMoves \/ Tick
  \/ \E s \in Surfaces : Serve(s)

Life ==
  \/ Spawn \/ CheckExit \/ CheckApi \/ CheckMcp \/ Pause
  \/ GetPgid \/ Terminate \/ WaitReaps \/ WaitTimesOut \/ Wait9Raises

Calls ==
  \/ \E op \in Ops : Actuate(op)
  \/ ConnectFails \/ Connects \/ ToolAnswers \/ ToolFails \/ Cancelled \/ Closes \/ After
  \/ Observe \/ Poll
  \/ \E e \in Stages \cup {None} : Verify(e)

Next == World \/ Life \/ Teardown \/ Calls

(* Code that is running goes on, and time passes: an attempt, a tool and a *)
(* close that do not answer are cut by a timeout.  Nothing is assumed of   *)
(* main.py, its children or the network.                                   *)
Spec ==
  /\ Init /\ [][Next]_vars
  /\ WF_vars(Life) /\ WF_vars(Tick)
  /\ WF_vars(ConnectFails) /\ WF_vars(ToolFails) /\ WF_vars(Closes \/ Cancelled)
  /\ WF_vars(After) /\ WF_vars(Poll)

-----------------------------------------------------------------------------
(* Properties *)

Gone == phase \in {"failed", "closed"}

(* A constructor that returned has connected to both surfaces, however     *)
(* main.py and its port-forward came and went while it polled.             *)
ReadyWasReachable == phase = "ready" => reached = Surfaces

(* When a failed start or a teardown is over, main.py is reaped, unless    *)
(* the wait after SIGKILL itself ran out and said so; the log is closed    *)
(* except on that one path of the constructor; and a port still accepts    *)
(* connections only through a process that is still there.                 *)
NothingIsHeld ==
  Gone => /\ why = "stuck" \/ main = "reaped"
          /\ log = "closed" \/ (why = "stuck" /\ task = "startup")
          /\ "api" \in serving => why = "stuck" /\ main = "running"
          /\ "mcp" \in serving => Alive

(* A child that survives a failed start or a teardown is one that          *)
(* outlived SIGTERM while main.py did not, so that the SIGKILL of the      *)
(* group was never sent; one that main.py spawned after the signal; or one *)
(* of a main.py that exited during startup.  The group is found through    *)
(* the unreaped leader, and SIGKILL leaves nobody.                         *)
SurvivorsOutliveTheSignal ==
  Gone /\ Alive => hit = {"TERM"} \/ why = "exit" \/ (kids = "late" /\ hit = {})

(* The comment on the raising startup check promises the same kill when    *)
(* main.py exits during startup.                                           *)
EveryFailedStartSignals == Gone /\ kids = "running" => hit # {}

(* The docstring of _kill_process_group promises that main.py's children   *)
(* are reaped instead of surviving as orphans.                             *)
NoChildSurvives == Gone => ~Alive

(* A tool acts at most once for one actuate(), whatever is retried; a call *)
(* that returned acted, and one that raised was not answered, unless the   *)
(* kernel's timeout cut the close of its client: a failing status snapshot *)
(* or close never discards an answered action.                             *)
ToolsActOnce ==
  /\ call.done =< 1
  /\ result.op = "tool" =>
       /\ result.end = "returned" => result.done = 1 /\ result.answered
       /\ result.end = "raised" /\ result.answered => result.cut /\ result.done = 1

(* A verdict rests on the conductor: a pass on a stage it was in between   *)
(* the start of the call and its answer; a refusal only after the deadline *)
(* and on a last read that failed or differed.                             *)
VerdictsAreObserved ==
  result.op = "verify" =>
    IF result.passed
      THEN result.expect # None =>
             /\ result.seen = result.expect
             /\ result.expect \in result.from..result.till
      ELSE result.late /\ result.seen # result.expect

(* Every constructor, teardown and call ends, although main.py may hang,   *)
(* crash or never answer.                                                  *)
StartsEnd == phase = "exit" ~> phase = "ready" \/ Gone
TeardownsEnd == phase = "getpgid" ~> Gone
CallsEnd == call # NoCall ~> call = NoCall
=============================================================================
