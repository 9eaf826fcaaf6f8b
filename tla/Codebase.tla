------------------------------ MODULE Codebase ------------------------------
(***************************************************************************)
(* The codebase environment (gyms/codebase.py): a throwaway git working    *)
(* tree per environment, made by `git init` or by clone_at_ref() from a    *)
(* source repository, patched, committed, built and tested, checkpointed   *)
(* by the commit at HEAD and restored to it by reset or by a new clone.    *)
(*                                                                         *)
(* A tree is the set of its files.  git, the source repository and what    *)
(* the project's own test and build commands do to the working tree are    *)
(* external.  Handlers call git synchronously: one handler, one step.      *)
(***************************************************************************)
EXTENDS Naturals, Sequences, FiniteSets

CONSTANTS
  Envs,        \* environments that may be materialized
  Local,       \* the clone source is a git repository of this machine
  Origins,     \* a subset of {"scratch", "cloned"}
  Files,       \* files of the project that patches add and remove
  Manifests,   \* the files among them that name an ecosystem
  Commands,    \* [Manifests -> commands its build or test runs in sequence]
  Junk,        \* a file that commands leave behind
  SourceTree,  \* the files of the commit clone_sha
  MaxCommits,  \* bound: commits
  Faults,      \* a subset of {"gone", "source", "seed", "slow"}
  None

CodebaseAssumption ==
  /\ IsFiniteSet(Files) /\ Manifests \subseteq Files /\ SourceTree \subseteq Files
  /\ Junk \notin Files /\ Local \in BOOLEAN /\ MaxCommits \in Nat
  /\ Commands \in [Manifests -> Nat \ {0}]

VARIABLES
  commits,   \* every commit ever made, as [tree, by]; the first is clone_sha
  source,    \* external: the source's objects, worktree registrations, identity
  env,       \* what each environment is and has on disk
  points,    \* checkpoints handed out
  answer     \* the last answer

vars == <<commits, source, env, points, answer>>

SourceSha == 1
NoEnv == [phase |-> "none", origin |-> "none", git |-> "gone", dir |-> FALSE,
          objects |-> {}, head |-> 0, index |-> {}, wt |-> {}, named |-> FALSE]
NoAnswer == [op |-> "none", env |-> None, ok |-> TRUE, point |-> None, why |-> "",
             codes |-> << >>, of |-> 0]

TypeOK ==
  /\ \A i \in 1..Len(commits) : /\ commits[i].tree \subseteq Files \cup {Junk}
                                /\ commits[i].by \in {"user", "gym", "ambient"}
  /\ source.objects \subseteq 1..Len(commits) /\ source.registered \subseteq Envs
  /\ source.identity \in {"user", "gym"}
  /\ \A e \in Envs :
       /\ env[e].phase \in {"none", "open", "failed", "closed"}
       /\ env[e].git \in {"own", "linked", "gone"}
       /\ env[e].head \in 0..Len(commits)
       /\ env[e].dir \/ env[e].wt = {}
       /\ env[e].phase \in {"none", "closed"} => ~env[e].dir
       /\ \A p \in points : p.head \in 0..Len(commits)

Init ==
  /\ commits = <<[tree |-> SourceTree, by |-> "user"]>>
  /\ source = [objects |-> {SourceSha}, registered |-> {}, identity |-> "user"]
  /\ env = [e \in Envs |-> NoEnv]
  /\ points = {} /\ answer = NoAnswer

Tree(c) == IF c = 0 THEN {} ELSE commits[c].tree

(* The objects that git reaches from the working tree of e. *)
Objects(e) ==
  CASE env[e].git = "own" -> env[e].objects
    [] env[e].git = "linked" -> source.objects
    [] OTHER -> {}

Say(op, e, ok, why, p) ==
  answer' = [op |-> op, env |-> e, ok |-> ok, why |-> why, point |-> p,
             codes |-> << >>, of |-> 0]

-----------------------------------------------------------------------------
(* clone_at_ref *)

(* Mutant: a repository of this machine is never cloned, only linked to,   *)
(* and any other one is linked to as well.                                 *)
Strategy_Linked == "worktree"

Strategy == IF Local THEN "worktree" ELSE "clone"

(* Mutant: stale registrations are left for git's own maintenance. *)
Pruned_Never(regs, e) == regs

(* `git worktree prune` forgets the registrations of directories that are  *)
(* gone; e's own directory has just been removed.                          *)
Pruned(regs, e) == {x \in regs : env[x].dir /\ x # e}

(* A working tree for e at clone_sha, HEAD checked after the checkout. *)
Checkout(rec) ==
  [rec EXCEPT !.dir = TRUE, !.head = SourceSha, !.index = Tree(SourceSha), !.wt = Tree(SourceSha),
              !.git = IF Strategy = "worktree" THEN "linked" ELSE "own",
              !.objects = IF Strategy = "worktree" THEN {} ELSE source.objects]

(* Whether git refuses to add a worktree where one is registered. *)
Blocked(e) == Strategy = "worktree" /\ e \in Pruned(source.registered, e)

Registered(e) ==
  IF Strategy = "worktree" THEN Pruned(source.registered, e) \cup {e} ELSE source.registered

-----------------------------------------------------------------------------
(* CodebaseProvider.materialize *)

(* _configure_local_git_identity: `git config` writes the configuration of *)
(* the repository, which a linked worktree shares with its source.         *)
Identified(src, linked) == IF linked THEN [src EXCEPT !.identity = "gym"] ELSE src

(* Mutant: only clones are given the gym's identity. *)
MaterializeScratch_Unnamed(e) ==
  /\ "scratch" \in Origins /\ env[e].phase = "none"
  /\ env' = [env EXCEPT ![e] = [NoEnv EXCEPT !.phase = "open", !.origin = "scratch",
                                             !.git = "own", !.dir = TRUE]]
  /\ Say("materialize", e, TRUE, "", None)
  /\ UNCHANGED <<commits, source, points>>

MaterializeScratch(e) ==
  /\ "scratch" \in Origins /\ env[e].phase = "none"
  /\ \E ok \in {TRUE} \cup (IF "seed" \in Faults THEN {FALSE} ELSE {}) :
     \E seed \in SUBSET Files :
       /\ env' = [env EXCEPT ![e] = [NoEnv EXCEPT
                    !.phase = IF ok THEN "open" ELSE "failed", !.origin = "scratch",
                    !.git = "own", !.dir = TRUE, !.wt = seed, !.named = TRUE]]
       /\ Say("materialize", e, ok, IF ok THEN "" ELSE "seed", None)
  /\ UNCHANGED <<commits, source, points>>

(* A failed clone raises; so does a seed file outside the tree, after the  *)
(* clone, whose directory and registration then stay.                      *)
MaterializeCloned(e) ==
  /\ "cloned" \in Origins /\ env[e].phase = "none"
  /\ \/ \E ok \in {TRUE} \cup (IF "seed" \in Faults THEN {FALSE} ELSE {}) :
          /\ ~Blocked(e)
          /\ env' = [env EXCEPT ![e] = [Checkout(NoEnv) EXCEPT
                       !.phase = IF ok THEN "open" ELSE "failed", !.origin = "cloned",
                       !.named = TRUE]]
          /\ source' = Identified([source EXCEPT !.registered = Registered(e)],
                                  Strategy = "worktree")
          /\ Say("materialize", e, ok, IF ok THEN "" ELSE "seed", None)
     \/ /\ "source" \in Faults
        /\ env' = [env EXCEPT ![e].phase = "failed"] /\ UNCHANGED source
        /\ Say("materialize", e, FALSE, "source", None)
  /\ UNCHANGED <<commits, points>>

-----------------------------------------------------------------------------
(* Bindings; each first observes, which needs the directory *)

Open(e) == env[e].phase = "open"
Usable(e) == Open(e) /\ env[e].dir

(* Every subprocess with the missing directory as its cwd raises. *)
NoDirectory(e) ==
  /\ Open(e) /\ ~env[e].dir
  /\ Say("call", e, FALSE, "no directory", None)
  /\ UNCHANGED <<commits, source, env, points>>

(* observe(), verify() and the four READ bindings. *)
Inspect(e) ==
  /\ Usable(e) /\ Say("inspect", e, TRUE, "", None)
  /\ UNCHANGED <<commits, source, env, points>>

(* `git apply` also works where there is no repository. *)
ApplyPatch(e, f) ==
  /\ Usable(e)
  /\ \/ f \notin env[e].wt /\ env' = [env EXCEPT ![e].wt = @ \cup {f}]
     \/ f \in env[e].wt /\ env' = [env EXCEPT ![e].wt = @ \ {f}]
  /\ Say("apply_patch", e, TRUE, "", None)
  /\ UNCHANGED <<commits, source, points>>

Author(e) ==
  CASE env[e].git = "linked" -> source.identity
    [] env[e].named -> "gym"
    [] OTHER -> "ambient"

GitCommit(e) ==
  /\ Usable(e)
  /\ IF env[e].git = "gone"
     THEN /\ Say("git_commit", e, FALSE, "no repository", None)
          /\ UNCHANGED <<commits, source, env>>
     ELSE LET c == Len(commits) + 1
          IN  /\ c <= MaxCommits
              /\ commits' = Append(commits, [tree |-> env[e].wt, by |-> Author(e)])
              /\ env' = [env EXCEPT ![e].head = c, ![e].index = env[e].wt,
                                    ![e].objects = IF env[e].git = "own" THEN @ \cup {c} ELSE @]
              /\ source' = IF env[e].git = "linked"
                           THEN [source EXCEPT !.objects = @ \cup {c}] ELSE source
              /\ Say("git_commit", e, TRUE, "", None)
  /\ UNCHANGED points

(* detect_project_kind and _resolve_project_kind without an override: the  *)
(* ecosystems whose manifest is at the root.                               *)
Kinds(e) == env[e].wt \cap Manifests

(* No ecosystem, or more than one, is refused before anything runs. *)
RefusesKind(e) == Cardinality(Kinds(e)) # 1

CommandsFor(e) == Commands[CHOOSE k \in Kinds(e) : TRUE]

(* Mutant: every command runs, and the last return code is the answer. *)
RunSequence_All(n) == [1..n -> {0, 1}]

(* _run_sequence: the return codes of the commands run, up to the first    *)
(* that is not 0.                                                          *)
RunSequence(n) ==
  {s \in UNION {[1..k -> {0, 1}] : k \in 1..n} :
     /\ \A i \in 1..Len(s) - 1 : s[i] = 0
     /\ Len(s) = n \/ s[Len(s)] = 1}

(* What the project's own commands do to the working tree. *)
Disturbed(rec) ==
  {rec, [rec EXCEPT !.wt = @ \cup {Junk}]}
    \cup (IF "gone" \in Faults THEN {[rec EXCEPT !.git = "gone", !.objects = {}]} ELSE {})

(* run_test and run_build: no or several ecosystems are refused; a command *)
(* that runs out of time raises, with what it did to the tree.             *)
RunCommands(e) ==
  /\ Usable(e)
  /\ \/ /\ RefusesKind(e)
        /\ Say("run", e, FALSE, "kind", None) /\ UNCHANGED env
     \/ /\ ~RefusesKind(e)
        /\ \E rec \in Disturbed(env[e]) : env' = [env EXCEPT ![e] = rec]
        /\ LET n == CommandsFor(e)
           IN  \/ \E s \in RunSequence(n) :
                    answer' = [NoAnswer EXCEPT !.op = "run", !.env = e, !.ok = s[Len(s)] = 0,
                                               !.codes = s, !.of = n]
               \/ "slow" \in Faults /\ Say("run", e, FALSE, "timeout", None)
  /\ UNCHANGED <<commits, source, points>>

-----------------------------------------------------------------------------
(* Checkpoints *)

(* head_sha is None (0) without a repository and before the first commit. *)
Checkpoint(e) ==
  /\ Usable(e)
  /\ LET p == [env |-> e, from |-> env[e].origin,
               head |-> IF env[e].git = "gone" THEN 0 ELSE env[e].head]
     IN  points' = points \cup {p} /\ Say("checkpoint", e, TRUE, "", p)
  /\ UNCHANGED <<commits, source, env>>

(* Mutant: reset without clean. *)
Reset_NoClean(rec, c) ==
  [rec EXCEPT !.head = c, !.index = Tree(c), !.wt = Tree(c) \cup (@ \ rec.index)]

(* reset --hard and clean -fdx. *)
Reset(rec, c) == [rec EXCEPT !.head = c, !.index = Tree(c), !.wt = Tree(c)]

RestoreResets(e, p) ==
  /\ Usable(e) /\ p.env = e /\ p.head # 0 /\ p.head \in Objects(e)
  /\ env' = [env EXCEPT ![e] = Reset(@, p.head)]
  /\ Say("restore", e, TRUE, "reset", p)
  /\ UNCHANGED <<commits, source, points>>

(* The commit is not there: the directory is removed and cloned again, at  *)
(* source_sha.  A clone that fails leaves no directory.                    *)
RestoreRebuilds(e, p) ==
  /\ Usable(e) /\ p.env = e /\ p.head # 0 /\ p.head \notin Objects(e) /\ p.from = "cloned"
  /\ \/ /\ ~Blocked(e)
        /\ env' = [env EXCEPT ![e] = [Checkout(@) EXCEPT !.named = FALSE]]
        /\ source' = [source EXCEPT !.registered = Registered(e)]
        /\ Say("restore", e, TRUE, "rebuild", p)
     \/ /\ Blocked(e) \/ "source" \in Faults
        /\ env' = [env EXCEPT ![e] = [NoEnv EXCEPT !.phase = "open", !.origin = "cloned"]]
        /\ UNCHANGED source
        /\ Say("restore", e, FALSE, IF Blocked(e) THEN "blocked" ELSE "source", p)
  /\ UNCHANGED <<commits, points>>

(* Refused: a dimension other than "filesystem", a checkpoint without a    *)
(* commit, a commit that is gone for good, a directory that is gone.       *)
RestoreRefuses(e, p) ==
  /\ Open(e) /\ p.env = e
  /\ \E why \in {"dimension", "no commit", "unreachable", "no directory"} :
       /\ why = "no commit" => env[e].dir /\ p.head = 0
       /\ why = "unreachable" => /\ env[e].dir /\ p.head # 0
                                 /\ p.head \notin Objects(e) /\ p.from = "scratch"
       /\ why = "no directory" => ~env[e].dir /\ p.head # 0
       /\ Say("restore", e, FALSE, why, p)
  /\ UNCHANGED <<commits, source, env, points>>

(* Mutant: a working tree with changes in it is kept. *)
Teardown_KeepsChanges(e) ==
  /\ Open(e)
  /\ env' = [env EXCEPT ![e] = IF @.wt = @.index
                               THEN [NoEnv EXCEPT !.phase = "closed", !.origin = env[e].origin]
                               ELSE [@ EXCEPT !.phase = "closed"]]
  /\ Say("teardown", e, TRUE, "", None)
  /\ UNCHANGED <<commits, source, points>>

(* rmtree; a linked worktree stays registered in its source. *)
Teardown(e) ==
  /\ Open(e)
  /\ env' = [env EXCEPT ![e] = [NoEnv EXCEPT !.phase = "closed", !.origin = env[e].origin]]
  /\ Say("teardown", e, TRUE, "", None)
  /\ UNCHANGED <<commits, source, points>>

-----------------------------------------------------------------------------
Next ==
  \E e \in Envs :
    \/ MaterializeScratch(e) \/ MaterializeCloned(e) \/ NoDirectory(e) \/ Inspect(e)
    \/ \E f \in Files : ApplyPatch(e, f)
    \/ GitCommit(e) \/ RunCommands(e) \/ Checkpoint(e) \/ Teardown(e)
    \/ \E p \in points : RestoreResets(e, p) \/ RestoreRebuilds(e, p) \/ RestoreRefuses(e, p)

Spec == Init /\ [][Next]_vars

-----------------------------------------------------------------------------
(* Properties *)

Restored == answer.op = "restore" /\ answer.ok

(* A restore that returns leaves the tree of the checkpoint's commit, with *)
(* nothing modified, staged or untracked beside it: "the worktree's        *)
(* tracked-file state at a real commit SHA".                               *)
RestoreReachesTheCheckpoint ==
  Restored => LET r == env[answer.env]
              IN  /\ r.head = answer.point.head
                  /\ r.wt = Tree(answer.point.head) /\ r.index = r.wt

(* Short of that, for commits that got lost: whatever a restore returns    *)
(* with, the tree is clean at a commit the checkpoint knows of.            *)
RestoredTreesAreClean ==
  Restored => LET r == env[answer.env]
              IN  /\ r.wt = r.index /\ r.index = Tree(r.head)
                  /\ r.head \in {answer.point.head, SourceSha} /\ r.head \in Objects(answer.env)

(* Materializing, patching, committing and restoring never change the      *)
(* source repository's own configuration: the module docstring's "never    *)
(* touches the caller's own working repository".                           *)
SourceIdentityIsKept == source.identity = "user"

(* "A clean, isolated commit identity": every commit of an environment is  *)
(* the gym's, also after any sequence of restores.                         *)
CommitsAreTheGyms == \A i \in 2..Len(commits) : commits[i].by = "gym"

(* "Pruned defensively before every add so a prior destination at the same *)
(* path never blocks a retry": no rebuild fails for a registration that an *)
(* earlier life of the directory left in the source.                       *)
RebuildsAreNotBlocked == answer.why # "blocked"

(* run_test and run_build answer with success only when every command of   *)
(* the ecosystem ran and returned 0, whatever the commands did between.    *)
PassesAreWhole ==
  answer.op = "run" /\ answer.ok => answer.codes = [i \in 1..answer.of |-> 0]

(* restore() falls back to a rebuild whenever the checkpoint records a     *)
(* source and its commit is not reachable any more.                        *)
RestoreFallsBack ==
  answer.op = "restore" /\ ~answer.ok /\ answer.point.from = "cloned"
    /\ answer.point.head # 0 /\ answer.why # "dimension" => answer.why = "source"
=============================================================================
