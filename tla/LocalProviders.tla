--------------------------- MODULE LocalProviders ----------------------------
(***************************************************************************)
(* The built-in local providers (local_providers.py): an environment over  *)
(* a directory, over a git work tree or over a table of an SQLite file.    *)
(* Their handlers are synchronous code, so each is one step; the process   *)
(* may die inside one.                                                     *)
(*                                                                         *)
(* What an environment holds is a function from paths (or keys) to values. *)
(* A directory remembers the subdirectories it has ever had, which nothing *)
(* removes.  git and SQLite are external.                                  *)
(***************************************************************************)
EXTENDS Naturals, Sequences, Functions

CONSTANTS
  Kind,        \* "filesystem", "git" or "sqlite"
  Order,       \* the paths or keys, sorted
  Inside,      \* [paths -> the path of the directory it is in, or None]
  Values,
  AsText,      \* [values -> values] what read_text makes of a file's line ends
  Branches,    \* names of branches; the first one is Main
  Main,
  MaxActs,     \* bound: actuations
  Faults,      \* a subset of {"commit", "dies", "malformed"}
  None

Paths == {Order[i] : i \in DOMAIN Order}

LocalAssumption ==
  /\ Kind \in {"filesystem", "git", "sqlite"} /\ Main \in Branches /\ MaxActs \in Nat
  /\ Order \in Seq(Paths) /\ None \notin Paths
  /\ Inside \in [Paths -> Paths \cup {None}] /\ AsText \in [Values -> Values]

VARIABLES
  env,       \* "open", "closed" or "dead"
  held,      \* the files, the work tree or the table
  dirs,      \* filesystem: paths that are directories
  index,     \* git: what is staged
  commits,   \* git: the trees committed
  heads,     \* git: [branches that exist -> commit]
  branch,    \* git: the current branch
  point,     \* what checkpoint() returned, or None
  last,      \* history: how the last handler ended: "ok", "raised", "restored",
             \* "unrestored" or "died"
  was,       \* history: what was held before it
  acts

git == <<index, commits, heads, branch>>
vars == <<env, held, dirs, git, point, last, was, acts>>

Nothing == [x \in {} |-> None]
Tree == commits[heads[branch]]

Init ==
  /\ env = "open" /\ held = Nothing /\ dirs = {}
  /\ index = Nothing /\ commits = <<Nothing>> /\ heads = [b \in {Main} |-> 1] /\ branch = Main
  /\ point = None /\ last = "ok" /\ was = Nothing /\ acts = 0

With(f, x, v) == [y \in DOMAIN f \cup {x} |-> IF y = x THEN v ELSE f[y]]
ParentsOf(S) == {Inside[x] : x \in S} \ {None}

-----------------------------------------------------------------------------
(* actuate *)

Act == env = "open" /\ acts < MaxActs /\ acts' = acts + 1 /\ was' = held

(* write_text and set.  In a directory the parents are made first, which   *)
(* fails when one is a file; a path that is a directory is not written.    *)
Write ==
  /\ Act
  /\ \E x \in Paths, v \in Values :
       LET blocked == Inside[x] \in DOMAIN held
           made == IF blocked THEN dirs ELSE dirs \cup ParentsOf({x})
           refused == blocked \/ x \in made
       IN  /\ dirs' = made
           /\ held' = IF refused THEN held ELSE With(held, x, v)
           /\ last' = IF refused THEN "raised" ELSE "ok"
  /\ UNCHANGED <<env, git, point>>

(* delete: a path that is not there is no error. *)
Delete ==
  /\ Act /\ Kind # "git"
  /\ \E x \in Paths : held' = Restrict(held, DOMAIN held \ {x})
  /\ last' = "ok"
  /\ UNCHANGED <<env, dirs, git, point>>

(* create_branch: refused for a revision that is not the current one;      *)
(* git refuses a name it has.                                              *)
CreateBranch ==
  /\ Act /\ Kind = "git"
  /\ \E b \in Branches :
       \/ /\ b \notin DOMAIN heads
          /\ heads' = With(heads, b, heads[branch]) /\ branch' = b
          /\ last' = "ok"
       \/ last' = "raised" /\ UNCHANGED <<heads, branch>>
  /\ UNCHANGED <<env, held, dirs, index, commits, point>>

(* commit: add --all, then commit, which fails when nothing has changed or *)
(* git will not (no identity, a hook) and leaves everything added.         *)
Commit ==
  /\ Act /\ Kind = "git"
  /\ index' = held
  /\ \/ /\ held # Tree
        /\ commits' = Append(commits, held)
        /\ heads' = [heads EXCEPT ![branch] = Len(commits) + 1]
        /\ last' = "ok"
     \/ /\ held = Tree \/ "commit" \in Faults
        /\ last' = "raised" /\ UNCHANGED <<commits, heads>>
  /\ UNCHANGED <<env, held, dirs, branch, point>>

-----------------------------------------------------------------------------
(* checkpoint, restore, teardown *)

(* What a checkpoint reads of what is held: files are read as text. *)
Read == IF Kind = "filesystem" THEN [x \in DOMAIN held |-> AsText[held[x]]] ELSE held

(* Mutant: a work tree that is not clean is checkpointed by its commit. *)
Checkpoint_Dirty ==
  /\ env = "open" /\ was' = held
  /\ point' = [held |-> Read, head |-> heads[branch], branch |-> branch] /\ last' = "ok"
  /\ UNCHANGED <<env, held, dirs, git, acts>>

(* git refuses a checkpoint of a work tree that is not clean. *)
Checkpoint ==
  /\ env = "open" /\ was' = held
  /\ \/ /\ Kind # "git" \/ (held = Tree /\ index = Tree)
        /\ point' = [held |-> Read, head |-> heads[branch], branch |-> branch] /\ last' = "ok"
     \/ /\ Kind = "git" /\ (held # Tree \/ index # Tree)
        /\ last' = "raised" /\ UNCHANGED point
  /\ UNCHANGED <<env, held, dirs, git, acts>>

(* The files of a tree that the loop of restore() gets to write: up to the *)
(* first that is a directory by now.                                       *)
Written(tree) ==
  {x \in DOMAIN tree : \A i, j \in DOMAIN Order :
     Order[i] = x /\ j <= i /\ Order[j] \in DOMAIN tree => Order[j] \notin dirs}

(* Mutant: files that are there are not removed first. *)
RestoreFiles_Over ==
  LET tree == point.held
      done == Written(tree)
  IN  /\ held' = [x \in DOMAIN held \cup done |-> IF x \in done THEN tree[x] ELSE held[x]]
      /\ dirs' = dirs \cup ParentsOf(done)
      /\ last' = IF done = DOMAIN tree THEN "restored" ELSE "unrestored"
      /\ UNCHANGED git

(* Every file is removed, then the files of the checkpoint are written.    *)
RestoreFiles ==
  LET tree == point.held
      done == Written(tree)
  IN  /\ held' = Restrict(tree, done)
      /\ dirs' = dirs \cup ParentsOf(done)
      /\ last' = IF done = DOMAIN tree THEN "restored" ELSE "unrestored"
      /\ UNCHANGED git

(* Mutant: reset without --hard. *)
RestoreGit_Soft ==
  /\ heads' = [heads EXCEPT ![branch] = point.head]
  /\ last' = "restored"
  /\ UNCHANGED <<held, dirs, index, commits, branch>>

(* reset --hard: the current branch, whichever it is, is moved to the      *)
(* commit; files git does not know of stay.                                *)
RestoreGit ==
  LET tree == commits[point.head]
      unknown == DOMAIN held \ (DOMAIN index \cup DOMAIN tree)
  IN  /\ held' = [x \in unknown \cup DOMAIN tree |-> IF x \in unknown THEN held[x] ELSE tree[x]]
      /\ heads' = [heads EXCEPT ![branch] = point.head]
      /\ index' = tree
      /\ last' = "restored"
      /\ UNCHANGED <<dirs, commits, branch>>

(* DELETE and INSERT in one transaction. *)
RestoreTable ==
  held' = point.held /\ last' = "restored" /\ UNCHANGED <<dirs, git>>

Restore ==
  /\ env = "open" /\ point # None /\ was' = held
  /\ \/ Kind = "filesystem" /\ RestoreFiles
     \/ Kind = "git" /\ RestoreGit
     \/ Kind = "sqlite" /\ RestoreTable
  /\ UNCHANGED <<env, point, acts>>

(* Mutant: the table is emptied before the checkpoint is looked at. *)
RestoreMalformed_Hasty ==
  /\ env = "open" /\ "malformed" \in Faults /\ was' = held
  /\ held' = Nothing
  /\ last' = "unrestored"
  /\ UNCHANGED <<env, dirs, git, point, acts>>

(* A checkpoint that is not an object is refused, by the directory after   *)
(* it has been emptied.                                                    *)
RestoreMalformed ==
  /\ env = "open" /\ "malformed" \in Faults /\ was' = held
  /\ held' = IF Kind = "filesystem" THEN Nothing ELSE held
  /\ last' = "unrestored"
  /\ UNCHANGED <<env, dirs, git, point, acts>>

(* The process dies inside restore(): a table keeps the old rows or has    *)
(* the new ones, a directory keeps some files of either.  (A file cut in   *)
(* the middle of its write counts as not written; a git that dies is left  *)
(* out.)                                                                   *)
DieRestoring ==
  /\ env = "open" /\ point # None /\ "dies" \in Faults /\ was' = held
  /\ env' = "dead" /\ last' = "died"
  /\ \/ /\ Kind = "filesystem"
        /\ \/ \E S \in SUBSET DOMAIN held : held' = Restrict(held, S)
           \/ \E S \in SUBSET Written(point.held) : held' = Restrict(point.held, S)
     \/ Kind = "sqlite" /\ held' \in {held, point.held}
  /\ UNCHANGED <<dirs, git, point, acts>>

Teardown ==
  /\ env = "open" /\ env' = "closed" /\ was' = held
  /\ last' = "ok"
  /\ UNCHANGED <<held, dirs, git, point, acts>>

Next ==
  \/ Write \/ Delete \/ CreateBranch \/ Commit
  \/ Checkpoint \/ Restore \/ RestoreMalformed \/ DieRestoring \/ Teardown

Spec == Init /\ [][Next]_vars

-----------------------------------------------------------------------------
(* Properties *)

TypeOK ==
  /\ env \in {"open", "closed", "dead"}
  /\ DOMAIN held \subseteq Paths /\ Range(held) \subseteq Values
  /\ dirs \subseteq Paths /\ DOMAIN index \subseteq Paths
  /\ branch \in DOMAIN heads /\ DOMAIN heads \subseteq Branches
  /\ Range(heads) \subseteq DOMAIN commits
  /\ point = None \/ point.head \in DOMAIN commits
  /\ acts \in 0..MaxActs

(* A path is a file or a directory, and a file is in no file. *)
PathsAreOneThing ==
  Kind = "filesystem" =>
    /\ dirs \cap DOMAIN held = {}
    /\ \A x \in DOMAIN held : Inside[x] \notin DOMAIN held

(* A restore that returns left every file, row or tracked file of the      *)
(* checkpoint as it was, and nothing else but files git never knew of.     *)
RestoredIsTheCheckpoint ==
  last = "restored" =>
    /\ \A x \in DOMAIN point.held : x \in DOMAIN held /\ held[x] = point.held[x]
    /\ DOMAIN held \ DOMAIN point.held \subseteq
         IF Kind = "git" THEN DOMAIN was \ DOMAIN index ELSE {}

(* A restore that raises or dies has changed nothing, or, in a table, all; *)
(* in a directory it has left files of the old tree or of the checkpoint,  *)
(* never files of both.                                                    *)
FailedRestoresAreWhole ==
  last \in {"unrestored", "died"} =>
    IF Kind # "filesystem" THEN held = was \/ (last = "died" /\ held = point.held)
    ELSE \/ \A x \in DOMAIN held : x \in DOMAIN was /\ held[x] = was[x]
         \/ \A x \in DOMAIN held : x \in DOMAIN point.held /\ held[x] = point.held[x]

(* What is not so (README, section 5): a directory is emptied before its   *)
(* checkpoint is looked at and written, and git's restore() moves the      *)
(* current branch without regard to the one the checkpoint names.          *)
NoRestoreDestroys == last = "unrestored" => held = was
RestoresTheBranch == last = "restored" => branch = point.branch
=============================================================================
