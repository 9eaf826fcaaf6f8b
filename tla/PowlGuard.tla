----------------------------- MODULE PowlGuard ------------------------------
(***************************************************************************)
(* execute() of src/gymact/powl/guard_executor.py: the walker that invokes *)
(* the atoms of a tree, takes choice transitions by guards, repeats        *)
(* composites, runs the ready level of a partial order in a thread pool,   *)
(* and resumes a top-level composite from the last checkpoint the caller   *)
(* kept.  The recursive walk is the set of its active composites: a        *)
(* composite is active at most once, and each runs the children it has     *)
(* queued.  Guards, repetition decisions and atoms answer as they like.    *)
(***************************************************************************)
EXTENDS Powl

CONSTANTS Models,
          Guarded,          \* <<path, src, dst>> of the edges that carry a guard
          HasEvaluator,     \* whether a repeat_evaluator is supplied
          MaxWorkers, MaxTransitions,
          Failing,          \* labels whose invocation may raise
          MaxCrashes, MaxResumes, MaxRepetitions  \* bounds of the instance

VARIABLES model, pc,
          status,       \* node -> "idle", "queued", "invoked", "failed", "done", "error"
          act,          \* composite -> its activation
          holder,       \* top_cursor_holder
          steps,        \* the sink
          buffers,      \* concurrently run child -> its local steps
          transitions,
          checkpoint,   \* the last one on_step was given, or NoCheckpoint
          ran,          \* <<leaf, top-level repetition>> invoked with success
          calls,        \* leaf -> invocations the trace should show
          crashes, resumes
vars == <<model, pc, status, act, holder, steps, buffers, transitions, checkpoint,
          ran, calls, crashes, resumes>>

Off == [phase |-> "off", rep |-> 0, completed |-> {}, level |-> {}, cur |-> None,
        concurrent |-> FALSE, skip |-> {}, resumeAt |-> None]
NoCursor == [kind |-> "leaf", done |-> {}, at |-> None, rep |-> 0]
NoCheckpoint == [steps |-> <<>>, transitions |-> 0, cursor |-> NoCursor]
Root == <<>>
Shown(trace, p) == Cardinality({i \in 1 .. Len(trace) : trace[i].leaf = p})
IdleStatus(m) == [p \in DOMAIN m |-> "idle"]

Init == /\ model \in {m \in Models : ValidModel(m)}
        /\ pc = "ready" /\ status = IdleStatus(model)
        /\ act = [p \in Composites(model) |-> Off]
        /\ holder = NoCursor /\ steps = <<>> /\ transitions = 0
        /\ buffers = [p \in DOMAIN model |-> <<>>]
        /\ checkpoint = NoCheckpoint /\ ran = {}
        /\ calls = [p \in Leaves(model) |-> 0]
        /\ crashes = 0 /\ resumes = 0

-----------------------------------------------------------------------------
Parent(p) == Front(p)
Child(p, i) == Append(p, i)
IndexOf(p) == Last(p)
Siblings(p) == {Child(Parent(p), i) : i \in act[Parent(p)].level}
Busy(q) == status[q] \in {"invoked", "failed"}
           \/ (q \in Composites(model) /\ act[q].phase # "off")

\* the concurrently run child a node belongs to, or the root
Boundary(p) ==
  LET cuts == {d \in 1 .. Len(p) : act[Prefix(p, d - 1)].concurrent}
  IN  IF cuts = {} THEN Root ELSE Prefix(p, Max(cuts))

\* an exception leaves every frame up to the thread it was raised in
Raise(p) ==
  LET b == Boundary(p)
  IN  /\ act' = [q \in DOMAIN act |-> IF Under(b, q) THEN Off ELSE act[q]]
      /\ status' = [q \in DOMAIN status |->
                      IF q = b /\ b # Root THEN "error"
                      ELSE IF Under(b, q) THEN "idle" ELSE status[q]]
      /\ pc' = IF b = Root THEN "refused" ELSE pc

\* _StepSink.append on the real sink: every step is followed by on_step
(* Mutant: the cursor counts the level that is being recorded as complete. *)
Checkpointed_Ahead(s) ==
  [steps |-> s, transitions |-> transitions,
   cursor |-> IF holder.kind = "order" THEN [holder EXCEPT !.done = @ \cup act[Root].level]
              ELSE holder]
Checkpointed(s) == [steps |-> s, transitions |-> transitions, cursor |-> holder]
Record(p, step) ==
  IF Boundary(p) = Root
  THEN /\ steps' = Append(steps, step) /\ checkpoint' = Checkpointed(Append(steps, step))
       /\ UNCHANGED buffers
  ELSE /\ buffers' = [buffers EXCEPT ![Boundary(p)] = Append(@, step)]
       /\ UNCHANGED <<steps, checkpoint>>

(***************************************************************************)
(* execute(): resume_from prefills the steps and the transition count and  *)
(* hands the cursor to the top-level composite.                            *)
(***************************************************************************)
(* Mutant: a resumed walk counts its repetitions from the start. *)
Resumed_Recount(m, c) ==
  [Off EXCEPT !.phase = "repeat",
     !.skip = IF m[Root].kind = "order" /\ c.kind = "order" THEN c.done ELSE {},
     !.resumeAt = IF m[Root].kind = "choice" /\ c.kind = "choice" THEN c.at ELSE None]
(* Mutant: a resumed walk begins with the next repetition. *)
Resumed_Next(m, c) ==
  [Off EXCEPT !.phase = "repeat", !.rep = IF c.kind = m[Root].kind THEN c.rep + 1 ELSE 0]
(* Mutant: a resumed choice is walked from its start. *)
Resumed_FromStart(m, c) ==
  [Off EXCEPT !.phase = "repeat", !.rep = IF c.kind = m[Root].kind THEN c.rep ELSE 0,
     !.skip = IF m[Root].kind = "order" /\ c.kind = "order" THEN c.done ELSE {}]
Resumed(m, c) ==
  [Off EXCEPT !.phase = "repeat",
     !.rep = IF c.kind = m[Root].kind THEN c.rep ELSE 0,
     !.skip = IF m[Root].kind = "order" /\ c.kind = "order" THEN c.done ELSE {},
     !.resumeAt = IF m[Root].kind = "choice" /\ c.kind = "choice" THEN c.at ELSE None]
Execute ==
  /\ pc \in {"ready", "crashed", "refused"} /\ resumes < MaxResumes
  /\ resumes' = resumes + 1 /\ pc' = "walking"
  /\ status' = IdleStatus(model)
  /\ act' = [p \in Composites(model) |-> IF p = Root THEN Resumed(model, checkpoint.cursor) ELSE Off]
  /\ holder' = NoCursor
  /\ steps' = checkpoint.steps /\ transitions' = checkpoint.transitions
  /\ buffers' = [p \in DOMAIN model |-> <<>>]
  /\ calls' = [p \in Leaves(model) |-> Shown(checkpoint.steps, p)]
  /\ UNCHANGED <<model, checkpoint, ran, crashes>>

\* the process dies; what survives is the checkpoint
Crash ==
  /\ pc = "walking" /\ crashes < MaxCrashes
  /\ crashes' = crashes + 1 /\ pc' = "crashed"
  /\ UNCHANGED <<model, status, act, holder, steps, buffers, transitions, checkpoint,
                 ran, calls, resumes>>

(***************************************************************************)
(* Repetitions: mandatory below min, forbidden from max on, else as the    *)
(* evaluator says, or exactly one.                                         *)
(***************************************************************************)
Decisions(node, completed) ==
  CASE completed < node.min -> {TRUE}
    [] node.max # Unbounded /\ completed >= node.max -> {FALSE}
    [] completed >= node.min /\ (node.max = Unbounded \/ completed < node.max) ->
         IF HasEvaluator THEN BOOLEAN ELSE {completed = 0}
RunAgain(p) ==
  /\ act[p].phase = "repeat" /\ TRUE \in Decisions(model[p], act[p].rep)
  /\ act[p].rep < MaxRepetitions
  /\ IF model[p].kind = "order"
     THEN /\ act' = [act EXCEPT ![p].phase = "level", ![p].completed = act[p].skip, ![p].skip = {}]
          /\ UNCHANGED <<status, holder>>
     ELSE IF act[p].resumeAt # None
     THEN /\ act' = [act EXCEPT ![p].phase = "edge", ![p].cur = act[p].resumeAt, ![p].resumeAt = None]
          /\ holder' = [kind |-> "choice", done |-> {}, at |-> act[p].resumeAt, rep |-> act[p].rep]
          /\ UNCHANGED status
     ELSE /\ act' = [act EXCEPT ![p].phase = "child", ![p].cur = model[p].start,
                                ![p].level = {model[p].start}]
          /\ status' = [status EXCEPT ![Child(p, model[p].start)] = "queued"]
          /\ UNCHANGED holder
  /\ UNCHANGED <<model, pc, steps, buffers, transitions, checkpoint, ran, calls, crashes, resumes>>
Return(p) ==
  /\ act[p].phase = "repeat" /\ FALSE \in Decisions(model[p], act[p].rep)
  /\ act' = [act EXCEPT ![p] = Off]
  /\ status' = [status EXCEPT ![p] = "done"]
  /\ pc' = IF p = Root THEN "returned" ELSE pc
  /\ UNCHANGED <<model, holder, steps, buffers, transitions, checkpoint, ran, calls, crashes, resumes>>

(***************************************************************************)
(* A partial order is walked level by level: every child whose             *)
(* predecessors in the reduction are complete.                             *)
(***************************************************************************)
OrderCursor(p, done) == IF p = Root THEN [kind |-> "order", done |-> done, at |-> None, rep |-> act[p].rep]
                        ELSE holder
(* Mutant: one complete predecessor is enough. *)
ReadyLevel_Any(p) == {i \in Indices(model[p]) \ act[p].completed :
                        LET preds == {e[1] : e \in {f \in model[p].edges : f[2] = i}}
                        IN  preds = {} \/ preds \cap act[p].completed # {}}
ReadyLevel(p) == {i \in Indices(model[p]) \ act[p].completed :
                    \A e \in model[p].edges : e[2] = i => e[1] \in act[p].completed}
Level(p) ==
  /\ act[p].phase = "level" /\ holder' = OrderCursor(p, act[p].completed)
  /\ IF ReadyLevel(p) = {}
     THEN /\ act' = [act EXCEPT ![p] = [Off EXCEPT !.phase = "repeat", !.rep = act[p].rep + 1]]
          /\ UNCHANGED status
     ELSE /\ act' = [act EXCEPT ![p].phase = "run", ![p].level = ReadyLevel(p),
                       ![p].concurrent = MaxWorkers > 1 /\ Cardinality(ReadyLevel(p)) > 1]
          /\ status' = [q \in DOMAIN status |->
                          IF q # Root /\ Parent(q) = p /\ IndexOf(q) \in ReadyLevel(p)
                          THEN "queued" ELSE status[q]]
  /\ UNCHANGED <<model, pc, steps, buffers, transitions, checkpoint, ran, calls, crashes, resumes>>

\* a level is over when all its children are: their buffered steps are flushed
\* in index order, each with a checkpoint of its own, then the first error, if
\* any, is raised
LevelOver(p) == /\ act[p].phase = "run"
                /\ \A i \in act[p].level : status[Child(p, i)] \in {"done", "error"}
LevelFailed(p) == \E i \in act[p].level : status[Child(p, i)] = "error"
(* Mutant: a failed child takes its siblings' buffered steps with it. *)
Unflushed_UnlessFailed(p) ==
  {i \in act[p].level : ~ LevelFailed(p) /\ buffers[Child(p, i)] # <<>>}
Unflushed(p) == {i \in act[p].level : buffers[Child(p, i)] # <<>>}
(* Mutant: the children are flushed from the last to the first. *)
NextFlushed_Last(p) == Child(p, Max(Unflushed(p)))
NextFlushed(p) == Child(p, Min(Unflushed(p)))
Flush(p) ==
  LET q == NextFlushed(p)
      b == Boundary(p)
  IN
  /\ LevelOver(p) /\ Unflushed(p) # {}
  /\ buffers' = [[buffers EXCEPT ![q] = Tail(@)] EXCEPT
                   ![b] = IF b = Root THEN @ ELSE Append(@, Head(buffers[q]))]
  /\ IF b = Root
     THEN /\ steps' = Append(steps, Head(buffers[q]))
          /\ checkpoint' = Checkpointed(Append(steps, Head(buffers[q])))
     ELSE UNCHANGED <<steps, checkpoint>>
  /\ UNCHANGED <<model, pc, status, act, holder, transitions, ran, calls, crashes, resumes>>
EndLevel(p) ==
  /\ LevelOver(p) /\ Unflushed(p) = {}
  /\ IF LevelFailed(p) THEN Raise(p)
     ELSE /\ act' = [act EXCEPT ![p].phase = "level", ![p].level = {}, ![p].concurrent = FALSE,
                                ![p].completed = @ \cup act[p].level]
          /\ UNCHANGED <<status, pc>>
  /\ UNCHANGED <<model, holder, steps, buffers, transitions, checkpoint, ran, calls, crashes,
                 resumes>>

(***************************************************************************)
(* A choice graph goes on to the first edge whose guard holds, else to the *)
(* unguarded edge with the greatest target.                                *)
(***************************************************************************)
ChoiceCursor(p, at) == IF p = Root THEN [kind |-> "choice", done |-> {}, at |-> at, rep |-> act[p].rep]
                       ELSE holder
Targets(p, guarded) == {e[2] : e \in {f \in model[p].edges :
                          /\ f[1] = act[p].cur
                          /\ (<<p, f[1], f[2]>> \in Guarded) = guarded}}
Outgoing(p) == Targets(p, TRUE) \cup (IF Targets(p, FALSE) = {} THEN {None} ELSE {Max(Targets(p, FALSE))})
ChildOver(p) ==
  /\ act[p].phase = "child" /\ status[Child(p, act[p].cur)] = "done"
  /\ act' = [act EXCEPT ![p].phase = "edge", ![p].level = {}]
  /\ holder' = ChoiceCursor(p, act[p].cur)
  /\ UNCHANGED <<model, pc, status, steps, buffers, transitions, checkpoint, ran, calls, crashes, resumes>>
\* _Counter.try_increment
(* Mutant: the budget is looked at after it has been passed. *)
Exhausted_Late == transitions > MaxTransitions
Exhausted == transitions >= MaxTransitions
Take(p) ==
  /\ act[p].phase = "edge" /\ act[p].cur # model[p].end
  /\ \E to \in Outgoing(p) :
       IF to = None \/ Exhausted
       THEN Raise(p) /\ UNCHANGED <<holder, transitions>>
       ELSE /\ transitions' = transitions + 1
            /\ act' = [act EXCEPT ![p].phase = "child", ![p].cur = to, ![p].level = {to}]
            /\ status' = [status EXCEPT ![Child(p, to)] = "queued"]
            /\ holder' = ChoiceCursor(p, to)
            /\ UNCHANGED pc
  /\ UNCHANGED <<model, steps, buffers, checkpoint, ran, calls, crashes, resumes>>
ReachEnd(p) ==
  /\ act[p].phase = "edge" /\ act[p].cur = model[p].end
  /\ act' = [act EXCEPT ![p] = [Off EXCEPT !.phase = "repeat", !.rep = act[p].rep + 1]]
  /\ UNCHANGED <<model, pc, status, holder, steps, buffers, transitions, checkpoint, ran, calls, crashes, resumes>>

(***************************************************************************)
(* _walk of a queued child.  A pool runs up to MaxWorkers children of a    *)
(* level; a serial level runs them in index order.                         *)
(***************************************************************************)
MayStart(p) ==
  /\ status[p] = "queued"
  /\ IF act[Parent(p)].concurrent
     THEN Cardinality({q \in Siblings(p) : Busy(q)}) < MaxWorkers
     ELSE \A q \in Siblings(p) : ~ Busy(q) /\ (status[q] = "queued" => IndexOf(p) <= IndexOf(q))
Descend(p) ==
  /\ p \in Composites(model) /\ MayStart(p)
  /\ act' = [act EXCEPT ![p] = [Off EXCEPT !.phase = "repeat"]]
  /\ status' = [status EXCEPT ![p] = "idle"]
  /\ UNCHANGED <<model, pc, holder, steps, buffers, transitions, checkpoint, ran, calls, crashes, resumes>>
Invoke(p) ==
  /\ p \in Leaves(model) /\ MayStart(p)
  /\ calls' = [calls EXCEPT ![p] = @ + 1]
  /\ \/ /\ status' = [status EXCEPT ![p] = "invoked"]
        /\ ran' = ran \cup {<<p, act[Root].rep>>}
     \/ /\ model[p].label \in Failing /\ status' = [status EXCEPT ![p] = "failed"]
        /\ UNCHANGED ran
  /\ UNCHANGED <<model, pc, act, holder, steps, buffers, transitions, checkpoint, crashes, resumes>>
StepOf(p, failed) == [leaf |-> p, failed |-> failed, rep |-> act[Parent(p)].rep]
RecordStep(p) ==
  /\ status[p] = "invoked" /\ Record(p, StepOf(p, FALSE))
  /\ status' = [status EXCEPT ![p] = "done"]
  /\ UNCHANGED <<model, pc, act, holder, transitions, ran, calls, crashes, resumes>>
RecordFailure(p) ==
  /\ status[p] = "failed" /\ Record(p, StepOf(p, TRUE))
  /\ Raise(p)
  /\ UNCHANGED <<model, holder, transitions, ran, calls, crashes, resumes>>

Step == \/ \E p \in Composites(model) : \/ RunAgain(p) \/ Return(p)
                                        \/ Level(p) \/ Flush(p) \/ EndLevel(p)
                                        \/ ChildOver(p) \/ Take(p) \/ ReachEnd(p)
        \/ \E p \in DOMAIN model \ {Root} : Descend(p) \/ Invoke(p) \/ RecordStep(p) \/ RecordFailure(p)
Walk == pc = "walking" /\ Step
Next == Execute \/ Crash \/ Walk
Spec == Init /\ [][Next]_vars

-----------------------------------------------------------------------------
Ended == pc \in {"returned", "refused"}

TypeOK ==
  /\ pc \in {"ready", "walking", "crashed", "refused", "returned"}
  /\ status \in [DOMAIN model -> {"idle", "queued", "invoked", "failed", "done", "error"}]
  /\ \A p \in Composites(model) : act[p].level \cup act[p].completed \subseteq Indices(model[p])
  /\ transitions \in 0 .. MaxTransitions

\* Repetitions are counted on across resumed calls: those recorded for the
\* top-level composite's own leaves never go back, and never pass its max.
RepetitionsAreCarried ==
  LET own == SelectSeq(steps, LAMBDA s : Len(s.leaf) = 1)
  IN  /\ \A i, j \in 1 .. Len(own) : i < j => own[i].rep <= own[j].rep
      /\ \A r \in ran : model[Root].max # Unbounded => r[2] < model[Root].max

\* Every invocation whose call came back is in the trace a caller gets, or in
\* the partial trace of the refusal, exactly once, also when a sibling that
\* ran beside it failed.
TraceShowsEveryCall == Ended => \A p \in Leaves(model) : Shown(steps, p) = calls[p]

\* q is over before p starts: they part at a partial order that orders them
Precedes(q, p) ==
  \E d \in 0 .. Len(p) - 1 :
    /\ d < Len(q) /\ Prefix(q, d) = Prefix(p, d)
    /\ model[Prefix(p, d)].kind = "order"
    /\ <<q[d+1], p[d+1]>> \in model[Prefix(p, d)].closure

\* No atom is invoked before everything ordered before it has been invoked
\* with success in the same repetition, whatever was lost in a crash.
OrderSurvivesResume ==
  \A r \in ran : \A q \in Leaves(model) : Precedes(q, r[1]) => <<q, r[2]>> \in ran

\* A walk of a top-level partial order that returns has invoked each leaf in
\* each repetition, over however many calls it took.
ResumeSkipsNothing ==
  pc = "returned" /\ model[Root].kind = "order" =>
    \A p \in Leaves(model) : \A r \in 0 .. model[Root].min - 1 : <<p, r>> \in ran

\* the trace a serial walk of an order of orders leaves
RECURSIVE SerialTrace(_, _)
RECURSIVE SerialLevels(_, _, _)
SerialChild(p, rep) == IF p \in Leaves(model) THEN <<[leaf |-> p, failed |-> FALSE, rep |-> rep]>>
                       ELSE SerialTrace(p, 0)
SerialLevels(p, rep, completed) ==
  LET level == {i \in Indices(model[p]) \ completed :
                  \A e \in model[p].closure : e[2] = i => e[1] \in completed}
  IN  IF level = {} THEN <<>>
      ELSE FoldLeft(LAMBDA acc, i : acc \o SerialChild(Child(p, i), rep), <<>>, SetToSortSeq(level, <))
           \o SerialLevels(p, rep, completed \cup level)
SerialTrace(p, rep) == IF rep = model[p].min THEN <<>>
                       ELSE SerialLevels(p, rep, {}) \o SerialTrace(p, rep + 1)

\* Threads change when work happens, never what the trace records: a walk
\* in one call leaves the trace of the serial walk, however its threads
\* were scheduled and however deep their buffers were nested.
TraceIsSerial ==
  /\ pc = "returned" /\ resumes = 1
  /\ \A p \in Composites(model) : model[p].kind = "order"
  => steps = SerialTrace(Root, 0)

\* A top-level choice, resumed any number of times, is one path of its graph:
\* what is recorded moves along its edges up to its end, no choice that was
\* recorded is made again, and what is left out of a child - the rest of a
\* branch that a crash or a failure cut - is left out once for each call that
\* was cut.
ResumeFollowsOnePath ==
  pc = "returned" /\ model[Root].kind = "choice" /\ model[Root].max = 1
  /\ (\A p \in Composites(model) \ {Root} : model[p].kind = "order" /\ model[p].min > 0) =>
    LET child(i) == steps[i].leaf[1]
        visited == {child(i) : i \in 1 .. Len(steps)}
        ranIn(p) == \E r \in ran : r[1] = p
    IN  /\ model[Root].end \in visited
        /\ \A i \in 1 .. Len(steps) - 1 :
             child(i) = child(i + 1) \/ <<child(i), child(i + 1)>> \in model[Root].edges
        /\ Cardinality({c \in visited : \E p \in Leaves(model) :
                           Under(Child(Root, c), p) /\ ~ ranIn(p)}) < resumes

\* A composite inside a top-level child is replayed in full when the walk is
\* resumed: a returned walk has run all of an order it has run a part of.
NestedIsReplayedInFull ==
  pc = "returned" =>
    \A p \in Composites(model) : \A r \in ran :
      model[p].kind = "order" /\ Under(p, r[1]) =>
        \A q \in Leaves(model) : Under(p, q) => <<q, r[2]>> \in ran
=============================================================================
