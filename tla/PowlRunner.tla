----------------------------- MODULE PowlRunner -----------------------------
(***************************************************************************)
(* run_pipeline of src/gymact/powl/runner.py: it drives a tree to its end  *)
(* or to a classified stall, firing every enabled leaf of a round in path  *)
(* order (step A), running their bindings in a thread pool (step B) and    *)
(* recording one event per fire (step C).  A round of one leaf takes the   *)
(* same three steps with the binding on the calling thread.                *)
(***************************************************************************)
EXTENDS Powl

CONSTANTS Models, Bounds,   \* trees and bounds a caller may hand in
          Labels, ClassOf,  \* PowlPipelineSpec: the class of each label
          Bindings,         \* action_bindings: label -> "none", "bare" or "gated"
          Failing           \* labels whose binding may raise

VARIABLES model, bound, bindings, partial, \* the arguments
          pc, marking,
          batch,      \* the leaves fired in this round, in order
          offered,    \* how many leaves the round set out to fire
          running,    \* leaves of the round whose binding has not returned
          errors,     \* leaves of the round whose binding raised
          fired,      \* every leaf fired so far, in order
          events,     \* the OCEL events recorded, in order
          turns,      \* how often the loop body has been entered
          result      \* what run_pipeline returned, or ""
vars == <<model, bound, bindings, partial, pc, marking, batch, offered, running,
          errors, fired, events, turns, result>>
arguments == <<model, bound, bindings, partial>>

Init == /\ model \in {m \in Models : ValidModel(m)}
        /\ bound \in Bounds /\ bindings \in Bindings /\ partial \in BOOLEAN
        /\ pc = "admit" /\ marking = InitialMarking(model)
        /\ batch = <<>> /\ offered = 0 /\ running = {} /\ errors = {}
        /\ fired = <<>> /\ events = <<>> /\ turns = 0 /\ result = ""

\* the four refusals of action_bindings; no bindings at all are always taken
BindingsRefused ==
  /\ \E l \in Labels : bindings[l] # "none"
  /\ \/ \E l \in Labels : bindings[l] # "none" /\ ClassOf[l] = "unknown"
     \/ \E l \in Labels : bindings[l] = "bare" /\ ClassOf[l] = "actuation"
     \/ \E l \in Labels : bindings[l] = "gated" /\ ClassOf[l] \in {"readonly", "oracle"}
     \/ /\ ~ partial
        /\ \E l \in Labels : bindings[l] = "none" /\ ClassOf[l] \in {"readonly", "actuation"}

Admit == /\ pc = "admit"
         /\ pc' = IF BindingsRefused THEN "refused" ELSE "loop"
         /\ UNCHANGED <<arguments, marking, batch, offered, running, errors, fired,
                        events, turns, result>>

(* Mutant: the marking bound, which enabled() does not see, is left out. *)
Stall_Blind(mk) ==
  CASE IsFinal(model, mk) -> "final"
    [] ~ IsFinal(model, mk)
         /\ (mk.fires >= bound.fires \/ EnabledPaths(model, mk, bound) = {}) ->
           ClassifyStall(model, mk, bound)
    [] OTHER -> "live"
\* classify_pipeline_stall
Stall(mk) ==
  CASE IsFinal(model, mk) -> "final"
    [] ~ IsFinal(model, mk)
         /\ (\/ mk.fires >= bound.fires
             \/ Cardinality(mk.done) >= bound.states
             \/ EnabledPaths(model, mk, bound) = {}) -> ClassifyStall(model, mk, bound)
    [] OTHER -> "live"

Return == pc' = "returned" /\ result' = Stall(marking)
Stopping == \/ IsFinal(model, marking)
            \/ marking.fires >= bound.fires
            \/ EnabledPaths(model, marking, bound) = {}
Stop == /\ pc = "loop" /\ Stopping /\ Return
        /\ UNCHANGED <<arguments, marking, batch, offered, running, errors, fired, events, turns>>

(***************************************************************************)
(* Step A.  The leaves are fired one after the other in path order; the    *)
(* first refusal ends the round.                                           *)
(***************************************************************************)
PathBefore(p, q) == \/ IsPrefix(p, q) /\ p # q
                    \/ \E i \in 1 .. Len(p) :
                         /\ i <= Len(q) /\ p[i] < q[i]
                         /\ \A j \in 1 .. i-1 : p[j] = q[j]
(* Mutant: a refused leaf is listed with the fired ones. *)
FireOne_Phantom(acc, p) ==
  IF acc.stopped THEN acc
  ELSE IF FireRefusal(model, acc.marking, p, bound) # ""
  THEN [acc EXCEPT !.batch = Append(@, p), !.stopped = TRUE]
  ELSE [acc EXCEPT !.batch = Append(@, p), !.marking = Fire(model, @, p)]
FireOne(acc, p) ==
  IF acc.stopped \/ FireRefusal(model, acc.marking, p, bound) # ""
  THEN [acc EXCEPT !.stopped = TRUE]
  ELSE [acc EXCEPT !.batch = Append(@, p), !.marking = Fire(model, @, p)]
FireAll(mk, paths) ==
  FoldLeft(FireOne, [marking |-> mk, batch |-> <<>>, stopped |-> FALSE],
           SetToSortSeq(paths, PathBefore))
Bound(p) == bindings[model[p].label] # "none"
(* Mutant: the round goes on to what its own fires have just enabled. *)
Round_Greedy == LET one == FireAll(marking, EnabledPaths(model, marking, bound))
                    two == FireAll(one.marking, EnabledPaths(model, one.marking, bound))
                IN  [marking |-> two.marking, batch |-> one.batch \o two.batch]
Round == FireAll(marking, EnabledPaths(model, marking, bound))
(* Mutant: a round that fired nothing is tried again. *)
StepA_Again ==
  /\ pc = "loop" /\ ~ Stopping /\ turns' = turns + 1 /\ UNCHANGED offered
  /\ \E round \in {Round} : batch' = round.batch /\ marking' = round.marking
  /\ fired' = fired \o batch'
  /\ running' = {p \in Range(batch') : Bound(p)}
  /\ pc' = IF batch' = <<>> THEN "loop" ELSE "bind"
  /\ UNCHANGED <<arguments, errors, events, result>>
StepA ==
  /\ pc = "loop" /\ ~ Stopping /\ turns' = turns + 1
  /\ offered' = Cardinality(EnabledPaths(model, marking, bound))
  /\ \E round \in {Round} : batch' = round.batch /\ marking' = round.marking
  /\ fired' = fired \o batch'
  /\ running' = {p \in Range(batch') : Bound(p)}
  /\ IF batch' = <<>> THEN Return ELSE pc' = "bind" /\ UNCHANGED result
  /\ UNCHANGED <<arguments, errors, events>>

\* Step B: a binding returns or raises
Finish(p) ==
  /\ p \in running
  /\ running' = running \ {p}
  /\ \/ UNCHANGED errors
     \/ model[p].label \in Failing /\ errors' = errors \cup {p}
  /\ UNCHANGED <<arguments, pc, marking, batch, offered, fired, events, turns, result>>

\* Step C: one event per fired leaf, in order, then the first error is raised
EventOf(p) == [path |-> p, kind |-> IF p \in errors THEN "error" ELSE "fire"]
(* Mutant: the first error is raised where it is met. *)
Recorded_UpToError ==
  LET upTo == {i \in 1 .. Len(batch) : \A j \in 1 .. i-1 : batch[j] \notin errors}
  IN  [i \in upTo |-> EventOf(batch[i])]
Recorded == [i \in 1 .. Len(batch) |-> EventOf(batch[i])]
StepC ==
  /\ pc = "bind" /\ running = {}
  /\ events' = events \o Recorded
  /\ pc' = IF errors # {} THEN "raised" ELSE "loop"
  /\ batch' = <<>> /\ offered' = 0
  /\ UNCHANGED <<arguments, marking, running, errors, fired, turns, result>>

Ended == pc \in {"returned", "raised", "refused"} /\ UNCHANGED vars
Finishing == \E p \in running : Finish(p)
Next == Admit \/ Stop \/ StepA \/ Finishing \/ StepC \/ Ended
Spec == Init /\ [][Next]_vars

-----------------------------------------------------------------------------
TypeOK ==
  /\ pc \in {"admit", "loop", "bind", "returned", "raised", "refused"}
  /\ Range(batch) \subseteq Leaves(model) /\ running \subseteq Range(batch)
  /\ errors \subseteq Range(fired)
  /\ marking.fires = Len(fired)
  /\ result \in {"", "final", "live", "BLOCKED:BOUND_EXHAUSTED", "BLOCKED:DEADLOCK"}

\* q must be over before p may start: they part at a partial order whose
\* closure orders their branches
Precedes(q, p) ==
  \E d \in 0 .. Len(p) - 1 :
    /\ d < Len(q) /\ Prefix(q, d) = Prefix(p, d)
    /\ model[Prefix(p, d)].kind = "order"
    /\ <<q[d+1], p[d+1]>> \in model[Prefix(p, d)].closure

\* While a binding runs, no binding of a leaf ordered before or after it
\* runs, and everything ordered before it has fired (runner.py steps A and B).
BindingsRespectTheOrder ==
  \A p \in running : \A q \in Leaves(model) :
    Precedes(q, p) => q \in Range(fired) /\ q \notin running

\* Nothing a binding did is lost from the log: whenever no round is under
\* way every fire has its event, in fire order, and a run raises exactly
\* when an event says so, also when a sibling of the same round raised.
EveryFireIsRecorded ==
  pc # "bind" =>
    /\ [i \in 1 .. Len(events) |-> events[i].path] = fired
    /\ pc = "raised" <=> \E i \in 1 .. Len(events) : events[i].kind = "error"

\* A run that returns has reached the end or says which bound stopped it;
\* it never returns as if work were still going on, nor calls a bound a
\* deadlock (runner.py:196-234).
StopsAreExplained == pc = "returned" => result \in {"final", "BLOCKED:BOUND_EXHAUSTED"}

\* "No silent hang": every turn of the loop but the last fires a leaf, so
\* the fire budget bounds the turns whatever bound a round meets half-way,
\* and a loop that is not over always has a next step.
EveryTurnAdvances ==
  /\ pc \in {"loop", "bind"} => turns <= Len(fired)
  /\ turns <= Len(fired) + 1

\* A round fires everything that was enabled unless a bound was exhausted
\* (runner.py:427-441).
WholeBatchFires ==
  pc = "bind" /\ Len(batch) < offered =>
    \/ marking.fires >= bound.fires
    \/ Cardinality(marking.done) >= bound.states
=============================================================================
