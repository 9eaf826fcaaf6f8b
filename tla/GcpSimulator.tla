---------------------------- MODULE GcpSimulator -----------------------------
(***************************************************************************)
(* The GCP control-plane simulator (gyms/gcp_simulator.py) over behaviour  *)
(* rules (gyms/gcp_behavior.py): requests are admitted against replay      *)
(* fixtures, enabled services and quotas, then take effect at once or as a *)
(* long-running operation that completes when the logical clock advances.  *)
(* The whole world is one value, which checkpoint() returns and restore()  *)
(* puts back.  A client pages through the resources while others change    *)
(* them.                                                                   *)
(*                                                                         *)
(* A method is a record of what its rule says; resource names are numbers  *)
(* (their sorted order), a resource has two fields, an IAM policy is one   *)
(* value.  Responses are their status codes.                               *)
(***************************************************************************)
EXTENDS Integers, Sequences, FiniteSets, SequencesExt, FiniteSetsExt, Functions

CONSTANTS
  Methods,      \* records [id, effect, long, api, limit, replay, empirical]
  Names,        \* resource names, numbers
  Apis,         \* services that can be enabled
  Enforce,      \* enforce_service_enablement
  PageSizes,    \* page sizes the client asks for
  MaxRequests,  \* bound: requests on one timeline
  MaxClock,     \* bound: the logical clock
  Restores,     \* bound: restores taken
  None

ReadEffects == {"READ_ONE", "READ_MANY", "IAM_GET", "OPERATION_GET"}
LongEffects == {"CREATE", "REPLACE", "PATCH", "DELETE", "SERVICE_ENABLE", "SERVICE_DISABLE",
                "CUSTOM"}
ReadOnly(m) == m.effect \in ReadEffects

GcpAssumption ==
  /\ \A m \in Methods : m.long => m.effect \in LongEffects
  /\ Names \subseteq Nat /\ PageSizes \subseteq Nat \ {0}
  /\ MaxRequests \in Nat /\ MaxClock \in Nat /\ Restores \in Nat
  /\ None \notin {"ok", "error", "cancelled"}

VARIABLES
  w,        \* the world: resources, iam, enabled services, operations,
            \* quota usage, clock, sequence, audit log and (history) the
            \* operations whose effect was applied, in order
  saved,    \* the last checkpoint, or None
  left,     \* restores left
  pager     \* the client: next offset, names seen, names there all along,
            \* and how many were deleted since its first page

vars == <<w, saved, left, pager>>

Limited == {m.id : m \in {x \in Methods : x.limit # None}}
NoPager == [at |-> "idle", offset |-> 0, seen |-> {}, stayed |-> {}, deleted |-> 0]
Value(a, b) == [a |-> a, b |-> b]

Init ==
  /\ \E R \in SUBSET Names, E \in SUBSET Apis :
       w = [res |-> [n \in R |-> Value(0, 0)], iam |-> << >>, on |-> E, ops |-> << >>,
            quota |-> [i \in Limited |-> 0], clock |-> 0, seq |-> 0, audit |-> << >>,
            applied |-> << >>]
  /\ saved = None /\ left = Restores /\ pager = NoPager

-----------------------------------------------------------------------------
(* Effects: each one takes a world to a world and a status *)

Say(x, status) == [w |-> x, status |-> status]
Drop(f, n) == Restrict(f, DOMAIN f \ {n})
Put(f, n, v) == [i \in DOMAIN f \cup {n} |-> IF i = n THEN v ELSE f[i]]

(* A create without a name takes the next sequence number for one; such    *)
(* names are disjoint from Names.                                          *)
Create(x, n, v) ==
  LET y == IF n = None THEN [x EXCEPT !.seq = @ + 1] ELSE x
      name == IF n = None THEN 0 - y.seq ELSE n IN
  IF name \in DOMAIN y.res THEN Say(y, 409)
  ELSE Say([y EXCEPT !.res = Put(@, name, Value(v, v))], 200)

OnResource(x, n, y) == IF n \in DOMAIN x.res THEN Say(y, 200) ELSE Say(x, 404)
Replace(x, n, v) == OnResource(x, n, [x EXCEPT !.res = Put(@, n, Value(v, v))])
Patch(x, n, v) == OnResource(x, n, [x EXCEPT !.res = Put(@, n, [@[n] EXCEPT !.a = v])])
Delete(x, n) == OnResource(x, n, [x EXCEPT !.res = Drop(@, n), !.iam = Drop(@, n)])

(* A policy is set whether or not there is such a resource, and whatever   *)
(* policy the writer has read.                                             *)
IamSet(x, n, v) == Say([x EXCEPT !.iam = Put(@, n, v)], 200)

ServiceEnable(x, n) == Say([x EXCEPT !.on = @ \cup {n}], 200)
ServiceDisable(x, n) == Say([x EXCEPT !.on = @ \ {n}], 200)

Index(x, k) == {i \in DOMAIN x.ops : x.ops[i].id = k}

(* Mutant: a cancelled operation keeps its pending effect and is only      *)
(* marked with the error.                                                  *)
OperationCancel_KeepsPending(x, k) ==
  IF Index(x, k) = {} THEN Say(x, 404)
  ELSE LET i == CHOOSE j \in Index(x, k) : TRUE IN
       Say(IF x.ops[i].done THEN x ELSE [x EXCEPT !.ops[i].end = "cancelled"], 200)

(* Mutant: a done operation is cancelled as well. *)
OperationCancel_DoneToo(x, k) ==
  IF Index(x, k) = {} THEN Say(x, 404)
  ELSE LET i == CHOOSE j \in Index(x, k) : TRUE IN
       Say([x EXCEPT !.ops[i].done = TRUE, !.ops[i].end = "cancelled"], 200)

(* Cancelling a done operation changes nothing and succeeds. *)
OperationCancel(x, k) ==
  IF Index(x, k) = {} THEN Say(x, 404)
  ELSE LET i == CHOOSE j \in Index(x, k) : TRUE IN
       Say(IF x.ops[i].done THEN x
           ELSE [x EXCEPT !.ops[i].done = TRUE, !.ops[i].end = "cancelled"], 200)

OperationDelete(x, k) ==
  IF Index(x, k) = {} THEN Say(x, 404)
  ELSE LET i == CHOOSE j \in Index(x, k) : TRUE IN
       Say([x EXCEPT !.ops = RemoveAt(@, i)], 200)

(* _apply_effect.  A custom method without a fixture raises (status 0). *)
Apply(x, m, n, v) ==
  CASE m.effect = "READ_ONE" -> Say(x, IF n \in DOMAIN x.res THEN 200 ELSE 404)
    [] m.effect \in {"READ_MANY", "IAM_GET"} -> Say(x, 200)
    [] m.effect = "OPERATION_GET" -> Say(x, IF Index(x, n) = {} THEN 404 ELSE 200)
    [] m.effect = "CREATE" -> Create(x, n, v)
    [] m.effect = "REPLACE" -> Replace(x, n, v)
    [] m.effect = "PATCH" -> Patch(x, n, v)
    [] m.effect = "DELETE" -> Delete(x, n)
    [] m.effect = "IAM_SET" -> IamSet(x, n, v)
    [] m.effect = "SERVICE_ENABLE" -> ServiceEnable(x, n)
    [] m.effect = "SERVICE_DISABLE" -> ServiceDisable(x, n)
    [] m.effect = "OPERATION_CANCEL" -> OperationCancel(x, n)
    [] m.effect = "OPERATION_DELETE" -> OperationDelete(x, n)
    [] OTHER -> Say(x, 0)

(* What a method's payload may name. *)
Targets(m) ==
  CASE m.effect \in {"SERVICE_ENABLE", "SERVICE_DISABLE"} -> Apis
    [] m.effect \in {"OPERATION_GET", "OPERATION_CANCEL", "OPERATION_DELETE"} ->
         {w.ops[i].id : i \in DOMAIN w.ops} \cup {0}
    [] m.effect = "CREATE" -> Names \cup {None}
    [] m.effect \in {"READ_MANY", "CUSTOM"} -> {None}
    [] OTHER -> Names

-----------------------------------------------------------------------------
(* Requests *)

StartOperation(x, m, n, v) ==
  Say([x EXCEPT !.seq = @ + 1,
                !.ops = Append(@, [id |-> x.seq + 1, m |-> m, n |-> n, v |-> v, done |-> FALSE,
                                   at |-> x.clock + 1, end |-> None])], 200)

ServiceEnabled(x, m) == Enforce => m.api \in x.on

Charged(x, m) ==
  IF ReadOnly(m) \/ m.limit = None THEN x ELSE [x EXCEPT !.quota[m.id] = @ + 1]
Exhausted(x, m) == ~ReadOnly(m) /\ m.limit # None /\ x.quota[m.id] >= m.limit

(* Mutant: the quota is charged before the service is known to be enabled. *)
Execute_ChargesFirst(x, m, n, v) ==
  CASE m.replay -> Say(x, 200)
    [] ~m.replay /\ m.effect = "CUSTOM" /\ ~m.empirical -> Say(x, 0)
    [] OTHER ->
       IF Exhausted(x, m) THEN Say(x, 429)
       ELSE IF ~ServiceEnabled(x, m) THEN Say(Charged(x, m), 403)
       ELSE IF m.long THEN StartOperation(Charged(x, m), m, n, v)
       ELSE Apply(Charged(x, m), m, n, v)

(* _execute_request, in the order of its early returns: a replay fixture   *)
(* answers without touching the world; the quota is charged once, here.    *)
Execute(x, m, n, v) ==
  CASE m.replay -> Say(x, 200)
    [] ~m.replay /\ m.effect = "CUSTOM" /\ ~m.empirical -> Say(x, 0)
    [] OTHER ->
       IF ~ServiceEnabled(x, m) THEN Say(x, 403)
       ELSE IF Exhausted(x, m) THEN Say(x, 429)
       ELSE IF m.long THEN StartOperation(Charged(x, m), m, n, v)
       ELSE Apply(Charged(x, m), m, n, v)

(* _record_audit *)
Audited(r, m) ==
  [r.w EXCEPT !.seq = @ + 1,
              !.audit = Append(@, [seq |-> r.w.seq + 1, m |-> m.id, status |-> r.status])]

(* What stayed and how many went since the client began, after a change of *)
(* the resources.                                                          *)
Follow ==
  LET gone == IF pager.at = "idle" THEN {} ELSE DOMAIN w.res \ DOMAIN w'.res IN
  pager' = [pager EXCEPT !.stayed = @ \cap DOMAIN w'.res, !.deleted = @ + Cardinality(gone)]

(* Mutant: the query capability is not checked against the rule. *)
Admits_Anything(cap, m) == TRUE

(* A read needs the query capability, a mutation the invoke capability. *)
Admits(cap, m) == (cap = "query") = ReadOnly(m)

(* actuate() for one method: an exception leaves what was charged and      *)
(* writes no audit entry.                                                  *)
Request(cap, m, n, v) ==
  /\ Len(w.audit) < MaxRequests /\ Admits(cap, m) /\ n \in Targets(m)
  /\ LET r == Execute(w, m, n, v) IN w' = IF r.status = 0 THEN r.w ELSE Audited(r, m)
  /\ Follow
  /\ UNCHANGED <<saved, left>>

-----------------------------------------------------------------------------
(* The clock *)

Due(x, i) == ~x.ops[i].done /\ x.ops[i].at =< x.clock

(* Mutant: an operation applies through admission again. *)
Completed_ChargesAgain(s, i) ==
  IF s.raised \/ ~Due(s.w, i) THEN s
  ELSE LET o == s.w.ops[i]
           r == Apply(Charged(s.w, o.m), o.m, o.n, o.v) IN
       IF r.status = 0 THEN [s EXCEPT !.raised = TRUE]
       ELSE [s EXCEPT !.w = [r.w EXCEPT !.ops[i].done = TRUE,
                                        !.ops[i].end = IF r.status >= 400 THEN "error" ELSE "ok",
                                        !.applied = Append(@, o.id)]]

(* One turn of _complete_due_operations.  An exception leaves the loop:    *)
(* what is done stays done, the rest waits.                                *)
Completed(s, i) ==
  IF s.raised \/ ~Due(s.w, i) THEN s
  ELSE LET o == s.w.ops[i]
           r == Apply(s.w, o.m, o.n, o.v) IN
       IF r.status = 0 THEN [s EXCEPT !.raised = TRUE]
       ELSE [s EXCEPT !.w = [r.w EXCEPT !.ops[i].done = TRUE,
                                        !.ops[i].end = IF r.status >= 400 THEN "error" ELSE "ok",
                                        !.applied = Append(@, o.id)]]

(* The operations in the order in which they were started. *)
CompleteDue(x) ==
  LET after[i \in 0..Len(x.ops)] ==
        IF i = 0 THEN [w |-> x, raised |-> FALSE] ELSE Completed(after[i - 1], i) IN
  after[Len(x.ops)].w

(* Mutant: an operation is due only after its time. *)
AdvanceClock_Late(t) ==
  /\ w.clock + t =< MaxClock
  /\ w' = [CompleteDue([w EXCEPT !.clock = @ + t - 1]) EXCEPT !.clock = w.clock + t]
  /\ Follow
  /\ UNCHANGED <<saved, left>>

(* The clock moves before anything completes, and stays moved when a       *)
(* completion raises.                                                      *)
AdvanceClock(t) ==
  /\ w.clock + t =< MaxClock
  /\ w' = CompleteDue([w EXCEPT !.clock = @ + t])
  /\ Follow
  /\ UNCHANGED <<saved, left>>

-----------------------------------------------------------------------------
(* Checkpoints *)

Checkpoint ==
  /\ saved # w /\ left > 0 /\ saved' = w
  /\ UNCHANGED <<w, left, pager>>

(* Mutant: the sequence is not part of what restore() puts back in step    *)
(* with the log.                                                           *)
Restore_ResetsSequence ==
  /\ saved # None /\ left > 0 /\ left' = left - 1
  /\ w' = [saved EXCEPT !.seq = 0] /\ pager' = NoPager
  /\ UNCHANGED saved

Restore ==
  /\ saved # None /\ left > 0 /\ left' = left - 1
  /\ w' = saved /\ pager' = NoPager
  /\ UNCHANGED saved

-----------------------------------------------------------------------------
(* A client that pages through all resources *)

Sorted(S) == SetToSortSeq(S, LAMBDA a, b : a < b)

(* Mutant: a full page is followed by the item after the next one. *)
NextOffset_Skips(offset, page, size) == offset + Len(page) + IF Len(page) = size THEN 1 ELSE 0

NextOffset(offset, page, size) == offset + Len(page)

(* _read_many: the page from the token's offset, and a token when more     *)
(* remains.                                                                *)
ReadPage(size) ==
  /\ PageSizes # {} /\ pager.at # "done"
  /\ LET all == Sorted(DOMAIN w.res)
         page == SubSeq(all, pager.offset + 1,
                        Min({Len(all), pager.offset + size}))
         next == NextOffset(pager.offset, page, size) IN
       pager' = [at |-> IF next < Len(all) THEN "paging" ELSE "done",
                 offset |-> next,
                 seen |-> pager.seen \cup ToSet(page), deleted |-> pager.deleted,
                 stayed |-> IF pager.at = "idle" THEN DOMAIN w.res ELSE pager.stayed]
  /\ UNCHANGED <<w, saved, left>>

-----------------------------------------------------------------------------
Next ==
  \/ \E cap \in {"query", "invoke"}, m \in Methods, v \in {1} :
       \E n \in Targets(m) : Request(cap, m, n, v)
  \/ \E t \in 1..2 : AdvanceClock(t)
  \/ Checkpoint \/ Restore
  \/ \E size \in PageSizes : ReadPage(size)

Spec == Init /\ [][Next]_vars

-----------------------------------------------------------------------------
(* Properties *)

OpIds == {w.ops[i].id : i \in DOMAIN w.ops}
Numbers == OpIds \cup {w.audit[i].seq : i \in DOMAIN w.audit}

TypeOK ==
  /\ \A n \in DOMAIN w.res : w.res[n] \in [{"a", "b"} -> 0..1]
  /\ w.clock \in 0..MaxClock /\ w.seq \in Nat
  /\ w.on \subseteq Apis
  /\ \A i \in Limited : w.quota[i] \in Nat
  /\ \A i \in DOMAIN w.ops : /\ w.ops[i].end \in {None, "ok", "error", "cancelled"}
                            /\ w.ops[i].done <=> w.ops[i].end # None
  /\ Len(w.audit) =< MaxRequests
  /\ pager.stayed \subseteq DOMAIN w.res

(* Usage of a quota is the number of requests the audit log shows          *)
(* admitted: every admitted request is charged once, at admission, whether *)
(* it succeeds, fails or completes later, and restores keep the two in     *)
(* step; and it never passes the limit.                                    *)
QuotaMatchesAudit ==
  \A m \in Methods :
    m.limit # None /\ ~m.replay =>
      /\ w.quota[m.id] =< m.limit
      /\ w.quota[m.id] = Cardinality({i \in DOMAIN w.audit :
                            w.audit[i].m = m.id /\ w.audit[i].status \notin {403, 429}})

(* On every timeline an operation's effect is applied at most once, exactly *)
(* once when it is done and was not cancelled, and never before it is done  *)
(* or after it was cancelled.                                               *)
OperationsApplyOnce ==
  /\ IsInjective(w.applied)
  /\ \A i \in DOMAIN w.ops :
       (w.ops[i].id \in ToSet(w.applied)) <=> w.ops[i].end \in {"ok", "error"}

(* When the clock has advanced, no operation that is due is still pending. *)
NothingDueIsPending == \A i \in DOMAIN w.ops : ~Due(w, i)

(* Operation names and audit entries never share a sequence number, and    *)
(* none is above the counter, across restores.                             *)
NumbersAreFresh ==
  /\ \A k \in Numbers : k =< w.seq
  /\ OpIds \cap {w.audit[i].seq : i \in DOMAIN w.audit} = {}
  /\ IsInjective([i \in DOMAIN w.audit |-> w.audit[i].seq])
  /\ Cardinality(OpIds) = Len(w.ops)

(* A request through the query capability changes nothing but the log. *)
QueryOnlyReads ==
  \A m \in Methods : \A n \in Targets(m) :
    Request("query", m, n, 1) =>
      /\ w'.res = w.res /\ w'.iam = w.iam /\ w'.on = w.on
      /\ w'.ops = w.ops /\ w'.quota = w.quota

(* A client that reads page after page to the end has seen every resource  *)
(* that was there all along, however many were created meanwhile, but for  *)
(* at most as many as were deleted meanwhile: a token is an offset, and    *)
(* what is deleted before it moves the rest up.                            *)
PagesCoverWhatStays ==
  pager.at = "done" => Cardinality(pager.stayed \ pager.seen) =< pager.deleted

(* What does not hold (README, section 5): whatever stays is on some page. *)
PagesCoverAllThatStays == pager.at = "done" => pager.stayed \subseteq pager.seen
=============================================================================
