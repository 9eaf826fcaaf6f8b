-------------------------- MODULE AutomationProofs ---------------------------
(***************************************************************************)
(* Proofs about Crown and about Automation, the controllers on top of it.  *)
(*                                                                         *)
(* Crown, for any number of executions, episodes, grants and attempts:     *)
(* what reaches the world was admitted, an ALIVE answer stands on an       *)
(* accepted act with an effect and on a later judgment, effects are not    *)
(* silent, and on worlds of their own, requests never double theirs.       *)
(*                                                                         *)
(* Automation, for any number of runs, batches and slots: each run that is *)
(* under way holds one slot of the semaphore, cleanups are reported        *)
(* truthfully, a world that outlives its batch is told of, and a batch     *)
(* that returns is complete.  What Crown promises of executions holds      *)
(* inside batches too, cancellation included.                              *)
(***************************************************************************)
EXTENDS Automation, FiniteSetTheorems, TLAPS

(* A step of x leaves the others where they are and what happened to them  *)
(* as it was; receipts and effects are only added.                         *)
Kept(x) ==
  /\ \A i \in DOMAIN ledger : i \in DOMAIN ledger' /\ ledger'[i] = ledger[i]
  /\ effects \subseteq effects'
  /\ \A y \in Execs : y # x =>
       /\ pc'[y] = pc[y] /\ ep'[y] = ep[y] /\ grant'[y] = grant[y] /\ attempt'[y] = attempt[y]
       /\ act'[y] = act[y] /\ standing'[y] = standing[y] /\ recon'[y] = recon[y]
       /\ \A n : (<<y, n>> \in effects' <=> <<y, n>> \in effects)
                   /\ (<<y, n>> \in pending' <=> <<y, n>> \in pending)

(* What AliveIsEvidenced says of one execution. *)
AliveStands(x) ==
  standing[x] = "ALIVE" =>
    \E i, j \in DOMAIN ledger :
      /\ i < j /\ AcceptedAt(i, ep[x], Key(x))
      /\ ledger[j].id = <<x, attempt[x], "verify">> /\ ledger[j].parent = ledger[i].id
      /\ ledger[j].verified /\ ledger[j].post = ExpectedOf[x]

-----------------------------------------------------------------------------
(* Operators *)

(* What concatenation keeps and adds. *)
LEMMA Joined ==
  ASSUME NEW S, NEW s \in Seq(S), NEW t \in Seq(S)
  PROVE  /\ s \o t \in Seq(S)
         /\ \A i \in DOMAIN s : i \in DOMAIN (s \o t) /\ (s \o t)[i] = s[i]
         /\ \A i \in DOMAIN t : Len(s) + i \in DOMAIN (s \o t) /\ (s \o t)[Len(s) + i] = t[i]
  OBVIOUS

(* Receipts of the broker are receipts. *)
LEMMA ReceiptFacts ==
  ASSUME CrownTypeOK, NEW x \in Execs, ep[x] \in Episodes,
         NEW kind \in Kinds, NEW op \in {"ACT", "VERIFY"}, NEW st \in Standings,
         NEW reason \in Reasons, NEW pre \in Digests, NEW post \in Digests,
         NEW parent \in Ids \cup {None}, NEW verified \in BOOLEAN
  PROVE  /\ Receipt(x, kind, op, st, reason, pre, post, parent, verified) \in Receipts
         /\ Bound(x, Receipt(x, kind, op, st, reason, pre, post, parent, verified)) \in Receipts
<1>1. attempt[x] \in 1..MaxAttempts /\ KeyOf[x] \in {KeyOf[y] : y \in Execs}
  BY DEF CrownTypeOK
<1>2. Key(x) \in Keys /\ CapOf[x] \in Caps
  BY <1>1 DEF Key, Keys, Caps
<1>3. <<x, attempt[x], kind>> \in Ids /\ <<x, attempt[x], "bound">> \in Ids
  BY <1>1 DEF Ids, Kinds
<1>4. Receipt(x, kind, op, st, reason, pre, post, parent, verified) \in Receipts
  BY <1>2, <1>3 DEF Receipt, Receipts
<1>5. ASSUME NEW r \in Receipts PROVE Bound(x, r) \in Receipts
  BY <1>3 DEF Bound, Receipts
<1> QED BY <1>4, <1>5

(* Answer(x, a, rs), seen from outside. *)
Answered(x, a, rs) ==
  /\ ledger' \in Seq(Receipts)
  /\ pc' \in [Execs -> {"idle", "act", "verify", "done", "raised"}]
  /\ act' \in [Execs -> Results] /\ standing' \in [Execs -> Standings]
  /\ \A y \in Execs : y # x => pc'[y] = pc[y] /\ act'[y] = act[y] /\ standing'[y] = standing[y]
  /\ \A i \in DOMAIN ledger : i \in DOMAIN ledger' /\ ledger'[i] = ledger[i]
  /\ \/ /\ Rejected(rs) /\ pc'[x] = "raised" /\ UNCHANGED <<act, standing, ledger>>
     \/ /\ ~Rejected(rs) /\ act'[x] = a
        /\ \A i \in DOMAIN rs : Len(ledger) + i \in DOMAIN ledger' /\ ledger'[Len(ledger) + i] = rs[i]
        /\ \/ a.accepted /\ pc'[x] \in {"verify", "raised"} /\ standing'[x] = standing[x]
           \/ /\ ~a.accepted /\ pc'[x] = "done"
              /\ standing'[x] = IF PossibleUnacknowledgedEffect(a) THEN "UNCERTAIN" ELSE a.standing

(* execute_verified adds its own receipts to the kernel's. *)
LEMMA AnswerFacts ==
  ASSUME CrownTypeOK, NEW x \in Execs, ep[x] \in Episodes, NEW a \in Results,
         NEW rs \in Seq(Receipts), Answer(x, a, rs)
  PROVE  Answered(x, a, rs)
<1> DEFINE source == Receipt(x, "act", "ACT", a.standing, a.reason, a.pre, a.post, None, FALSE)
           uncertain == Receipt(x, "uncertain", "ACT", "UNCERTAIN",
                                "ACTUATION_OUTCOME_UNCERTAIN", a.pre, a.post, a.id, FALSE)
           kept == Bound(x, [source EXCEPT !.id = a.id])
<1>1. /\ a.standing \in Standings /\ a.reason \in Reasons /\ a.pre \in Digests /\ a.post \in Digests
      /\ a.id \in Ids \cup {None} /\ a.accepted \in BOOLEAN
  BY DEF Results
<1>2. source \in Receipts
  <2>1. "act" \in Kinds
    BY DEF Kinds
  <2> QED BY <1>1, <2>1, ReceiptFacts
<1>3. uncertain \in Receipts /\ Bound(x, uncertain) \in Receipts
  <2>1. /\ "UNCERTAIN" \in Standings /\ "uncertain" \in Kinds
        /\ "ACTUATION_OUTCOME_UNCERTAIN" \in Reasons
    BY DEF Standings, Kinds, Reasons
  <2> QED BY <1>1, <2>1, ReceiptFacts
<1>4. kept \in Receipts
  <2>1. <<x, attempt[x], "bound">> \in Ids
    BY DEF Ids, Kinds, CrownTypeOK
  <2> HIDE DEF source
  <2> QED BY <1>1, <1>2, <2>1 DEF Bound, Receipts
<1>5. CASE Rejected(rs) /\ Raise(x) /\ UNCHANGED ledger
  BY <1>5 DEF Raise, Answered, CrownTypeOK
<1>6. ASSUME ~Rejected(rs), act' = [act EXCEPT ![x] = a],
             NEW more \in Seq(Receipts), ledger' = (ledger \o rs) \o more,
             pc' \in [Execs -> {"idle", "act", "verify", "done", "raised"}],
             standing' \in [Execs -> Standings],
             \A y \in Execs : y # x => pc'[y] = pc[y] /\ standing'[y] = standing[y],
             \/ a.accepted /\ pc'[x] \in {"verify", "raised"} /\ standing'[x] = standing[x]
             \/ /\ ~a.accepted /\ pc'[x] = "done"
                /\ standing'[x] = IF PossibleUnacknowledgedEffect(a) THEN "UNCERTAIN" ELSE a.standing
      PROVE  Answered(x, a, rs)
  <2>1. act' \in [Execs -> Results] /\ act'[x] = a /\ \A y \in Execs : y # x => act'[y] = act[y]
    BY <1>6 DEF CrownTypeOK
  <2>2. /\ ledger \in Seq(Receipts) /\ ledger \o rs \in Seq(Receipts)
        /\ \A i \in DOMAIN ledger : i \in DOMAIN (ledger \o rs) /\ (ledger \o rs)[i] = ledger[i]
        /\ \A i \in DOMAIN rs : Len(ledger) + i \in DOMAIN (ledger \o rs)
                                  /\ (ledger \o rs)[Len(ledger) + i] = rs[i]
    BY Joined DEF CrownTypeOK
  <2>3. /\ ledger' \in Seq(Receipts)
        /\ \A i \in DOMAIN (ledger \o rs) : i \in DOMAIN ledger' /\ ledger'[i] = (ledger \o rs)[i]
    BY <1>6, <2>2, Joined
  <2>4. \A i \in DOMAIN ledger : i \in DOMAIN ledger' /\ ledger'[i] = ledger[i]
    BY <2>2, <2>3
  <2>5. \A i \in DOMAIN rs : Len(ledger) + i \in DOMAIN ledger' /\ ledger'[Len(ledger) + i] = rs[i]
    BY <2>2, <2>3
  <2> QED BY <1>6, <2>1, <2>3, <2>4, <2>5 DEF Answered
<1>7. CASE /\ ~Rejected(rs) /\ act' = [act EXCEPT ![x] = a] /\ a.accepted
           /\ pc' = [pc EXCEPT ![x] = IF ep[x] \in live THEN "verify" ELSE "raised"]
           /\ ledger' = ledger \o rs /\ UNCHANGED standing
  <2>1. ledger' = (ledger \o rs) \o << >> /\ << >> \in Seq(Receipts)
    BY <1>7 DEF CrownTypeOK
  <2>2. /\ pc' \in [Execs -> {"idle", "act", "verify", "done", "raised"}]
        /\ standing' \in [Execs -> Standings] /\ pc'[x] \in {"verify", "raised"}
        /\ \A y \in Execs : y # x => pc'[y] = pc[y] /\ standing'[y] = standing[y]
    BY <1>7 DEF CrownTypeOK
  <2> QED BY <1>6, <1>7, <2>1, <2>2
<1>8. ASSUME ~Rejected(rs), act' = [act EXCEPT ![x] = a], ~a.accepted,
             NEW more \in Seq(Receipts), ledger' = (ledger \o rs) \o more,
             NEW st \in Standings, Return(x, st),
             st = IF PossibleUnacknowledgedEffect(a) THEN "UNCERTAIN" ELSE a.standing
      PROVE  Answered(x, a, rs)
  <2>1. /\ pc' \in [Execs -> {"idle", "act", "verify", "done", "raised"}]
        /\ standing' \in [Execs -> Standings] /\ pc'[x] = "done" /\ standing'[x] = st
        /\ \A y \in Execs : y # x => pc'[y] = pc[y] /\ standing'[y] = standing[y]
    BY <1>8 DEF CrownTypeOK, Return
  <2> QED BY <1>6, <1>8, <2>1
<1>9. CASE /\ ~Rejected(rs) /\ act' = [act EXCEPT ![x] = a] /\ ~a.accepted
           /\ PossibleUnacknowledgedEffect(a)
           /\ ledger' = ledger \o rs \o <<uncertain, Bound(x, uncertain)>> /\ Return(x, "UNCERTAIN")
  <2>1. <<uncertain, Bound(x, uncertain)>> \in Seq(Receipts)
    <3> HIDE DEF uncertain
    <3> QED BY <1>3
  <2>2. "UNCERTAIN" \in Standings
    BY DEF Standings
  <2> HIDE DEF uncertain
  <2> QED BY <1>8, <1>9, <2>1, <2>2
<1>10. CASE /\ ~Rejected(rs) /\ act' = [act EXCEPT ![x] = a] /\ ~a.accepted
            /\ ~PossibleUnacknowledgedEffect(a)
            /\ ledger' = ledger \o rs \o <<kept>> /\ Return(x, a.standing)
  <2>1. <<kept>> \in Seq(Receipts)
    <3> HIDE DEF kept
    <3> QED BY <1>4
  <2> HIDE DEF kept
  <2> QED BY <1>1, <1>8, <1>10, <2>1
<1> QED BY <1>5, <1>7, <1>9, <1>10 DEF Answer

-----------------------------------------------------------------------------
(* What a step of one execution leaves alone *)

(* Evidence does not go away. *)
LEMMA EvidenceStays ==
  ASSUME NEW x \in Execs, Kept(x), NEW e, NEW k, NEW id, Evidenced(e, k, id)
  PROVE  Evidenced(e, k, id)'
  BY DEF Kept, Evidenced, AcceptedAt

(* Another execution keeps its part of the invariant. *)
LEMMA OthersKeep ==
  ASSUME NEW x \in Execs, NEW y \in Execs, y # x, WorkIsSound(y), AliveStands(y), Kept(x)
  PROVE  WorkIsSound(y)' /\ AliveStands(y)'
<1>1. /\ pc'[y] = pc[y] /\ ep'[y] = ep[y] /\ grant'[y] = grant[y] /\ attempt'[y] = attempt[y]
      /\ act'[y] = act[y] /\ standing'[y] = standing[y]
      /\ \A n : (<<y, n>> \in effects' <=> <<y, n>> \in effects)
                  /\ (<<y, n>> \in pending' <=> <<y, n>> \in pending)
  BY DEF Kept
<1>2. PICK e, n, id : e = ep[y] /\ n = attempt[y] /\ id = act[y].id
  OBVIOUS
<1> DEFINE k == <<KeyOf[y], n>>
<1>3. e = ep'[y] /\ n = attempt'[y] /\ id = act'[y].id
  BY <1>1, <1>2
<1>4. Evidenced(e, k, id) => Evidenced(e, k, id)'
  BY EvidenceStays
<1>5. IsAdmitted(y) => IsAdmitted(y)'
  BY <1>1 DEF IsAdmitted
<1>6. Key(y) = k /\ (Key(y))' = k
  BY <1>2, <1>3 DEF Key
<1>7. pc[y] = "verify" => act[y].accepted /\ Evidenced(e, k, id)
  BY <1>2, <1>6 DEF WorkIsSound
<1>8. pc'[y] = "verify" => act'[y].accepted /\ Evidenced(ep[y], Key(y), act[y].id)'
  <2> HIDE DEF k
  <2>1. Evidenced(e, k, id)' => Evidenced(ep[y], Key(y), act[y].id)'
    BY <1>3, <1>6 DEF Evidenced, AcceptedAt
  <2> QED BY <1>1, <1>4, <1>7, <2>1
<1>9. WorkIsSound(y)'
  BY <1>1, <1>5, <1>8 DEF WorkIsSound
<1>10. AliveStands(y)'
  <2> SUFFICES ASSUME standing'[y] = "ALIVE" PROVE AliveStands(y)'
    BY DEF AliveStands
  <2> HIDE DEF k
  <2>1. PICK i \in DOMAIN ledger, j \in DOMAIN ledger :
          /\ i < j /\ AcceptedAt(i, e, k)
          /\ ledger[j].id = <<y, n, "verify">> /\ ledger[j].parent = ledger[i].id
          /\ ledger[j].verified /\ ledger[j].post = ExpectedOf[y]
    BY <1>1, <1>2, <1>6 DEF AliveStands
  <2>2. /\ i \in DOMAIN ledger' /\ j \in DOMAIN ledger' /\ ledger'[i] = ledger[i]
        /\ ledger'[j] = ledger[j]
    BY DEF Kept
  <2>3. AcceptedAt(i, ep[y], Key(y))'
    BY <1>3, <1>6, <2>1, <2>2 DEF AcceptedAt, Kept
  <2> QED BY <1>3, <2>1, <2>2, <2>3 DEF AliveStands
<1> QED BY <1>9, <1>10

(* What is cached stays evidenced. *)
LEMMA SameCache ==
  ASSUME CacheIsEvidenced, NEW x \in Execs, Kept(x), cache' = cache
  PROVE  CacheIsEvidenced'
<1> SUFFICES ASSUME NEW e \in Episodes, NEW k \in Keys, cache[e][k] # None
             PROVE  /\ cache[e][k].result.accepted <=> cache[e][k].result.standing = "ALIVE"
                    /\ cache[e][k].result.accepted => Evidenced(e, k, cache[e][k].result.id)'
  BY DEF CacheIsEvidenced
<1>1. PICK id : id = cache[e][k].result.id
  OBVIOUS
<1>2. cache[e][k].result.accepted => Evidenced(e, k, id)
  BY <1>1 DEF CacheIsEvidenced
<1>3. Evidenced(e, k, id) => Evidenced(e, k, id)'
  BY EvidenceStays
<1>4. Evidenced(e, k, id)' => Evidenced(e, k, cache[e][k].result.id)'
  BY <1>1 DEF Evidenced
<1> QED BY <1>2, <1>3, <1>4 DEF CacheIsEvidenced

(* So a step has to account for the execution that takes it. *)
LEMMA StepKeeps ==
  ASSUME CrownInvariant, NEW x \in Execs, Kept(x), WorkIsSound(x)', AliveStands(x)',
         CacheIsEvidenced', CrownTypeOK'
  PROVE  CrownInvariant'
<1>1. ASSUME NEW y \in Execs PROVE WorkIsSound(y)' /\ AliveStands(y)'
  <2>1. WorkIsSound(y) /\ AliveStands(y)
    BY DEF CrownInvariant, AliveIsEvidenced, AliveStands
  <2> QED BY <2>1, OthersKeep
<1>2. AliveIsEvidenced'
  BY <1>1 DEF AliveStands, AliveIsEvidenced
<1> QED BY <1>1, <1>2 DEF CrownInvariant

-----------------------------------------------------------------------------
(* The kernel's act() *)

(* What the outcomes of a fresh act() have in common: acceptance means the *)
(* effect, an effect still to come means a timeout, and what was applied   *)
(* is seen by the observation that follows, unless that one fails.         *)
LEMMA OutcomeFacts ==
  ASSUME CrownAssumption, CrownTypeOK, NEW x \in Execs, ep[x] \in Episodes,
         NEW o \in ActOutcomes(x)
  PROVE  /\ o[1] \in {"ALIVE", "BLOCKED", "REFUSED"} /\ o[2] \in Reasons /\ o[4] \in Values
         /\ o[3] \in {"applied", "none", "pending"}
         /\ o[1] = "ALIVE" => o[3] = "applied"
         /\ o[3] = "pending" =>
              "late" \in Faults /\ o[1] = "BLOCKED" /\ o[2] = "ACTUATION_TIMEOUT"
         /\ o[3] = "applied" /\ "observe" \notin Faults => o[4] = ValOf[x]
         /\ o[3] = "none" => o[4] = world[ep[x]]
<1>1. ValOf[x] \in Values /\ world[ep[x]] \in Values
  BY DEF CrownAssumption, CrownTypeOK
<1>2. {"NONE", "PROVIDER_ERROR", "ACTUATION_TIMEOUT", "OBSERVATION_FAILED", "AUTHORITY_REFUSED"}
        \subseteq Reasons
  BY DEF Reasons, Dispositions
<1>3. \/ o = <<"ALIVE", "NONE", "applied", ValOf[x]>>
      \/ \E why \in {"PROVIDER_ERROR", "ACTUATION_TIMEOUT"} : o = <<"BLOCKED", why, "applied", ValOf[x]>>
      \/ \E why \in {"PROVIDER_ERROR", "ACTUATION_TIMEOUT"} :
            o = <<"BLOCKED", why, "none", world[ep[x]]>>
      \/ "observe" \in Faults /\ o = <<"BLOCKED", "OBSERVATION_FAILED", "applied", world[ep[x]]>>
      \/ "late" \in Faults /\ o = <<"BLOCKED", "ACTUATION_TIMEOUT", "pending", world[ep[x]]>>
      \/ o = <<"REFUSED", "AUTHORITY_REFUSED", "none", world[ep[x]]>>
  BY DEF ActOutcomes
<1> QED BY <1>1, <1>2, <1>3

(* A raise leaves the execution without an answer. *)
LEMMA RaiseFacts ==
  ASSUME CrownTypeOK, NEW x \in Execs, Raise(x)
  PROVE  /\ pc' \in [Execs -> {"idle", "act", "verify", "done", "raised"}] /\ pc'[x] = "raised"
         /\ \A y \in Execs : y # x => pc'[y] = pc[y]
         /\ UNCHANGED <<standing, act>>
  BY DEF Raise, CrownTypeOK

(* An answer without an effect: a replay, or a refusal under a used key. *)
LEMMA RepliesKeep ==
  ASSUME CrownAssumption, CrownInvariant, NEW x \in Execs, pc[x] = "act",
         UNCHANGED <<ep, grant, attempt, recon, live, world, cache, effects, pending>>,
         NEW a \in Results, NEW rs, Answered(x, a, rs), a.accepted <=> a.standing = "ALIVE",
         a.accepted => Evidenced(ep[x], Key(x), a.id)
  PROVE  CrownInvariant' /\ Kept(x)
<1>1. CrownTypeOK /\ WorkIsSound(x) /\ AliveStands(x) /\ CacheIsEvidenced
  BY DEF CrownInvariant, AliveIsEvidenced, AliveStands
<1>2. standing[x] = "NONE" /\ IsAdmitted(x)
  BY <1>1 DEF WorkIsSound
<1>3. Kept(x)
  BY DEF Kept, Answered
<1>4. CrownTypeOK'
  BY <1>1 DEF Answered, CrownTypeOK
<1>5. IsAdmitted(x)'
  BY <1>2 DEF IsAdmitted
<1>6. pc'[x] \in {"verify", "raised", "done"}
  BY DEF Answered
<1>7. pc'[x] = "verify" =>
        standing'[x] = "NONE" /\ act'[x].accepted /\ Evidenced(ep[x], Key(x), act[x].id)'
  <2> SUFFICES ASSUME pc'[x] = "verify"
               PROVE  standing'[x] = "NONE" /\ act'[x].accepted
                        /\ Evidenced(ep[x], Key(x), act[x].id)'
    OBVIOUS
  <2>1. a.accepted /\ act'[x] = a /\ standing'[x] = standing[x]
    BY DEF Answered
  <2>2. PICK e, k : e = ep[x] /\ k = Key(x)
    OBVIOUS
  <2>3. e = ep'[x] /\ k = Key(x)'
    BY <2>2 DEF Key
  <2>4. PICK id : id = a.id
    OBVIOUS
  <2>5. Evidenced(e, k, id)'
    BY <1>3, <2>1, <2>2, <2>4, EvidenceStays
  <2> QED BY <1>2, <2>1, <2>3, <2>4, <2>5 DEF Evidenced, AcceptedAt
<1>8. \A n \in 1..MaxAttempts : <<x, n>> \in effects' \cup pending' => n <= attempt'[x]
  BY <1>1 DEF WorkIsSound
<1>9. <<x, attempt'[x]>> \notin pending'
  BY <1>1 DEF WorkIsSound, CrownTypeOK
<1>10. WorkIsSound(x)'
  BY <1>5, <1>6, <1>7, <1>8, <1>9 DEF WorkIsSound
<1>11. AliveStands(x)'
  <2>1. standing'[x] # "ALIVE"
    BY <1>2 DEF Answered
  <2> QED BY <2>1 DEF AliveStands
<1> QED BY <1>1, <1>3, <1>4, <1>10, <1>11, SameCache, StepKeeps

(* The call raises before anything happened. *)
LEMMA RaisesKeep ==
  ASSUME CrownAssumption, CrownInvariant, NEW x \in Execs, pc[x] \in {"act", "verify"}, Raise(x),
         UNCHANGED <<ep, grant, attempt, recon, live, world, cache, ledger, effects, pending>>
  PROVE  CrownInvariant' /\ Kept(x)
<1>1. CrownTypeOK /\ WorkIsSound(x) /\ AliveStands(x) /\ CacheIsEvidenced
  BY DEF CrownInvariant, AliveIsEvidenced, AliveStands
<1>2. /\ pc' \in [Execs -> {"idle", "act", "verify", "done", "raised"}] /\ pc'[x] = "raised"
      /\ \A y \in Execs : y # x => pc'[y] = pc[y]
      /\ UNCHANGED <<standing, act>>
  BY <1>1, RaiseFacts
<1>3. Kept(x)
  BY <1>2 DEF Kept
<1>4. CrownTypeOK'
  BY <1>1, <1>2 DEF CrownTypeOK
<1>5. WorkIsSound(x)'
  BY <1>1, <1>2 DEF WorkIsSound, IsAdmitted
<1>6. AliveStands(x)'
  <2>1. standing'[x] # "ALIVE"
    BY <1>1, <1>2 DEF WorkIsSound
  <2> QED BY <2>1 DEF AliveStands
<1> QED BY <1>1, <1>3, <1>4, <1>5, <1>6, SameCache, StepKeeps

(* The receipts and the answer of act() are well formed. *)
LEMMA ActReceipt ==
  ASSUME CrownTypeOK, NEW x \in Execs, ep[x] \in Episodes, NEW st \in Standings,
         NEW reason \in Reasons, NEW pre \in Values, NEW post \in Values, NEW ok \in BOOLEAN
  PROVE  /\ <<Receipt(x, "act", "ACT", st, reason, pre, post, None, FALSE)>> \in Seq(Receipts)
         /\ [accepted |-> ok, standing |-> st, reason |-> reason,
             id |-> <<x, attempt[x], "act">>, pre |-> pre, post |-> post] \in Results
<1>1. "act" \in Kinds /\ pre \in Digests /\ post \in Digests
  BY DEF Kinds, Digests
<1>2. <<x, attempt[x], "act">> \in Ids
  BY <1>1 DEF Ids, CrownTypeOK
<1>3. Receipt(x, "act", "ACT", st, reason, pre, post, None, FALSE) \in Receipts
  BY <1>1, ReceiptFacts
<1>4. <<Receipt(x, "act", "ACT", st, reason, pre, post, None, FALSE)>> \in Seq(Receipts)
  <2>1. ASSUME NEW r \in Receipts PROVE <<r>> \in Seq(Receipts)
    OBVIOUS
  <2> QED BY <1>3, <2>1
<1>5. [accepted |-> ok, standing |-> st, reason |-> reason,
       id |-> <<x, attempt[x], "act">>, pre |-> pre, post |-> post] \in Results
  BY <1>1, <1>2 DEF Results
<1> QED BY <1>4, <1>5

(* A fresh act() with outcome o. *)
FreshAct(x, o, a, rs) ==
  /\ a = [accepted |-> o[1] = "ALIVE", standing |-> o[1], reason |-> o[2],
          id |-> <<x, attempt[x], "act">>, pre |-> world[ep[x]], post |-> o[4]]
  /\ rs = <<Receipt(x, "act", "ACT", o[1], o[2], a.pre, a.post, None, FALSE)>>
  /\ cache' = IF Rejected(rs) THEN cache
              ELSE [cache EXCEPT ![ep[x]][Key(x)] = [intent |-> Intent(x), result |-> a]]
  /\ world' = IF o[3] = "applied" THEN [world EXCEPT ![ep[x]] = ValOf[x]] ELSE world
  /\ effects' = IF o[3] = "applied" THEN effects \cup {<<x, attempt[x]>>} ELSE effects
  /\ pending' = IF o[3] = "pending" THEN pending \cup {<<x, attempt[x]>>} ELSE pending

(* It is answered, receipted, and cached with its evidence. *)
LEMMA FreshFacts ==
  ASSUME CrownAssumption, CrownTypeOK, NEW x \in Execs, ep[x] \in Episodes,
         NEW o \in ActOutcomes(x), NEW a, NEW rs, FreshAct(x, o, a, rs), Answer(x, a, rs)
  PROVE  /\ a \in Results /\ rs \in Seq(Receipts) /\ Answered(x, a, rs)
         /\ a.accepted <=> a.standing = "ALIVE"
         /\ a.accepted <=> o[1] = "ALIVE"
         /\ o[3] = "pending" => ~a.accepted /\ PossibleUnacknowledgedEffect(a)
         /\ a.accepted /\ ~Rejected(rs) =>
              \E i \in DOMAIN ledger' :
                /\ ledger'[i].op = "ACT" /\ ledger'[i].standing = "ALIVE" /\ ledger'[i].id = a.id
                /\ ledger'[i].ep = ep[x] /\ ledger'[i].key = Key(x)
                /\ <<a.id[1], a.id[2]>> \in effects'
<1>1. /\ o[1] \in Standings /\ o[2] \in Reasons /\ o[4] \in Values /\ world[ep[x]] \in Values
      /\ (o[1] = "ALIVE") \in BOOLEAN
  BY OutcomeFacts DEF Standings, CrownTypeOK
<1>2. /\ o[1] = "ALIVE" => o[3] = "applied"
      /\ o[3] = "pending" => o[1] = "BLOCKED" /\ o[2] = "ACTUATION_TIMEOUT"
  BY OutcomeFacts
<1>3. /\ a.accepted = (o[1] = "ALIVE") /\ a.standing = o[1] /\ a.reason = o[2]
      /\ a.id = <<x, attempt[x], "act">> /\ a.pre = world[ep[x]] /\ a.post = o[4]
  BY DEF FreshAct
<1>4. a \in Results /\ rs \in Seq(Receipts)
  BY <1>1, <1>3, ActReceipt DEF FreshAct
<1>5. Answered(x, a, rs)
  BY <1>4, AnswerFacts
<1>6. o[3] = "pending" => ~a.accepted /\ PossibleUnacknowledgedEffect(a)
  BY <1>2, <1>3 DEF PossibleUnacknowledgedEffect
<1>7. ASSUME a.accepted, ~Rejected(rs)
      PROVE  \E i \in DOMAIN ledger' :
                /\ ledger'[i].op = "ACT" /\ ledger'[i].standing = "ALIVE" /\ ledger'[i].id = a.id
                /\ ledger'[i].ep = ep[x] /\ ledger'[i].key = Key(x)
                /\ <<a.id[1], a.id[2]>> \in effects'
  <2>1. 1 \in DOMAIN rs /\ rs[1] = Receipt(x, "act", "ACT", o[1], o[2], a.pre, a.post, None, FALSE)
    BY DEF FreshAct
  <2>2. /\ rs[1].op = "ACT" /\ rs[1].standing = "ALIVE" /\ rs[1].id = a.id /\ rs[1].ep = ep[x]
        /\ rs[1].key = Key(x)
    <3>1. ASSUME NEW r, r = Receipt(x, "act", "ACT", o[1], o[2], a.pre, a.post, None, FALSE)
          PROVE  /\ r.op = "ACT" /\ r.standing = o[1] /\ r.id = <<x, attempt[x], "act">>
                 /\ r.ep = ep[x] /\ r.key = Key(x)
      BY <3>1 DEF Receipt
    <3> QED BY <1>3, <1>7, <2>1, <3>1
  <2>3. Len(ledger) + 1 \in DOMAIN ledger' /\ ledger'[Len(ledger) + 1] = rs[1]
    BY <1>5, <1>7, <2>1 DEF Answered
  <2>4. <<a.id[1], a.id[2]>> \in effects'
    BY <1>2, <1>3, <1>7 DEF FreshAct
  <2> QED BY <2>2, <2>3, <2>4
<1> QED BY <1>3, <1>4, <1>5, <1>6, <1>7

(* A fresh act() keeps the invariant. *)
LEMMA FreshKeeps ==
  ASSUME CrownAssumption, CrownInvariant, NEW x \in Execs, pc[x] = "act",
         UNCHANGED <<ep, grant, attempt, recon, live>>,
         NEW o \in ActOutcomes(x), NEW a, NEW rs, FreshAct(x, o, a, rs), Answer(x, a, rs)
  PROVE  CrownInvariant' /\ Kept(x)
<1>1. CrownTypeOK /\ WorkIsSound(x) /\ AliveStands(x) /\ CacheIsEvidenced
  BY DEF CrownInvariant, AliveIsEvidenced, AliveStands
<1>2. standing[x] = "NONE" /\ IsAdmitted(x) /\ ep[x] \in Episodes
  BY <1>1 DEF WorkIsSound, IsAdmitted
<1>3. /\ a \in Results /\ rs \in Seq(Receipts) /\ Answered(x, a, rs)
      /\ a.accepted <=> a.standing = "ALIVE"
      /\ o[3] = "pending" => ~a.accepted /\ PossibleUnacknowledgedEffect(a)
      /\ a.accepted /\ ~Rejected(rs) =>
           \E i \in DOMAIN ledger' :
             /\ ledger'[i].op = "ACT" /\ ledger'[i].standing = "ALIVE" /\ ledger'[i].id = a.id
             /\ ledger'[i].ep = ep[x] /\ ledger'[i].key = Key(x)
             /\ <<a.id[1], a.id[2]>> \in effects'
  BY <1>1, <1>2, FreshFacts
<1>4. PICK e, k, n : e = ep[x] /\ k = Key(x) /\ n = attempt[x]
  OBVIOUS
<1>5. /\ e = ep'[x] /\ k = Key(x)' /\ n = attempt'[x] /\ e \in Episodes /\ k \in Keys
      /\ n \in 1..MaxAttempts
  BY <1>1, <1>2, <1>4 DEF Key, Keys, CrownTypeOK
<1>6. effects \subseteq effects' /\ effects' \subseteq effects \cup {<<x, n>>}
  BY <1>4 DEF FreshAct
<1>7. pending \subseteq pending' /\ pending' \subseteq pending \cup {<<x, n>>}
  BY <1>4 DEF FreshAct
<1>8. Kept(x)
  <2>1. \A y \in Execs : \A m : y # x => <<y, m>> # <<x, n>>
    OBVIOUS
  <2> QED BY <1>3, <1>6, <1>7, <2>1 DEF Kept, Answered
<1>9. ASSUME a.accepted, ~Rejected(rs), NEW id, id = a.id PROVE Evidenced(e, k, id)'
  BY <1>3, <1>4, <1>9 DEF Evidenced, AcceptedAt
<1>10. CrownTypeOK'
  <2>1. world' \in [Episodes -> Values]
    BY <1>1, <1>4, <1>5 DEF CrownTypeOK, FreshAct, CrownAssumption
  <2>2. [intent |-> Intent(x), result |-> a] \in Entries
    BY <1>3 DEF Entries, Intent, Caps, CrownAssumption
  <2>3. cache' \in [Episodes -> [Keys -> Entries \cup {None}]]
    <3> DEFINE c == [intent |-> Intent(x), result |-> a]
    <3>1. cache' = cache \/ cache' = [cache EXCEPT ![e][k] = c]
      BY <1>4 DEF FreshAct
    <3> HIDE DEF c
    <3>2. c \in Entries \cup {None}
      BY <2>2 DEF c
    <3>3. cache \in [Episodes -> [Keys -> Entries \cup {None}]]
      BY <1>1 DEF CrownTypeOK
    <3> QED BY <1>5, <3>1, <3>2, <3>3
  <2>4. effects' \subseteq Attempts /\ pending' \subseteq Attempts
    BY <1>1, <1>5, <1>6, <1>7 DEF CrownTypeOK, Attempts
  <2> QED BY <1>1, <1>3, <2>1, <2>3, <2>4 DEF CrownTypeOK, Answered
<1>11. CacheIsEvidenced'
  <2> SUFFICES ASSUME NEW f \in Episodes, NEW l \in Keys, NEW c, c = cache'[f][l], c # None
               PROVE  /\ c.result.accepted <=> c.result.standing = "ALIVE"
                      /\ c.result.accepted => Evidenced(f, l, c.result.id)'
    BY DEF CacheIsEvidenced
  <2>1. cache \in [Episodes -> [Keys -> Entries \cup {None}]]
    BY <1>1 DEF CrownTypeOK
  <2>2. CASE c = cache[f][l]
    <3>1. PICK id : id = c.result.id
      OBVIOUS
    <3>2. /\ c.result.accepted <=> c.result.standing = "ALIVE"
          /\ c.result.accepted => Evidenced(f, l, id)
      BY <1>1, <2>2, <3>1 DEF CacheIsEvidenced
    <3> QED BY <1>8, <3>1, <3>2, EvidenceStays
  <2>3. CASE c # cache[f][l]
    <3> DEFINE d == [intent |-> Intent(x), result |-> a]
    <3>1. ~Rejected(rs) /\ cache' = [cache EXCEPT ![e][k] = d]
      BY <1>4, <2>3 DEF FreshAct
    <3> HIDE DEF d
    <3>2. f = e /\ l = k /\ c = d
      BY <1>5, <2>1, <2>3, <3>1
    <3>3. c.result = a
      BY <3>2 DEF d
    <3>4. PICK id : id = a.id
      OBVIOUS
    <3> QED BY <1>3, <1>9, <3>1, <3>2, <3>3, <3>4
  <2> QED BY <2>2, <2>3
<1>12. WorkIsSound(x)'
  <2>1. IsAdmitted(x)'
    BY <1>2 DEF IsAdmitted
  <2>2. pc'[x] \in {"verify", "raised", "done"}
    BY <1>3 DEF Answered
  <2>3. pc'[x] = "verify" =>
          standing'[x] = "NONE" /\ act'[x].accepted /\ Evidenced(ep[x], Key(x), act[x].id)'
    <3> SUFFICES ASSUME pc'[x] = "verify"
                 PROVE  standing'[x] = "NONE" /\ act'[x].accepted
                          /\ Evidenced(ep[x], Key(x), act[x].id)'
      OBVIOUS
    <3>1. a.accepted /\ act'[x] = a /\ standing'[x] = standing[x] /\ ~Rejected(rs)
      BY <1>3 DEF Answered
    <3>2. PICK id : id = a.id
      OBVIOUS
    <3>3. Evidenced(e, k, id)'
      BY <1>9, <3>1, <3>2
    <3> QED BY <1>2, <1>5, <3>1, <3>2, <3>3 DEF Evidenced, AcceptedAt
  <2>4. \A m \in 1..MaxAttempts : <<x, m>> \in effects' \cup pending' => m <= attempt'[x]
    BY <1>1, <1>5, <1>6, <1>7 DEF WorkIsSound, CrownTypeOK
  <2>5. <<x, attempt'[x]>> \in pending' =>
          pc'[x] = "raised" \/ (pc'[x] = "done" /\ standing'[x] = "UNCERTAIN")
    <3>1. <<x, n>> \in pending' => o[3] = "pending"
      BY <1>1, <1>4 DEF WorkIsSound, FreshAct
    <3> QED BY <1>3, <1>5, <3>1 DEF Answered
  <2> QED BY <2>1, <2>2, <2>3, <2>4, <2>5 DEF WorkIsSound
<1>13. AliveStands(x)'
  <2>1. standing'[x] # "ALIVE"
    BY <1>2, <1>3 DEF Answered
  <2> QED BY <2>1 DEF AliveStands
<1> QED BY <1>8, <1>10, <1>11, <1>12, <1>13, StepKeeps

(* An answer that reaches no world: under this key there was one already. *)
Replies(x) ==
  /\ cache[ep[x]][Key(x)] # None
  /\ UNCHANGED <<world, cache, effects, pending>>
  /\ \E a \in Results, rs \in Seq(Receipts) :
       /\ Answer(x, a, rs) /\ Answered(x, a, rs) /\ (a.accepted <=> a.standing = "ALIVE")
       /\ a.accepted => Evidenced(ep[x], Key(x), a.id)
       /\ \/ rs = << >>
          \/ rs = <<Receipt(x, "act", "ACT", "REFUSED", "IDEMPOTENCY_KEY_CONFLICT",
                            world[ep[x]], world[ep[x]], None, FALSE)>>

(* The ways act() can end. *)
LEMMA ActCases ==
  ASSUME CrownAssumption, CrownInvariant, NEW x \in Execs, Act(x)
  PROVE  /\ pc[x] = "act" /\ UNCHANGED <<ep, grant, attempt, recon, live>>
         /\ ep[x] \in Episodes /\ Key(x) \in Keys
         /\ \/ Replies(x)
            \/ Raise(x) /\ UNCHANGED <<world, cache, ledger, effects, pending>>
            \/ /\ cache[ep[x]][Key(x)] = None
               /\ \E o \in ActOutcomes(x) : \E a, rs : FreshAct(x, o, a, rs) /\ Answer(x, a, rs)
<1> DEFINE c == cache[ep[x]][Key(x)]
           w == world[ep[x]]
           refusal == [NoAct EXCEPT !.standing = "REFUSED", !.id = <<x, attempt[x], "act">>,
                         !.reason = "IDEMPOTENCY_KEY_CONFLICT", !.pre = w, !.post = w]
           rs == <<Receipt(x, "act", "ACT", "REFUSED", "IDEMPOTENCY_KEY_CONFLICT",
                           w, w, None, FALSE)>>
<1>1. CrownTypeOK /\ WorkIsSound(x) /\ CacheIsEvidenced
  BY DEF CrownInvariant
<1>2. pc[x] = "act" /\ UNCHANGED <<ep, grant, attempt, recon, live>>
  BY DEF Act
<1>3. ep[x] \in Episodes /\ Key(x) \in Keys /\ c \in Entries \cup {None} /\ w \in Values
  <2>1. ep[x] \in Episodes
    BY <1>1, <1>2 DEF WorkIsSound, IsAdmitted
  <2>2. Key(x) \in Keys
    BY <1>1 DEF Key, Keys, CrownTypeOK
  <2> QED BY <1>1, <2>1, <2>2 DEF CrownTypeOK
<1>4. ASSUME c # None, Answer(x, c.result, << >>), UNCHANGED <<world, cache, effects, pending>>
      PROVE  Replies(x)
  <2>1. c.result \in Results
    BY <1>3, <1>4 DEF Entries
  <2>2. /\ c.result.accepted <=> c.result.standing = "ALIVE"
        /\ c.result.accepted => Evidenced(ep[x], Key(x), c.result.id)
    BY <1>1, <1>3, <1>4 DEF CacheIsEvidenced
  <2>3. PICK a : a = c.result
    OBVIOUS
  <2>4. << >> \in Seq(Receipts)
    OBVIOUS
  <2>5. Answered(x, a, << >>)
    <3> HIDE DEF c
    <3> QED BY <1>1, <1>3, <1>4, <2>1, <2>3, <2>4, AnswerFacts
  <2>6. cache[ep[x]][Key(x)] # None /\ Answer(x, a, << >>)
    BY <1>4, <2>3
  <2> HIDE DEF c
  <2> QED BY <1>4, <2>1, <2>2, <2>3, <2>4, <2>5, <2>6 DEF Replies
<1>5. ASSUME c # None, Answer(x, refusal, rs), UNCHANGED <<world, cache, effects, pending>>
      PROVE  Replies(x)
  <2>1. "REFUSED" \in Standings /\ "IDEMPOTENCY_KEY_CONFLICT" \in Reasons
    BY DEF Standings, Reasons
  <2>2. /\ NoAct \in Results /\ ~NoAct.accepted /\ w \in Digests
        /\ <<x, attempt[x], "act">> \in Ids \cup {None}
    BY <1>1, <1>3 DEF NoAct, Results, Digests, Standings, Reasons, Dispositions, Ids, Kinds, CrownTypeOK
  <2> HIDE DEF w
  <2>3. ASSUME NEW r \in Results, NEW id \in Ids \cup {None}
        PROVE  LET q == [r EXCEPT !.standing = "REFUSED", !.id = id,
                           !.reason = "IDEMPOTENCY_KEY_CONFLICT", !.pre = w, !.post = w]
               IN  q \in Results /\ q.accepted = r.accepted /\ q.standing = "REFUSED"
    BY <2>1, <2>2 DEF Results
  <2>4. refusal \in Results /\ ~refusal.accepted /\ refusal.standing # "ALIVE"
    BY <2>2, <2>3
  <2>5. rs \in Seq(Receipts)
    BY <1>1, <1>3, <2>1, ActReceipt
  <2>6. /\ cache[ep[x]][Key(x)] # None
        /\ rs = <<Receipt(x, "act", "ACT", "REFUSED", "IDEMPOTENCY_KEY_CONFLICT",
                          world[ep[x]], world[ep[x]], None, FALSE)>>
    BY <1>5 DEF w
  <2> HIDE DEF rs, refusal, c
  <2>7. Answered(x, refusal, rs)
    BY <1>1, <1>3, <1>5, <2>4, <2>5, AnswerFacts
  <2> QED BY <1>5, <2>4, <2>5, <2>6, <2>7 DEF Replies
<1>6. \/ c # None /\ Answer(x, c.result, << >>) /\ UNCHANGED <<world, cache, effects, pending>>
      \/ c # None /\ Answer(x, refusal, rs) /\ UNCHANGED <<world, cache, effects, pending>>
      \/ Raise(x) /\ UNCHANGED <<world, cache, ledger, effects, pending>>
      \/ c = None /\ \E o \in ActOutcomes(x) : \E a, q : FreshAct(x, o, a, q) /\ Answer(x, a, q)
  BY DEF Act, FreshAct
<1> QED BY <1>2, <1>3, <1>4, <1>5, <1>6

(* Each of them keeps the invariant. *)
LEMMA ActKeeps ==
  ASSUME CrownAssumption, CrownInvariant, NEW x \in Execs, Act(x)
  PROVE  CrownInvariant' /\ Kept(x)
<1>1. pc[x] = "act" /\ UNCHANGED <<ep, grant, attempt, recon, live>>
  BY ActCases
<1>2. CASE Replies(x)
  BY <1>1, <1>2, RepliesKeep DEF Replies
<1>3. CASE Raise(x) /\ UNCHANGED <<world, cache, ledger, effects, pending>>
  BY <1>1, <1>3, RaisesKeep
<1>4. CASE \E o \in ActOutcomes(x) : \E a, rs : FreshAct(x, o, a, rs) /\ Answer(x, a, rs)
  BY <1>1, <1>4, FreshKeeps
<1> QED BY <1>2, <1>3, <1>4, ActCases

-----------------------------------------------------------------------------
(* The other steps *)

(* A timed-out effect lands. *)
LEMMA LateEffectKeeps ==
  ASSUME CrownAssumption, CrownInvariant, NEW x \in Execs, NEW n \in 1..MaxAttempts,
         LateEffect(x, n)
  PROVE  CrownInvariant' /\ Kept(x)
<1>1. CrownTypeOK /\ WorkIsSound(x) /\ AliveStands(x) /\ CacheIsEvidenced
  BY DEF CrownInvariant, AliveIsEvidenced, AliveStands
<1>2. /\ <<x, n>> \in pending /\ world' = [world EXCEPT ![ep[x]] = ValOf[x]]
      /\ effects' = effects \cup {<<x, n>>} /\ pending' = pending \ {<<x, n>>}
      /\ UNCHANGED <<pc, ep, grant, attempt, act, standing, recon, live, cache, ledger>>
  BY DEF LateEffect, execVars
<1>3. Kept(x)
  <2>1. \A y \in Execs : \A m : y # x => <<y, m>> # <<x, n>>
    OBVIOUS
  <2> QED BY <1>2, <2>1 DEF Kept
<1>4. CrownTypeOK'
  BY <1>1, <1>2 DEF CrownTypeOK, CrownAssumption, Attempts
<1>5. effects' \cup pending' = effects \cup pending /\ pending' \subseteq pending
  BY <1>2
<1>6. PICK e, m, id : e = ep[x] /\ m = attempt[x] /\ id = act[x].id
  OBVIOUS
<1> DEFINE k == <<KeyOf[x], m>>
<1>7. e = ep'[x] /\ id = act'[x].id /\ k = Key(x) /\ k = Key(x)'
  BY <1>2, <1>6 DEF Key
<1> HIDE DEF k
<1>8. Evidenced(e, k, id) => Evidenced(e, k, id)'
  BY <1>3, EvidenceStays
<1>9. WorkIsSound(x)'
  <2>1. IsAdmitted(x) => IsAdmitted(x)'
    BY <1>2 DEF IsAdmitted
  <2>2. pc[x] = "verify" => act'[x].accepted /\ Evidenced(ep[x], Key(x), act[x].id)'
    <3>1. Evidenced(e, k, id)' => Evidenced(ep[x], Key(x), act[x].id)'
      BY <1>7 DEF Evidenced, AcceptedAt
    <3> QED BY <1>1, <1>2, <1>6, <1>7, <1>8, <3>1 DEF WorkIsSound
  <2> QED BY <1>1, <1>2, <1>5, <2>1, <2>2 DEF WorkIsSound
<1>10. AliveStands(x)'
  BY <1>1, <1>2 DEF AliveStands, AcceptedAt, Key
<1> QED BY <1>1, <1>2, <1>3, <1>4, <1>9, <1>10, SameCache, StepKeeps

(* admit_execution answers one of its refusals or admits. *)
LEMMA AdmissionFacts ==
  ASSUME NEW g PROVE Admission(g) \in Reasons \cup {"ADMITTED"}
  BY DEF Admission, Reasons

(* The execution is refused, or goes on to act. *)
LEMMA ExecuteKeeps ==
  ASSUME CrownAssumption, CrownInvariant, NEW x \in Execs, NEW e \in Episodes,
         NEW g \in Grants, Execute(x, e, g)
  PROVE  CrownInvariant' /\ Kept(x)
<1> DEFINE why == Admission(g)
           refused == [Refused(x, why) EXCEPT !.ep = e]
<1>1. CrownTypeOK /\ WorkIsSound(x) /\ AliveStands(x) /\ CacheIsEvidenced
  BY DEF CrownInvariant, AliveIsEvidenced, AliveStands
<1>2. /\ pc[x] = "idle" /\ ep' = [ep EXCEPT ![x] = e] /\ grant' = [grant EXCEPT ![x] = g]
      /\ UNCHANGED <<attempt, recon, live, world, cache, effects, pending>>
  BY DEF Execute
<1>3. e \in Episodes /\ standing[x] = "NONE"
  BY <1>1, <1>2 DEF WorkIsSound, CrownAssumption
<1>4. /\ ep' \in [Execs -> Episodes \cup {None}] /\ ep'[x] = e
      /\ grant' \in [Execs -> Grants \cup {None}] /\ grant'[x] = g
      /\ \A y \in Execs : y # x => ep'[y] = ep[y] /\ grant'[y] = grant[y]
  BY <1>1, <1>2, <1>3 DEF CrownTypeOK
<1>5. why # "ADMITTED" => refused \in Receipts
  <2>1. why \in Reasons \cup {"ADMITTED"}
    BY AdmissionFacts
  <2> HIDE DEF why
  <2>2. Key(x) \in Keys /\ CapOf[x] \in Caps /\ <<x, attempt[x], "refused">> \in Ids
    BY <1>1 DEF CrownTypeOK, Key, Keys, Caps, Ids, Kinds
  <2>3. "REFUSED" \in Standings /\ None \in Digests
    BY DEF Standings, Digests
  <2>4. ASSUME NEW w \in Reasons, NEW v, NEW k \in Keys, NEW c \in Caps, NEW id \in Ids
        PROVE  [[id |-> id, op |-> "ACT", ep |-> v, key |-> k, cap |-> c, standing |-> "REFUSED",
                 reason |-> w, pre |-> None, post |-> None, parent |-> None,
                 verified |-> FALSE] EXCEPT !.ep = e] \in Receipts
    BY <1>3, <2>3 DEF Receipts
  <2>5. Refused(x, why) = [id |-> <<x, attempt[x], "refused">>, op |-> "ACT", ep |-> ep[x],
                           key |-> Key(x), cap |-> CapOf[x], standing |-> "REFUSED",
                           reason |-> why, pre |-> None, post |-> None, parent |-> None,
                           verified |-> FALSE]
    BY DEF Refused, Receipt
  <2> QED BY <2>1, <2>2, <2>4, <2>5
<1> HIDE DEF refused
<1>6. ASSUME pc' \in [Execs -> {"idle", "act", "verify", "done", "raised"}],
             standing' \in [Execs -> Standings], UNCHANGED act, ledger' \in Seq(Receipts),
             \A i \in DOMAIN ledger : i \in DOMAIN ledger' /\ ledger'[i] = ledger[i],
             \A y \in Execs : y # x => pc'[y] = pc[y] /\ standing'[y] = standing[y],
             \/ pc'[x] \in {"raised", "done"} /\ standing'[x] # "ALIVE"
             \/ pc'[x] = "act" /\ why = "ADMITTED" /\ standing'[x] = "NONE"
      PROVE  CrownInvariant' /\ Kept(x)
  <2>1. Kept(x)
    BY <1>2, <1>4, <1>6 DEF Kept
  <2>2. CrownTypeOK'
    BY <1>1, <1>2, <1>4, <1>6 DEF CrownTypeOK
  <2>3. \A n \in 1..MaxAttempts : <<x, n>> \in effects' \cup pending' =>
          n <= attempt'[x] /\ n # attempt'[x]
    BY <1>1, <1>2 DEF WorkIsSound
  <2>4. <<x, attempt'[x]>> \notin pending'
    BY <2>2, <2>3 DEF CrownTypeOK
  <2>5. pc'[x] = "act" => IsAdmitted(x)'
    BY <1>3, <1>4, <1>6 DEF IsAdmitted
  <2>6. WorkIsSound(x)'
    BY <1>6, <2>3, <2>4, <2>5 DEF WorkIsSound
  <2>7. AliveStands(x)'
    BY <1>6 DEF AliveStands
  <2> QED BY <1>1, <1>2, <2>1, <2>2, <2>6, <2>7, SameCache, StepKeeps
<1>7. CASE Raise(x) /\ UNCHANGED ledger
  <2>1. /\ pc' \in [Execs -> {"idle", "act", "verify", "done", "raised"}] /\ pc'[x] = "raised"
        /\ \A y \in Execs : y # x => pc'[y] = pc[y]
        /\ UNCHANGED <<standing, act>>
    BY <1>1, <1>7, RaiseFacts
  <2> QED BY <1>1, <1>3, <1>6, <1>7, <2>1 DEF CrownTypeOK
<1>8. CASE why # "ADMITTED" /\ ledger' = Append(ledger, refused) /\ Return(x, "REFUSED") /\ UNCHANGED act
  <2>1. /\ pc' \in [Execs -> {"idle", "act", "verify", "done", "raised"}]
        /\ standing' \in [Execs -> Standings] /\ pc'[x] = "done" /\ standing'[x] = "REFUSED"
        /\ \A y \in Execs : y # x => pc'[y] = pc[y] /\ standing'[y] = standing[y]
    BY <1>1, <1>8 DEF CrownTypeOK, Return, Standings
  <2>2. /\ ledger' \in Seq(Receipts)
        /\ \A i \in DOMAIN ledger : i \in DOMAIN ledger' /\ ledger'[i] = ledger[i]
    <3> HIDE DEF why
    <3> QED BY <1>1, <1>5, <1>8 DEF CrownTypeOK
  <2> QED BY <1>6, <1>8, <2>1, <2>2
<1>9. CASE /\ why = "ADMITTED" /\ pc' = [pc EXCEPT ![x] = IF e \in live THEN "act" ELSE "raised"]
           /\ UNCHANGED <<ledger, standing, act>>
  <2>1. /\ pc' \in [Execs -> {"idle", "act", "verify", "done", "raised"}]
        /\ pc'[x] \in {"act", "raised"} /\ \A y \in Execs : y # x => pc'[y] = pc[y]
    BY <1>1, <1>9 DEF CrownTypeOK
  <2> QED BY <1>1, <1>3, <1>6, <1>9, <2>1 DEF CrownTypeOK
<1> QED BY <1>7, <1>8, <1>9 DEF Execute, refused

(* What verification and reconciliation receipt. *)
LEMMA JudgedFacts ==
  ASSUME CrownAssumption, CrownTypeOK, NEW x \in Execs, ep[x] \in Episodes,
         NEW kind \in Kinds, NEW st \in Standings, NEW reason \in Reasons
  PROVE  LET r == Receipt(x, kind, "VERIFY", st, reason, act[x].pre, world[ep[x]],
                          act[x].id, world[ep[x]] = ExpectedOf[x])
         IN  KernelVerify(x) \in Receipts /\ r \in Receipts /\ Bound(x, r) \in Receipts
<1>1. /\ act[x].pre \in Digests /\ act[x].id \in Ids \cup {None} /\ world[ep[x]] \in Digests
      /\ None \in Digests /\ (world[ep[x]] = ExpectedOf[x]) \in BOOLEAN
  BY DEF CrownTypeOK, Results, Digests
<1>2. /\ "kernel_verify" \in Kinds /\ "JUDGED" \in Reasons
      /\ (IF world[ep[x]] = ExpectedOf[x] THEN "ALIVE" ELSE "UNCERTAIN") \in Standings
  BY DEF Kinds, Reasons, Standings
<1>3. KernelVerify(x) \in Receipts
  BY <1>1, <1>2, ReceiptFacts DEF KernelVerify
<1> QED BY <1>1, <1>3, ReceiptFacts

(* The verification of an accepted act. *)
LEMMA VerifyKeeps ==
  ASSUME CrownAssumption, CrownInvariant, NEW x \in Execs, Verify(x) PROVE CrownInvariant' /\ Kept(x)
<1> DEFINE st == Verdict(x)
           why == IF st = "ALIVE" THEN "NONE" ELSE "POSTCONDITION_FAILED"
           r == Receipt(x, "verify", "VERIFY", st, why, act[x].pre, world[ep[x]],
                        act[x].id, world[ep[x]] = ExpectedOf[x])
<1>1. CrownTypeOK /\ WorkIsSound(x) /\ AliveStands(x) /\ CacheIsEvidenced
  BY DEF CrownInvariant, AliveIsEvidenced, AliveStands
<1>2. /\ pc[x] = "verify"
      /\ UNCHANGED <<ep, grant, attempt, recon, live, world, cache, effects, pending>>
  BY DEF Verify
<1>3. IsAdmitted(x) /\ ep[x] \in Episodes /\ Evidenced(ep[x], Key(x), act[x].id)
  BY <1>1, <1>2 DEF WorkIsSound, IsAdmitted
<1>4. CASE Raise(x) /\ UNCHANGED ledger
  BY <1>2, <1>4, RaisesKeep
<1>5. CASE ledger' = ledger \o <<KernelVerify(x), r, Bound(x, r)>> /\ Return(x, st) /\ UNCHANGED act
  <2>1. "verify" \in Kinds /\ st \in {"ALIVE", "REFUSED"} /\ st \in Standings /\ why \in Reasons
    BY DEF Kinds, Verdict, Standings, Reasons, Dispositions
  <2>2. KernelVerify(x) \in Receipts /\ r \in Receipts /\ Bound(x, r) \in Receipts
    <3> HIDE DEF st, why
    <3> QED BY <1>1, <1>3, <2>1, JudgedFacts
  <2>3. PICK three \in Seq(Receipts) : ledger' = ledger \o three /\ 2 \in DOMAIN three /\ three[2] = r
    <3>1. ASSUME NEW a \in Receipts, NEW b \in Receipts, NEW c \in Receipts
          PROVE  <<a, b, c>> \in Seq(Receipts) /\ 2 \in DOMAIN <<a, b, c>> /\ <<a, b, c>>[2] = b
      OBVIOUS
    <3> HIDE DEF r
    <3> QED BY <1>5, <2>2, <3>1
  <2>4. /\ ledger' \in Seq(Receipts)
        /\ \A i \in DOMAIN ledger : i \in DOMAIN ledger' /\ ledger'[i] = ledger[i]
        /\ Len(ledger) + 2 \in DOMAIN ledger' /\ ledger'[Len(ledger) + 2] = r
    <3> HIDE DEF r
    <3> QED BY <1>1, <2>3, Joined DEF CrownTypeOK
  <2>5. /\ pc' \in [Execs -> {"idle", "act", "verify", "done", "raised"}] /\ pc'[x] = "done"
        /\ standing' \in [Execs -> Standings] /\ standing'[x] = st
        /\ \A y \in Execs : y # x => pc'[y] = pc[y] /\ standing'[y] = standing[y]
    BY <1>1, <1>5, <2>1 DEF Return, CrownTypeOK
  <2>6. Kept(x)
    BY <1>2, <1>5, <2>4, <2>5 DEF Kept
  <2>7. CrownTypeOK'
    BY <1>1, <1>2, <1>5, <2>4, <2>5 DEF CrownTypeOK
  <2>8. WorkIsSound(x)'
    BY <1>1, <1>2, <2>5 DEF WorkIsSound, IsAdmitted
  <2>9. AliveStands(x)'
    <3> SUFFICES ASSUME standing'[x] = "ALIVE" PROVE AliveStands(x)'
      BY DEF AliveStands
    <3>1. world[ep[x]] = ExpectedOf[x]
      BY <2>5 DEF Verdict
    <3>2. /\ r.id = <<x, attempt[x], "verify">> /\ r.parent = act[x].id /\ r.verified
          /\ r.post = ExpectedOf[x]
      BY <3>1 DEF Receipt
    <3>3. PICK i \in DOMAIN ledger : AcceptedAt(i, ep[x], Key(x)) /\ ledger[i].id = act[x].id
      BY <1>3 DEF Evidenced
    <3>4. i \in DOMAIN ledger' /\ ledger'[i] = ledger[i] /\ i < Len(ledger) + 2
      BY <1>1, <2>4 DEF CrownTypeOK
    <3>5. AcceptedAt(i, ep[x], Key(x))'
      BY <1>2, <3>3, <3>4 DEF AcceptedAt, Key
    <3>6. PICK j : j = Len(ledger) + 2
      OBVIOUS
    <3> HIDE DEF r
    <3> QED BY <1>2, <2>4, <3>2, <3>3, <3>4, <3>5, <3>6 DEF AliveStands
  <2> QED BY <1>1, <1>2, <2>6, <2>7, <2>8, <2>9, SameCache, StepKeeps
<1> QED BY <1>4, <1>5 DEF Verify

(* An uncertain outcome is reconciled: nothing of the execution changes    *)
(* but its disposition.                                                    *)
LEMMA ReconcileKeeps ==
  ASSUME CrownAssumption, CrownInvariant, NEW x \in Execs, Reconcile(x) PROVE CrownInvariant' /\ Kept(x)
<1> DEFINE d == Disposition(x)
           r == Receipt(x, "reconciled", "VERIFY", StandingOf(d), d, act[x].pre, world[ep[x]],
                        act[x].id, world[ep[x]] = ExpectedOf[x])
<1>1. CrownTypeOK /\ WorkIsSound(x) /\ AliveStands(x) /\ CacheIsEvidenced
  BY DEF CrownInvariant, AliveIsEvidenced, AliveStands
<1>2. /\ pc[x] = "done" /\ standing[x] = "UNCERTAIN"
      /\ UNCHANGED <<ep, grant, attempt, act, standing, live, world, cache, effects, pending>>
      /\ \/ pc' = [pc EXCEPT ![x] = "raised"] /\ UNCHANGED <<recon, ledger>>
         \/ /\ ep[x] \in live /\ ledger' = ledger \o <<KernelVerify(x), r>>
            /\ recon' = [recon EXCEPT ![x] = d] /\ UNCHANGED pc
  BY DEF Reconcile
<1>3. /\ pc' \in [Execs -> {"idle", "act", "verify", "done", "raised"}]
      /\ pc'[x] \in {"done", "raised"} /\ \A y \in Execs : y # x => pc'[y] = pc[y]
  BY <1>1, <1>2 DEF CrownTypeOK
<1>4. "reconciled" \in Kinds /\ d \in Dispositions /\ d \in Reasons /\ StandingOf(d) \in Standings
  BY DEF Kinds, Disposition, Dispositions, Reasons, StandingOf, Standings
<1> HIDE DEF d
<1>5. /\ recon' \in [Execs -> Dispositions]
      /\ \A y \in Execs : y # x => recon'[y] = recon[y]
  BY <1>1, <1>2, <1>4 DEF CrownTypeOK
<1>6. /\ ledger' \in Seq(Receipts)
      /\ \A i \in DOMAIN ledger : i \in DOMAIN ledger' /\ ledger'[i] = ledger[i]
  <2>1. CASE UNCHANGED ledger
    BY <1>1, <2>1 DEF CrownTypeOK
  <2>2. CASE ep[x] \in live /\ ledger' = ledger \o <<KernelVerify(x), r>>
    <3>1. ep[x] \in Episodes
      BY <1>1, <2>2 DEF CrownTypeOK
    <3>2. KernelVerify(x) \in Receipts /\ r \in Receipts
      BY <1>1, <1>4, <3>1, JudgedFacts
    <3> HIDE DEF r
    <3>3. <<KernelVerify(x), r>> \in Seq(Receipts)
      BY <3>2
    <3>4. PICK two \in Seq(Receipts) : ledger' = ledger \o two
      BY <2>2, <3>3
    <3> QED BY <1>1, <3>4, Joined DEF CrownTypeOK
  <2> QED BY <1>2, <2>1, <2>2
<1>7. Kept(x)
  BY <1>2, <1>3, <1>5, <1>6 DEF Kept
<1>8. CrownTypeOK'
  BY <1>1, <1>2, <1>3, <1>5, <1>6 DEF CrownTypeOK
<1>9. WorkIsSound(x)'
  BY <1>1, <1>2, <1>3 DEF WorkIsSound, IsAdmitted
<1>10. AliveStands(x)'
  BY <1>2 DEF AliveStands
<1> QED BY <1>1, <1>2, <1>7, <1>8, <1>9, <1>10, SameCache, StepKeeps

(* A retry starts afresh under a key that no effect has. *)
LEMMA RetryKeeps ==
  ASSUME CrownAssumption, CrownInvariant, NEW x \in Execs, Retry(x) PROVE CrownInvariant' /\ Kept(x)
<1>1. CrownTypeOK /\ WorkIsSound(x) /\ AliveStands(x) /\ CacheIsEvidenced
  BY DEF CrownInvariant, AliveIsEvidenced, AliveStands
<1>2. /\ attempt[x] < MaxAttempts /\ pc' = [pc EXCEPT ![x] = "idle"]
      /\ attempt' = [attempt EXCEPT ![x] = @ + 1] /\ act' = [act EXCEPT ![x] = NoAct]
      /\ standing' = [standing EXCEPT ![x] = "NONE"] /\ recon' = [recon EXCEPT ![x] = "NONE"]
      /\ UNCHANGED <<ep, grant, live, world, cache, ledger, effects, pending>>
  BY DEF Retry, kernelVars
<1>3. NoAct \in Results
  BY DEF NoAct, Results, Digests, Standings, Reasons, Dispositions
<1>4. attempt[x] + 1 \in 1..MaxAttempts
  BY <1>1, <1>2 DEF CrownTypeOK, CrownAssumption
<1>5. CrownTypeOK'
  <2>1. attempt' \in [Execs -> 1..MaxAttempts]
    BY <1>1, <1>2, <1>4 DEF CrownTypeOK
  <2>2. pc' \in [Execs -> {"idle", "act", "verify", "done", "raised"}]
    BY <1>1, <1>2 DEF CrownTypeOK
  <2>3. act' \in [Execs -> Results]
    BY <1>1, <1>2, <1>3 DEF CrownTypeOK
  <2>4. standing' \in [Execs -> Standings] /\ recon' \in [Execs -> Dispositions]
    BY <1>1, <1>2 DEF CrownTypeOK, Standings, Dispositions
  <2> QED BY <1>1, <1>2, <2>1, <2>2, <2>3, <2>4 DEF CrownTypeOK
<1>6. pc'[x] = "idle" /\ standing'[x] = "NONE" /\ attempt'[x] = attempt[x] + 1
  BY <1>1, <1>2 DEF CrownTypeOK
<1>7. \A y \in Execs : y # x => /\ pc'[y] = pc[y] /\ attempt'[y] = attempt[y] /\ act'[y] = act[y]
                                /\ standing'[y] = standing[y] /\ recon'[y] = recon[y]
  BY <1>1, <1>2 DEF CrownTypeOK
<1>8. Kept(x)
  BY <1>2, <1>7 DEF Kept
<1>9. \A n \in 1..MaxAttempts : <<x, n>> \in effects' \cup pending' =>
        n <= attempt'[x] /\ n # attempt'[x]
  <2>1. \A n \in 1..MaxAttempts : <<x, n>> \in effects \cup pending => n <= attempt[x]
    BY <1>1 DEF WorkIsSound
  <2>2. attempt[x] \in Nat
    BY <1>1 DEF CrownTypeOK
  <2> QED BY <1>2, <1>6, <2>1, <2>2 DEF CrownAssumption
<1>10. <<x, attempt'[x]>> \notin pending'
  BY <1>4, <1>6, <1>9
<1>11. WorkIsSound(x)'
  BY <1>6, <1>9, <1>10 DEF WorkIsSound
<1>12. AliveStands(x)'
  BY <1>6 DEF AliveStands
<1> QED BY <1>1, <1>2, <1>5, <1>8, <1>11, <1>12, SameCache, StepKeeps

(* An episode is torn down under the executions that use it. *)
LEMMA TeardownKeeps ==
  ASSUME CrownInvariant, live' \subseteq live,
         UNCHANGED <<pc, ep, grant, attempt, act, standing, recon, world, cache, ledger, effects,
                     pending>>
  PROVE  CrownInvariant'
<1>1. CrownTypeOK'
  BY DEF CrownInvariant, CrownTypeOK
<1>2. AliveIsEvidenced'
  BY DEF CrownInvariant, AliveIsEvidenced, AcceptedAt, Key
<1>3. CacheIsEvidenced'
  BY DEF CrownInvariant, CacheIsEvidenced, Evidenced, AcceptedAt
<1>4. ASSUME NEW x \in Execs PROVE WorkIsSound(x)'
  BY DEF CrownInvariant, WorkIsSound, IsAdmitted, Evidenced, AcceptedAt, Key
<1> QED BY <1>1, <1>2, <1>3, <1>4 DEF CrownInvariant

-----------------------------------------------------------------------------
(* The theorems *)

(* A broker that was not asked yet satisfies the invariant. *)
LEMMA InitCrown ==
  ASSUME CrownAssumption, NEW initial \in SUBSET Episodes, CrownInit(initial) PROVE CrownInvariant
<1>1. CrownTypeOK
  <2>1. NoAct \in Results
    BY DEF NoAct, Results, Digests, Standings, Reasons, Dispositions
  <2>2. /\ pc \in [Execs -> {"idle", "act", "verify", "done", "raised"}]
        /\ ep \in [Execs -> Episodes \cup {None}] /\ grant \in [Execs -> Grants \cup {None}]
        /\ act \in [Execs -> Results]
    BY <2>1 DEF CrownInit
  <2>3. standing \in [Execs -> Standings] /\ recon \in [Execs -> Dispositions]
    BY DEF CrownInit, Standings, Dispositions
  <2>4. attempt \in [Execs -> 1..MaxAttempts] /\ world \in [Episodes -> Values]
    BY DEF CrownInit, CrownAssumption
  <2>5. cache \in [Episodes -> [Keys -> Entries \cup {None}]]
    BY DEF CrownInit, Keys
  <2> QED BY <2>2, <2>3, <2>4, <2>5 DEF CrownInit, CrownTypeOK
<1>2. AliveIsEvidenced
  BY DEF CrownInit, AliveIsEvidenced
<1>3. CacheIsEvidenced
  BY DEF CrownInit, CacheIsEvidenced, Keys
<1>4. ASSUME NEW x \in Execs PROVE WorkIsSound(x)
  BY DEF CrownInit, WorkIsSound
<1> QED BY <1>1, <1>2, <1>3, <1>4 DEF CrownInvariant

(* Every step keeps it. *)
LEMMA NextCrown ==
  ASSUME CrownAssumption, CrownInvariant, [CrownNext]_crownVars PROVE CrownInvariant'
<1>1. CASE UNCHANGED crownVars
  BY <1>1, TeardownKeeps DEF crownVars, execVars, kernelVars
<1>2. ASSUME NEW x \in Execs, Step(x) PROVE CrownInvariant'
  BY <1>2, ActKeeps, VerifyKeeps, ReconcileKeeps, RetryKeeps, LateEffectKeeps DEF Step
<1>3. ASSUME NEW x \in Execs, NEW e \in EpisodesOf[x], NEW g \in Grants, Execute(x, e, g)
      PROVE  CrownInvariant'
  BY <1>3, ExecuteKeeps DEF CrownAssumption
<1>4. ASSUME NEW e \in Episodes, Teardown(e) PROVE CrownInvariant'
  BY <1>4, TeardownKeeps DEF Teardown, execVars
<1> QED BY <1>1, <1>2, <1>3, <1>4 DEF CrownNext

(* The broker and the Crown runtime keep their inductive invariant,        *)
(* whatever executions share an episode, a key or an intent, whichever     *)
(* calls fail, time out or find their episode gone.                        *)
THEOREM CrownSafety ==
  ASSUME CrownAssumption
  PROVE  CrownSpec => []CrownInvariant
<1>1. CrownInit(Episodes) => CrownInvariant
  BY InitCrown
<1> QED BY <1>1, NextCrown, PTL DEF CrownSpec

(* "Only the verified transition may be Crown ALIVE": every ALIVE standing *)
(* execute_verified returns stands on a receipted, accepted act of its key *)
(* and episode whose effect happened, and on a later receipt that judged   *)
(* the expected state.                                                     *)
THEOREM AliveEvidence ==
  ASSUME CrownAssumption
  PROVE  CrownSpec => [](AliveIsEvidenced /\ CrownInvariant)
<1>1. CrownInvariant => AliveIsEvidenced
  BY DEF CrownInvariant
<1> QED BY <1>1, CrownSafety, PTL

(* What admit_execution has let through. *)
LEMMA AdmittedGrant ==
  ASSUME CrownAssumption, NEW g \in Grants, Admission(g) = "ADMITTED"
  PROVE  /\ ~g.expired /\ g.sameAction /\ g.sameCapability /\ g.sameSubject
         /\ g.inScope /\ g.sameEffects
         /\ Cardinality({g.grantRev, g.preparedRev, g.currentRev} \ {None}) <= 1
<1>1. /\ ~g.expired /\ g.sameAction /\ g.sameCapability /\ g.sameSubject
      /\ g.inScope /\ g.sameEffects /\ ~Mismatch(g.grantRev, g.preparedRev)
      /\ ~Mismatch(g.currentRev, IF g.grantRev # None THEN g.grantRev ELSE g.preparedRev)
  BY DEF Admission
<1>2. PICK v : {g.grantRev, g.preparedRev, g.currentRev} \ {None} \subseteq {v}
  BY <1>1 DEF Mismatch
<1>3. IsFiniteSet({v}) /\ Cardinality({v}) = 1
  BY FS_Singleton
<1>4. Cardinality({g.grantRev, g.preparedRev, g.currentRev} \ {None}) <= 1
  BY <1>2, <1>3, FS_Subset
<1> QED BY <1>1, <1>4

(* So the invariant keeps what was refused from the world. *)
LEMMA AdmissionClaims ==
  ASSUME CrownAssumption, CrownInvariant PROVE NothingActsUnadmitted
<1> SUFFICES ASSUME NEW x \in Execs, <<x, attempt[x]>> \in effects \cup pending
             PROVE  grant[x] \in Grants /\ Admission(grant[x]) = "ADMITTED"
  BY AdmittedGrant DEF NothingActsUnadmitted
<1> QED BY DEF CrownInvariant, CrownTypeOK, WorkIsSound, IsAdmitted

(* Nothing reaches the world that admit_execution refused: the grant was   *)
(* alive and of this action, and no two known revisions differ, also after *)
(* retries under other grants.                                             *)
THEOREM AdmissionSafety ==
  ASSUME CrownAssumption
  PROVE  CrownSpec => []NothingActsUnadmitted
BY AdmissionClaims, CrownSafety, PTL

(* What EffectsAreNotSilent says of one execution. *)
IsTold(x) ==
  pc[x] = "done" /\ <<x, attempt[x]>> \in effects =>
    act[x].accepted \/ standing[x] = "UNCERTAIN" \/ act[x].pre = ValOf[x]

(* An execution that is yet to act has no effect. *)
NotActedYet(x) == pc[x] = "act" => <<x, attempt[x]>> \notin effects

Told == \A x \in Execs : IsTold(x) /\ NotActedYet(x)

(* No step silences an effect: where the observation after act() works, an *)
(* applied effect changes the digest or the world had its value before.    *)
LEMMA StepTells ==
  ASSUME CrownAssumption, CrownInvariant, "observe" \notin Faults, NEW x \in Execs, IsTold(x),
         NotActedYet(x), Step(x) \/ \E e \in EpisodesOf[x], g \in Grants : Execute(x, e, g)
  PROVE  IsTold(x)' /\ NotActedYet(x)'
<1>1. CrownTypeOK /\ WorkIsSound(x)
  BY DEF CrownInvariant
<1>2. CASE Act(x)
  <2>1. /\ pc[x] = "act" /\ UNCHANGED attempt /\ ep[x] \in Episodes
        /\ <<x, attempt[x]>> \notin effects
    BY <1>2, ActCases DEF NotActedYet
  <2>2. CASE UNCHANGED effects
    BY <2>1, <2>2 DEF IsTold, NotActedYet
  <2>3. ASSUME NEW o \in ActOutcomes(x), NEW a, NEW rs, FreshAct(x, o, a, rs), Answer(x, a, rs)
        PROVE  IsTold(x)' /\ NotActedYet(x)'
    <3>0. Answered(x, a, rs) /\ pc'[x] # "act"
      <4>1. Answered(x, a, rs)
        BY <1>1, <2>1, <2>3, FreshFacts
      <4> QED BY <4>1 DEF Answered
    <3> SUFFICES ASSUME pc'[x] = "done", <<x, attempt'[x]>> \in effects'
                 PROVE  standing'[x] = "UNCERTAIN" \/ act'[x].pre = ValOf[x]
      BY <3>0 DEF IsTold, NotActedYet
    <3>1. o[3] = "applied" /\ a.pre = world[ep[x]] /\ a.post = o[4]
      BY <2>1, <2>3 DEF FreshAct
    <3>2. a.post = ValOf[x]
      BY <1>1, <2>1, <2>3, <3>1, OutcomeFacts
    <3>3. /\ act'[x] = a /\ ~a.accepted
          /\ standing'[x] = IF PossibleUnacknowledgedEffect(a) THEN "UNCERTAIN" ELSE a.standing
      BY <3>0 DEF Answered
    <3> QED BY <3>2, <3>3 DEF PossibleUnacknowledgedEffect
  <2> QED BY <1>2, <2>2, <2>3, ActCases DEF Replies
<1>3. CASE Verify(x)
  <2>1. pc[x] = "verify" /\ act[x].accepted
    BY <1>1, <1>3 DEF Verify, WorkIsSound
  <2>2. act'[x] = act[x] /\ pc'[x] \in {"raised", "done"}
    BY <1>1, <1>3 DEF Verify, Raise, Return, CrownTypeOK
  <2> QED BY <2>1, <2>2 DEF IsTold, NotActedYet
<1>4. CASE Reconcile(x)
  <2>1. pc'[x] \in {"raised", "done"}
    BY <1>1, <1>4 DEF Reconcile, CrownTypeOK
  <2> QED BY <1>1, <1>4, <2>1 DEF Reconcile, IsTold, NotActedYet
<1>5. CASE Retry(x)
  <2>1. pc'[x] = "idle"
    BY <1>1, <1>5 DEF Retry, CrownTypeOK
  <2> QED BY <2>1 DEF IsTold, NotActedYet
<1>6. ASSUME NEW n \in 1..MaxAttempts, LateEffect(x, n) PROVE IsTold(x)' /\ NotActedYet(x)'
  <2>1. /\ <<x, n>> \in pending /\ effects' = effects \cup {<<x, n>>}
        /\ UNCHANGED <<pc, attempt, act, standing>>
    BY <1>6 DEF LateEffect, execVars
  <2>2. <<x, attempt[x]>> \in effects' =>
          <<x, attempt[x]>> \in effects \/ <<x, attempt[x]>> \in pending
    BY <2>1
  <2> QED BY <1>1, <2>1, <2>2 DEF WorkIsSound, IsTold, NotActedYet
<1>7. ASSUME NEW e \in EpisodesOf[x], NEW g \in Grants, Execute(x, e, g)
      PROVE  IsTold(x)' /\ NotActedYet(x)'
  <2>1. pc[x] = "idle" /\ UNCHANGED <<attempt, effects>>
    BY <1>7 DEF Execute
  <2> QED BY <1>1, <2>1 DEF WorkIsSound, CrownTypeOK, IsTold, NotActedYet
<1> QED BY <1>2, <1>3, <1>4, <1>5, <1>6, <1>7 DEF Step

(* A step of x leaves the others as they are. *)
LEMMA OwnStep ==
  ASSUME CrownAssumption, CrownInvariant, NEW x \in Execs,
         Step(x) \/ \E e \in EpisodesOf[x], g \in Grants : Execute(x, e, g)
  PROVE  Kept(x)
<1>1. CASE Step(x)
  BY <1>1, ActKeeps, VerifyKeeps, ReconcileKeeps, RetryKeeps, LateEffectKeeps DEF Step
<1>2. CASE \E e \in EpisodesOf[x], g \in Grants : Execute(x, e, g)
  BY <1>2, ExecuteKeeps DEF CrownAssumption
<1> QED BY <1>1, <1>2

(* Nor does a step of another execution, or a teardown. *)
LEMMA NextTells ==
  ASSUME CrownAssumption, "observe" \notin Faults, CrownInvariant, Told, [CrownNext]_crownVars
  PROVE  Told'
<1>1. ASSUME NEW x \in Execs, Step(x) \/ \E e \in EpisodesOf[x], g \in Grants : Execute(x, e, g),
             NEW y \in Execs
      PROVE  IsTold(y)' /\ NotActedYet(y)'
  <2>1. IsTold(y) /\ NotActedYet(y)
    BY DEF Told
  <2>2. CASE y = x
    BY <1>1, <2>1, <2>2, StepTells
  <2>3. CASE y # x
    <3>1. Kept(x)
      BY <1>1, OwnStep
    <3> QED BY <2>1, <2>3, <3>1 DEF Kept, IsTold, NotActedYet
  <2> QED BY <2>2, <2>3
<1>2. CASE UNCHANGED <<pc, attempt, act, standing, effects>>
  BY <1>2 DEF Told, IsTold, NotActedYet
<1>3. ASSUME NEW e \in Episodes, Teardown(e) PROVE UNCHANGED <<pc, attempt, act, standing, effects>>
  BY <1>3 DEF Teardown, execVars
<1>4. CASE UNCHANGED crownVars
  BY <1>2, <1>4 DEF crownVars, execVars
<1> QED BY <1>1, <1>2, <1>3, <1>4 DEF CrownNext, Told

(* An effect is never answered as if nothing had happened, provided the    *)
(* observation that follows act() works (_possible_unacknowledged_effect   *)
(* compares the digests before and after): late, unacknowledged and        *)
(* refused actions on shared worlds included.                              *)
THEOREM EffectsAreTold ==
  ASSUME CrownAssumption, "observe" \notin Faults
  PROVE  CrownSpec => []EffectsAreNotSilent
<1>1. CrownInit(Episodes) => Told
  BY DEF CrownInit, Told, IsTold, NotActedYet
<1>2. CrownInvariant /\ Told /\ [CrownNext]_crownVars => Told'
  BY NextTells
<1>3. Told => EffectsAreNotSilent
  BY DEF Told, IsTold, EffectsAreNotSilent
<1> QED BY <1>1, <1>2, <1>3, CrownSafety, PTL DEF CrownSpec

-----------------------------------------------------------------------------
(* Requests with a world of their own *)

(* What a step of x does to worlds and caches, it does in its own episode. *)
OwnWorld(x) ==
  /\ Kept(x)
  /\ \A f \in Episodes : f # ep[x] => world'[f] = world[f] /\ cache'[f] = cache[f]

(* Other requests do not notice. *)
LEMMA OtherWorlds ==
  ASSUME CrownAssumption, ExclusiveWorlds, NEW x \in Execs, NEW y \in Execs, y # x,
         RetryIsSound(x), RetryIsSound(y), OwnWorld(x)
  PROVE  RetryIsSound(y)'
<1>1. /\ pc'[y] = pc[y] /\ ep'[y] = ep[y] /\ attempt'[y] = attempt[y] /\ act'[y] = act[y]
      /\ standing'[y] = standing[y] /\ recon'[y] = recon[y]
      /\ \A n : <<y, n>> \in effects' <=> <<y, n>> \in effects
  BY DEF OwnWorld, Kept
<1>2. \A f \in EpisodesOf[y] : world'[f] = world[f] /\ cache'[f] = cache[f]
  <2> SUFFICES ASSUME NEW f \in EpisodesOf[y] PROVE f \in Episodes /\ f # ep[x]
    BY DEF OwnWorld
  <2> QED BY DEF CrownAssumption, ExclusiveWorlds, RetryIsSound
<1>3. WorldIsExclusive(y)'
  BY <1>1, <1>2 DEF RetryIsSound, WorldIsExclusive
<1> QED BY <1>1, <1>3 DEF RetryIsSound

(* So a step has to account for the request that takes it. *)
LEMMA RequestKeeps ==
  ASSUME CrownAssumption, ExclusiveWorlds, RetryInvariant, NEW x \in Execs, OwnWorld(x),
         pending' = {}, RetryIsSound(x)',
         /\ recon'[x] = "NO_EFFECT" => <<x, attempt'[x]>> \notin effects'
         /\ recon'[x] \in {"EFFECT_CONFIRMED", "PARTIAL_EFFECT"} => <<x, attempt'[x]>> \in effects'
  PROVE  RetryInvariant'
<1>1. ASSUME NEW y \in Execs PROVE RetryIsSound(y)'
  BY OtherWorlds DEF RetryInvariant
<1>2. DispositionsAreTruthful'
  BY DEF RetryInvariant, DispositionsAreTruthful, OwnWorld, Kept
<1> QED BY <1>1, <1>2 DEF RetryInvariant

(* act() finds the world as it was and no answer under its key. *)
LEMMA ActIsFirst ==
  ASSUME CrownAssumption, ExclusiveWorlds, CrownInvariant, RetryInvariant, NEW x \in Execs, Act(x)
  PROVE  RetryInvariant'
<1>1. CrownTypeOK /\ WorkIsSound(x) /\ RetryIsSound(x) /\ pending = {}
  BY DEF CrownInvariant, RetryInvariant
<1>2. /\ pc[x] = "act" /\ UNCHANGED <<ep, grant, attempt, recon, live>>
      /\ ep[x] \in Episodes /\ Key(x) \in Keys
  BY ActCases
<1>3. PICK e, n : e = ep[x] /\ n = attempt[x]
  OBVIOUS
<1> DEFINE k == <<KeyOf[x], n>>
<1>4. /\ k = Key(x) /\ k \in Keys /\ k[1] = KeyOf[x] /\ k[2] = n /\ e \in EpisodesOf[x]
      /\ e \in Episodes /\ n \in 1..MaxAttempts
  BY <1>1, <1>2, <1>3 DEF Key, RetryIsSound, CrownAssumption, CrownTypeOK
<1> HIDE DEF k
<1>5. cache[e][k] = None
  BY <1>1, <1>2, <1>3, <1>4 DEF RetryIsSound, WorldIsExclusive
<1>6. \A m \in 1..MaxAttempts : <<x, m>> \notin effects
  BY <1>1, <1>2 DEF RetryIsSound, WorkIsSound, CrownTypeOK
<1>7. \A f \in EpisodesOf[x] : world[f] = 0
  BY <1>1, <1>6 DEF RetryIsSound, WorldIsExclusive
<1>8. Kept(x)
  BY ActKeeps
<1>9. recon'[x] = "NONE" /\ standing[x] = "NONE"
  BY <1>1, <1>2 DEF RetryIsSound, WorkIsSound
<1>10. CASE Raise(x) /\ UNCHANGED <<world, cache, ledger, effects, pending>>
  <2>1. pc'[x] = "raised" /\ UNCHANGED <<standing, act>>
    BY <1>1, <1>10, RaiseFacts
  <2>2. OwnWorld(x)
    BY <1>8, <1>10 DEF OwnWorld
  <2>3. WorldIsExclusive(x)'
    BY <1>1, <1>2, <1>10, <2>1 DEF RetryIsSound, WorldIsExclusive
  <2>4. RetryIsSound(x)'
    BY <1>1, <1>2, <1>10, <2>1, <2>3 DEF RetryIsSound
  <2> QED BY <1>1, <1>9, <1>10, <2>2, <2>4, RequestKeeps
<1>11. ASSUME NEW o \in ActOutcomes(x), NEW a, NEW rs, FreshAct(x, o, a, rs), Answer(x, a, rs)
       PROVE  RetryInvariant'
  <2>1. Answered(x, a, rs) /\ a.pre = 0 /\ (a.accepted <=> a.standing = "ALIVE")
    <3>1. Answered(x, a, rs) /\ (a.accepted <=> a.standing = "ALIVE")
      BY <1>1, <1>2, <1>11, FreshFacts
    <3> QED BY <1>3, <1>4, <1>7, <1>11, <3>1 DEF FreshAct
  <2>2. o[3] # "pending" /\ o[3] \in {"applied", "none", "pending"}
    BY <1>1, <1>2, <1>11, OutcomeFacts DEF ExclusiveWorlds
  <2>3. /\ world' = IF o[3] = "applied" THEN [world EXCEPT ![e] = ValOf[x]] ELSE world
        /\ effects' = IF o[3] = "applied" THEN effects \cup {<<x, n>>} ELSE effects
        /\ pending' = {}
    BY <1>1, <1>3, <1>11, <2>2 DEF FreshAct
  <2>4. PICK c : cache' = cache \/ cache' = [cache EXCEPT ![e][k] = c]
    BY <1>3, <1>4, <1>11 DEF FreshAct
  <2>5. world \in [Episodes -> Values] /\ cache \in [Episodes -> [Keys -> Entries \cup {None}]]
    BY <1>1 DEF CrownTypeOK
  <2>6. OwnWorld(x)
    BY <1>3, <1>4, <1>8, <2>3, <2>4, <2>5 DEF OwnWorld
  <2>7. pc'[x] \in {"verify", "done", "raised"}
    BY <2>1 DEF Answered
  <2>8. standing'[x] = "UNCERTAIN" => act'[x].pre = 0
    BY <1>9, <2>1 DEF Answered
  <2>9. \A m \in 1..MaxAttempts : <<x, m>> \in effects' <=> o[3] = "applied" /\ m = n
    BY <1>6, <2>3
  <2>10. ASSUME NEW f \in EpisodesOf[x], NEW l \in Keys, cache'[f][l] # None
         PROVE  ep'[x] = f /\ l[1] = KeyOf[x] /\ l[2] <= attempt'[x]
    <3>1. f \in Episodes
      BY DEF CrownAssumption
    <3>2. CASE cache'[f][l] = cache[f][l]
      BY <1>1, <1>2, <2>10, <3>2 DEF RetryIsSound, WorldIsExclusive
    <3>3. CASE cache'[f][l] # cache[f][l]
      <4>1. f = e /\ l = k
        BY <1>4, <2>4, <2>5, <3>1, <3>3
      <4> QED BY <1>2, <1>3, <1>4, <4>1
    <3> QED BY <3>2, <3>3
  <2>11. \A f \in EpisodesOf[x] :
           IF \E m \in 1..MaxAttempts : <<x, m>> \in effects'
           THEN ep'[x] = f => world'[f] = ValOf[x]
           ELSE world'[f] = 0
    <3> SUFFICES ASSUME NEW f \in EpisodesOf[x]
                 PROVE  IF \E m \in 1..MaxAttempts : <<x, m>> \in effects'
                        THEN ep'[x] = f => world'[f] = ValOf[x]
                        ELSE world'[f] = 0
      OBVIOUS
    <3>1. f \in Episodes /\ ep'[x] = e
      BY <1>2, <1>3 DEF CrownAssumption
    <3>2. CASE o[3] = "applied"
      BY <1>4, <2>3, <2>5, <2>9, <3>1, <3>2
    <3>3. CASE o[3] # "applied"
      BY <1>7, <2>3, <2>9, <3>3
    <3> QED BY <3>2, <3>3
  <2>12. WorldIsExclusive(x)'
    BY <2>7, <2>10, <2>11 DEF WorldIsExclusive
  <2>13. RetryIsSound(x)'
    BY <1>1, <1>2, <1>3, <2>7, <2>8, <2>9, <2>12 DEF RetryIsSound
  <2> QED BY <1>9, <2>3, <2>6, <2>13, RequestKeeps
<1> QED BY <1>3, <1>4, <1>5, <1>10, <1>11, ActCases DEF Replies

(* A step that leaves worlds, caches and effects alone. *)
LEMMA QuietKeeps ==
  ASSUME CrownAssumption, ExclusiveWorlds, RetryInvariant, NEW x \in Execs, Kept(x),
         UNCHANGED <<ep, attempt, world, cache, effects, pending>>,
         pc'[x] \notin {"idle", "act"}, standing'[x] = "UNCERTAIN" => act'[x].pre = 0,
         \/ recon'[x] = recon[x]
         \/ /\ recon'[x] = "NO_EFFECT" => <<x, attempt[x]>> \notin effects
            /\ recon'[x] \in {"EFFECT_CONFIRMED", "PARTIAL_EFFECT"} => <<x, attempt[x]>> \in effects
  PROVE  RetryInvariant'
<1>1. RetryIsSound(x)
  BY DEF RetryInvariant
<1>2. WorldIsExclusive(x)'
  BY <1>1 DEF RetryIsSound, WorldIsExclusive
<1>3. RetryIsSound(x)'
  BY <1>1, <1>2 DEF RetryIsSound
<1>4. OwnWorld(x)
  BY DEF OwnWorld
<1>5. /\ recon'[x] = "NO_EFFECT" => <<x, attempt'[x]>> \notin effects'
      /\ recon'[x] \in {"EFFECT_CONFIRMED", "PARTIAL_EFFECT"} => <<x, attempt'[x]>> \in effects'
  BY DEF RetryInvariant, DispositionsAreTruthful
<1> QED BY <1>3, <1>4, <1>5, RequestKeeps DEF RetryInvariant

(* Verification asks the world and leaves it as it is. *)
LEMMA VerifyIsQuiet ==
  ASSUME CrownAssumption, ExclusiveWorlds, CrownInvariant, RetryInvariant, NEW x \in Execs, Verify(x)
  PROVE  RetryInvariant'
<1>1. CrownTypeOK /\ WorkIsSound(x) /\ Kept(x)
  BY VerifyKeeps DEF CrownInvariant
<1>2. pc[x] = "verify" /\ UNCHANGED <<ep, attempt, recon, world, cache, effects, pending>>
  BY DEF Verify
<1>3. pc'[x] \in {"raised", "done"} /\ standing'[x] # "UNCERTAIN"
  <2>1. CASE Raise(x)
    BY <1>1, <1>2, <2>1, RaiseFacts DEF WorkIsSound
  <2>2. CASE Return(x, Verdict(x))
    BY <1>1, <2>2 DEF Return, Verdict, CrownTypeOK
  <2> QED BY <2>1, <2>2 DEF Verify
<1> QED BY <1>1, <1>2, <1>3, QuietKeeps

(* What reconcile_uncertain concludes from the world is so. *)
LEMMA ReconcileIsTrue ==
  ASSUME CrownAssumption, ExclusiveWorlds, CrownInvariant, RetryInvariant, NEW x \in Execs,
         Reconcile(x)
  PROVE  RetryInvariant'
<1>1. CrownTypeOK /\ WorkIsSound(x) /\ RetryIsSound(x) /\ Kept(x)
  BY ReconcileKeeps DEF CrownInvariant, RetryInvariant
<1>2. /\ pc[x] = "done" /\ standing[x] = "UNCERTAIN"
      /\ UNCHANGED <<ep, attempt, act, standing, world, cache, effects, pending>>
      /\ \/ pc' = [pc EXCEPT ![x] = "raised"] /\ UNCHANGED recon
         \/ ep[x] \in live /\ recon' = [recon EXCEPT ![x] = Disposition(x)] /\ UNCHANGED pc
  BY DEF Reconcile
<1>3. pc'[x] \in {"done", "raised"} /\ act'[x].pre = 0 /\ act[x].pre = 0
  BY <1>1, <1>2 DEF CrownTypeOK, RetryIsSound
<1>4. CASE UNCHANGED recon
  BY <1>1, <1>2, <1>3, <1>4, QuietKeeps
<1>5. CASE ep[x] \in live /\ recon' = [recon EXCEPT ![x] = Disposition(x)]
  <2>1. recon'[x] = Disposition(x)
    BY <1>1, <1>5 DEF CrownTypeOK
  <2>2. ep[x] \in EpisodesOf[x]
    BY <1>1, <1>5 DEF CrownTypeOK, CrownAssumption, RetryIsSound
  <2>3. <<x, attempt[x]>> \in effects => world[ep[x]] = ValOf[x]
    BY <1>1, <2>2 DEF RetryIsSound, WorldIsExclusive, CrownTypeOK
  <2>4. <<x, attempt[x]>> \notin effects => world[ep[x]] = 0
    BY <1>1, <2>2 DEF RetryIsSound, WorldIsExclusive
  <2>5. /\ Disposition(x) = "NO_EFFECT" => <<x, attempt[x]>> \notin effects
        /\ Disposition(x) \in {"EFFECT_CONFIRMED", "PARTIAL_EFFECT"} => <<x, attempt[x]>> \in effects
    BY <1>3, <2>3, <2>4 DEF Disposition, ExclusiveWorlds
  <2> QED BY <1>1, <1>2, <1>3, <2>1, <2>5, QuietKeeps
<1> QED BY <1>2, <1>4, <1>5

(* A retry follows attempts that all came to nothing. *)
LEMMA RetryIsFresh ==
  ASSUME CrownAssumption, ExclusiveWorlds, CrownInvariant, RetryInvariant, NEW x \in Execs, Retry(x)
  PROVE  RetryInvariant'
<1>1. CrownTypeOK /\ RetryIsSound(x) /\ Kept(x) /\ attempt'[x] \in 1..MaxAttempts
  BY RetryKeeps DEF CrownInvariant, RetryInvariant, CrownTypeOK
<1>2. /\ recon[x] = "NO_EFFECT" /\ attempt' = [attempt EXCEPT ![x] = @ + 1]
      /\ pc' = [pc EXCEPT ![x] = "idle"] /\ standing' = [standing EXCEPT ![x] = "NONE"]
      /\ recon' = [recon EXCEPT ![x] = "NONE"]
      /\ UNCHANGED <<ep, world, cache, effects, pending>>
  BY DEF Retry, RetryAdmitted, kernelVars
<1>3. /\ pc'[x] = "idle" /\ standing'[x] = "NONE" /\ recon'[x] = "NONE"
      /\ attempt'[x] = attempt[x] + 1 /\ attempt[x] \in Nat
  BY <1>1, <1>2 DEF CrownTypeOK
<1>4. \A n \in 1..MaxAttempts : <<x, n>> \notin effects
  BY <1>1, <1>2 DEF RetryInvariant, DispositionsAreTruthful, RetryIsSound
<1>5. \A f \in EpisodesOf[x], k \in Keys :
        cache[f][k] # None => ep[x] = f /\ k[1] = KeyOf[x] /\ k[2] < attempt'[x]
  <2> SUFFICES ASSUME NEW f \in EpisodesOf[x], NEW k \in Keys, cache[f][k] # None
               PROVE  ep[x] = f /\ k[1] = KeyOf[x] /\ k[2] < attempt'[x]
    OBVIOUS
  <2>1. ep[x] = f /\ k[1] = KeyOf[x] /\ k[2] <= attempt[x]
    BY <1>1 DEF RetryIsSound, WorldIsExclusive
  <2>2. k[2] \in 1..MaxAttempts
    BY DEF Keys
  <2> QED BY <1>3, <2>1, <2>2
<1>6. WorldIsExclusive(x)'
  <2>1. \A f \in EpisodesOf[x], k \in Keys :
          cache[f][k] # None => k[2] <= attempt'[x] /\ k[2] # attempt'[x]
    <3>1. \A k \in Keys : k[2] \in Nat
      BY DEF Keys
    <3> QED BY <1>3, <1>5, <3>1
  <2>2. \A f \in EpisodesOf[x] : world[f] = 0
    BY <1>1, <1>4 DEF RetryIsSound, WorldIsExclusive
  <2> QED BY <1>2, <1>4, <1>5, <2>1, <2>2 DEF WorldIsExclusive
<1>7. RetryIsSound(x)'
  BY <1>1, <1>2, <1>3, <1>4, <1>6 DEF RetryIsSound
<1>8. OwnWorld(x)
  BY <1>1, <1>2 DEF OwnWorld
<1> QED BY <1>2, <1>3, <1>7, <1>8, RequestKeeps DEF RetryInvariant

(* The request is tied to one episode the first time it is asked. *)
LEMMA ExecuteIsFirst ==
  ASSUME CrownAssumption, ExclusiveWorlds, CrownInvariant, RetryInvariant, NEW x \in Execs,
         NEW e \in EpisodesOf[x], NEW g \in Grants, Execute(x, e, g)
  PROVE  RetryInvariant'
<1>1. CrownTypeOK /\ WorkIsSound(x) /\ RetryIsSound(x) /\ Kept(x)
  BY ExecuteKeeps DEF CrownInvariant, RetryInvariant, CrownAssumption
<1>2. /\ pc[x] = "idle" /\ ep[x] \in {None, e} /\ ep' = [ep EXCEPT ![x] = e]
      /\ UNCHANGED <<attempt, recon, world, cache, effects, pending>>
  BY DEF Execute
<1>3. ep'[x] = e /\ recon[x] = "NONE" /\ standing[x] = "NONE"
  BY <1>1, <1>2 DEF CrownTypeOK, RetryIsSound, WorkIsSound
<1>4. standing'[x] # "UNCERTAIN"
  <2>1. CASE UNCHANGED standing
    BY <1>3, <2>1
  <2>2. CASE Return(x, "REFUSED")
    BY <1>1, <2>2 DEF Return, CrownTypeOK
  <2> QED BY <2>1, <2>2 DEF Execute, Raise
<1>5. \A n \in 1..MaxAttempts : <<x, n>> \notin effects
  BY <1>1, <1>2 DEF RetryIsSound, WorkIsSound
<1>6. WorldIsExclusive(x)'
  <2>1. \A f \in EpisodesOf[x] : world[f] = 0 /\ f # None
    BY <1>1, <1>5 DEF RetryIsSound, WorldIsExclusive, CrownAssumption
  <2>2. \A f \in EpisodesOf[x], k \in Keys : cache[f][k] # None =>
          ep'[x] = f /\ k[1] = KeyOf[x] /\ k[2] <= attempt[x] /\ k[2] # attempt[x]
    BY <1>1, <1>2, <1>3, <2>1 DEF RetryIsSound, WorldIsExclusive
  <2> QED BY <1>2, <1>5, <2>1, <2>2 DEF WorldIsExclusive
<1>7. RetryIsSound(x)'
  BY <1>1, <1>2, <1>3, <1>4, <1>5, <1>6 DEF RetryIsSound
<1>8. OwnWorld(x)
  BY <1>1, <1>2 DEF OwnWorld
<1> QED BY <1>2, <1>3, <1>7, <1>8, RequestKeeps DEF RetryInvariant

(* Steps that are nobody's. *)
LEMMA IdleKeeps ==
  ASSUME RetryInvariant,
         UNCHANGED <<pc, ep, attempt, act, standing, recon, world, cache, effects, pending>>
  PROVE  RetryInvariant'
<1>1. ASSUME NEW x \in Execs PROVE RetryIsSound(x)'
  <2>1. RetryIsSound(x)
    BY DEF RetryInvariant
  <2>2. WorldIsExclusive(x)'
    BY <2>1 DEF RetryIsSound, WorldIsExclusive
  <2> QED BY <2>1, <2>2 DEF RetryIsSound
<1> QED BY <1>1 DEF RetryInvariant, DispositionsAreTruthful

(* Requests with worlds of their own keep their invariant. *)
LEMMA NextRetries ==
  ASSUME CrownAssumption, ExclusiveWorlds, CrownInvariant, RetryInvariant, [CrownNext]_crownVars
  PROVE  RetryInvariant'
<1>1. CASE UNCHANGED crownVars
  BY <1>1, IdleKeeps DEF crownVars, execVars, kernelVars
<1>2. ASSUME NEW x \in Execs, Step(x) PROVE RetryInvariant'
  <2>1. \A n \in 1..MaxAttempts : ~LateEffect(x, n)
    BY DEF RetryInvariant, LateEffect
  <2> QED BY <1>2, <2>1, ActIsFirst, VerifyIsQuiet, ReconcileIsTrue, RetryIsFresh DEF Step
<1>3. ASSUME NEW x \in Execs, NEW e \in EpisodesOf[x], NEW g \in Grants, Execute(x, e, g)
      PROVE  RetryInvariant'
  BY <1>3, ExecuteIsFirst
<1>4. ASSUME NEW e \in Episodes, Teardown(e) PROVE RetryInvariant'
  BY <1>4, IdleKeeps DEF Teardown, execVars
<1> QED BY <1>1, <1>2, <1>3, <1>4 DEF CrownNext

(* And begin with it. *)
LEMMA InitRetries ==
  ASSUME CrownAssumption, CrownInit(Episodes) PROVE RetryInvariant
<1>1. ASSUME NEW x \in Execs PROVE RetryIsSound(x)
  <2>1. WorldIsExclusive(x)
    BY DEF CrownInit, WorldIsExclusive, CrownAssumption, Keys
  <2> QED BY <2>1 DEF CrownInit, RetryIsSound
<1> QED BY <1>1 DEF CrownInit, RetryInvariant, DispositionsAreTruthful

(* reconcile_uncertain tells the truth about a world that only one request *)
(* works on, over any number of attempts: NO_EFFECT is said of requests    *)
(* that had none, EFFECT_CONFIRMED and PARTIAL_EFFECT of those that had.   *)
THEOREM DispositionSafety ==
  ASSUME CrownAssumption, ExclusiveWorlds
  PROVE  CrownSpec => []DispositionsAreTruthful
<1>1. RetryInvariant => DispositionsAreTruthful
  BY DEF RetryInvariant
<1> QED BY <1>1, InitRetries, NextRetries, CrownSafety, PTL DEF CrownSpec

(* Such a request has at most the effect of its last attempt. *)
LEMMA RetryClaims ==
  ASSUME RetryInvariant PROVE RetriesNeverDoubleTheEffect
<1> SUFFICES ASSUME NEW x \in Execs
             PROVE  Cardinality({n \in 1..MaxAttempts : <<x, n>> \in effects}) <= 1
  BY DEF RetriesNeverDoubleTheEffect
<1>1. {n \in 1..MaxAttempts : <<x, n>> \in effects} \subseteq {attempt[x]}
  BY DEF RetryInvariant, RetryIsSound
<1>2. IsFiniteSet({attempt[x]}) /\ Cardinality({attempt[x]}) = 1
  BY FS_Singleton
<1> QED BY <1>1, <1>2, FS_Subset

(* admit_retry never lets a request change such a world twice, although    *)
(* each attempt has an idempotency key of its own and is not deduplicated. *)
THEOREM RetrySafety ==
  ASSUME CrownAssumption, ExclusiveWorlds
  PROVE  CrownSpec => []RetriesNeverDoubleTheEffect
BY RetryClaims, InitRetries, NextRetries, CrownSafety, PTL DEF CrownSpec

(* What is kept of effects: that admitted grants and receipts stand behind *)
(* them, that they are told, and that a request does not repeat its own.   *)
EffectInvariant ==
  /\ CrownInvariant
  /\ "observe" \notin Faults => Told
  /\ ExclusiveWorlds => RetryInvariant

(* A broker that was not asked yet has none. *)
LEMMA InitEffects ==
  ASSUME CrownAssumption, CrownInit(Episodes) PROVE EffectInvariant
<1>1. Told
  BY DEF CrownInit, Told, IsTold, NotActedYet
<1> QED BY <1>1, InitCrown, InitRetries DEF EffectInvariant

(* Every step keeps it: Faults and ExclusiveWorlds are constant. *)
LEMMA NextEffects ==
  ASSUME CrownAssumption, EffectInvariant, [CrownNext]_crownVars PROVE EffectInvariant'
<1>1. CrownInvariant'
  BY NextCrown DEF EffectInvariant
<1>2. ASSUME "observe" \notin Faults PROVE Told'
  BY <1>2, NextTells DEF EffectInvariant
<1>3. ASSUME ExclusiveWorlds PROVE RetryInvariant'
  BY <1>3, NextRetries DEF EffectInvariant
<1>4. ExclusiveWorlds' <=> ExclusiveWorlds
  BY DEF ExclusiveWorlds
<1> QED BY <1>1, <1>2, <1>3, <1>4 DEF EffectInvariant

(* What the broker owes about effects follows from it. *)
LEMMA EffectClaims ==
  ASSUME CrownAssumption, EffectInvariant
  PROVE  AliveIsEvidenced /\ EffectsAreAccountedFor
<1>1. AliveIsEvidenced
  BY DEF EffectInvariant, CrownInvariant
<1>2. NothingActsUnadmitted
  BY AdmissionClaims DEF EffectInvariant
<1>3. "observe" \notin Faults => EffectsAreNotSilent
  BY DEF EffectInvariant, Told, IsTold, EffectsAreNotSilent
<1>4. ExclusiveWorlds => RetriesNeverDoubleTheEffect /\ RetryInvariant
  BY RetryClaims DEF EffectInvariant
<1> QED BY <1>1, <1>2, <1>3, <1>4 DEF EffectsAreAccountedFor

(* Every effect is accounted for: admitted before it happens, told in the  *)
(* answer unless the observation after it fails, and not doubled by the    *)
(* retries of a request that has its world for itself.                     *)
THEOREM EffectSafety ==
  ASSUME CrownAssumption
  PROVE  CrownSpec => []EffectsAreAccountedFor
BY InitEffects, NextEffects, EffectClaims, PTL DEF CrownSpec

-----------------------------------------------------------------------------
(* The task group *)

(* What a step of the run x does to its batch: it takes a slot, goes on    *)
(* with it, or gives it back, and only an exception cancels the others.    *)
Moves(x, p) ==
  /\ phase' = [phase EXCEPT ![x] = p] /\ batch' = batch
  /\ \/ /\ phase[x] = "queued" /\ Submitted(x) /\ status = "running" /\ p = "materialize"
        /\ slots > 0 /\ slots' = slots - 1 /\ status' = status
     \/ Running(x) /\ p \in {"grant", "closing"} /\ slots' = slots /\ status' = status
     \/ Running(x) /\ p = "ended" /\ slots' = slots + 1 /\ status' = status
     \/ Running(x) /\ p = "raised" /\ slots' = slots + 1 /\ status' = "cancelling"
     \/ /\ Running(x) \/ phase[x] = "queued"
        /\ Submitted(x) /\ status = "cancelling" /\ p = "cancelled" /\ status' = status
        /\ slots' = IF phase[x] = "queued" THEN slots ELSE slots + 1

(* Whatever a run does, the slots in use are those of the runs under way. *)
LEMMA SlotsAdd ==
  ASSUME AutomationAssumption, TypeOK, BatchIsSound, NEW x \in Execs, NEW p \in Phases, Moves(x, p)
  PROVE  /\ slots' = MaxConcurrency - Cardinality({y \in Execs : Running(y)'})
         /\ slots' \in 0..MaxConcurrency
<1> DEFINE R == {y \in Execs : Running(y)}
           S == {y \in Execs : Running(y)'}
<1>1. IsFiniteSet(R) /\ IsFiniteSet(S)
  BY FS_Subset DEF AutomationAssumption
<1>2. Cardinality(R) \in Nat /\ Cardinality(S) \in Nat
  BY <1>1, FS_CardinalityType
<1>3. slots = MaxConcurrency - Cardinality(R) /\ slots \in 0..MaxConcurrency /\ MaxConcurrency \in Nat
  BY DEF BatchIsSound, TypeOK, AutomationAssumption
<1>4. phase \in [Execs -> Phases] /\ phase' = [phase EXCEPT ![x] = p]
  BY DEF TypeOK, Moves
<1>5. CASE p \in {"materialize", "grant", "closing"}
  <2>1. S = R \cup {x}
    BY <1>4, <1>5 DEF Running
  <2>2. Cardinality(S) = IF x \in R THEN Cardinality(R) ELSE Cardinality(R) + 1
    BY <1>1, <2>1, FS_AddElement
  <2>3. x \in R <=> Running(x)
    OBVIOUS
  <2>4. CASE phase[x] = "queued"
    <3>1. ~Running(x) /\ slots > 0 /\ slots' = slots - 1
      BY <1>5, <2>4 DEF Moves, Running
    <3> HIDE DEF R, S
    <3> QED BY <1>2, <1>3, <2>2, <2>3, <3>1 DEF S
  <2>5. CASE phase[x] # "queued"
    <3>1. Running(x) /\ slots' = slots
      BY <1>5, <2>5 DEF Moves
    <3> HIDE DEF R, S
    <3> QED BY <1>2, <1>3, <2>2, <2>3, <3>1 DEF S
  <2> QED BY <2>4, <2>5
<1>6. CASE p \notin {"materialize", "grant", "closing"}
  <2>1. S = R \ {x}
    BY <1>4, <1>6 DEF Running
  <2>2. Cardinality(S) = IF x \in R THEN Cardinality(R) - 1 ELSE Cardinality(R)
    BY <1>1, <2>1, FS_RemoveElement
  <2>3. x \in R <=> Running(x)
    OBVIOUS
  <2>4. slots' = IF Running(x) THEN slots + 1 ELSE slots
    BY <1>6 DEF Moves, Running
  <2> HIDE DEF R, S
  <2> QED BY <1>2, <1>3, <2>2, <2>3, <2>4 DEF S
<1> QED BY <1>5, <1>6

(* A step of one run keeps the batch in order. *)
LEMMA BatchKeeps ==
  ASSUME AutomationAssumption, TypeOK, BatchIsSound, NEW x \in Execs, NEW p \in Phases, Moves(x, p)
  PROVE  /\ BatchIsSound' /\ slots' \in 0..MaxConcurrency /\ phase' \in [Execs -> Phases]
         /\ status' \in {"running", "cancelling", "returned", "raised"} /\ batch' \in Nat
<1>1. /\ phase \in [Execs -> Phases] /\ phase' = [phase EXCEPT ![x] = p] /\ batch' = batch
      /\ batch \in Nat /\ status \in {"running", "cancelling", "returned", "raised"}
      /\ BatchOf \in [Execs -> Nat]
  BY DEF TypeOK, Moves, AutomationAssumption
<1>2. /\ Running(x) => Submitted(x) /\ status \in {"running", "cancelling"}
      /\ Submitted(x) /\ status \in {"running", "cancelling"}
      /\ status' \in {"running", "cancelling"}
      /\ status' = "running" => status = "running" /\ p \notin {"raised", "cancelled"}
  BY DEF BatchIsSound, Moves
<1>3. ASSUME NEW y \in Execs
      PROVE  /\ Running(y)' => Submitted(y)' /\ status' \in {"running", "cancelling"}
             /\ BatchOf[y] > batch' => phase'[y] = "queued"
             /\ Submitted(y)' /\ status' \in {"running", "returned"}
                  => phase'[y] \notin {"raised", "cancelled"}
             /\ Submitted(y)' /\ status' \in {"returned", "raised"} => Over(y)'
  <2>1. CASE y = x
    BY <1>1, <1>2, <2>1 DEF Submitted, Running, Phases
  <2>2. CASE y # x
    BY <1>1, <1>2, <2>2 DEF BatchIsSound, Submitted, Running
  <2> QED BY <2>1, <2>2
<1>4. BatchIsSound'
  BY <1>3, SlotsAdd DEF BatchIsSound
<1> QED BY <1>1, <1>2, <1>4, SlotsAdd

-----------------------------------------------------------------------------
(* Worlds and cleanups *)

(* A step of x may add the world named after x, and tears down only worlds *)
(* that are there; the other runs stay where they are.                     *)
Frame(x) ==
  /\ live' \subseteq live \cup {x} /\ torndown \subseteq torndown'
  /\ torndown' \subseteq torndown \cup live
  /\ \A y \in Execs : y # x => /\ phase'[y] = phase[y] /\ outcome'[y] = outcome[y]
                               /\ ep'[y] = ep[y] /\ pc'[y] = pc[y]

(* Where the step leaves x itself. *)
Lands(x) ==
  /\ x \in live' => ep'[x] = x
  /\ \/ /\ phase'[x] \in {"grant", "closing", "raised", "cancelled"}
        /\ phase'[x] \in {"grant", "closing"} => ep'[x] \in Execs
        /\ outcome'[x].cleanup = "NONE"
     \/ /\ phase'[x] = "ended"
        /\ outcome'[x].cleanup = "ALIVE" => ep'[x] \in torndown'
        /\ x \in live' => outcome'[x].cleanup \in {"BLOCKED", "REFUSED"}

(* All runs are sound after a step of one. *)
LEMMA RunsKeep ==
  ASSUME NEW x \in Execs, \A y \in Execs : RunIsSound(y), Frame(x), RunIsSound(x)' \/ Lands(x)
  PROVE  \A y \in Execs : RunIsSound(y)'
<1>1. ASSUME NEW y \in Execs, y # x PROVE RunIsSound(y)'
  <2>1. RunIsSound(y)
    OBVIOUS
  <2>2. /\ phase'[y] = phase[y] /\ outcome'[y] = outcome[y] /\ ep'[y] = ep[y] /\ pc'[y] = pc[y]
        /\ y \in live' => y \in live
        /\ y \in torndown' => y \in torndown \cup live
        /\ ep[y] \in torndown => ep[y] \in torndown'
    BY <1>1 DEF Frame
  <2> QED BY <2>1, <2>2 DEF RunIsSound
<1>2. Lands(x) => RunIsSound(x)'
  BY DEF Lands, RunIsSound
<1> QED BY <1>1, <1>2

(* The pieces of the invariant after a step of one run. *)
LEMMA RunStepKeeps ==
  ASSUME AutomationAssumption, AutomationInvariant, NEW x \in Execs, NEW p \in Phases, Moves(x, p),
         CrownInvariant', Frame(x), Lands(x) \/ RunIsSound(x)', live' \cap torndown' = {},
         outcome' \in [Execs -> Outcomes], abandoned' \subseteq Execs,
         matCache' \in [{KeyOf[y] : y \in Execs} -> Materializations \cup {None}]
  PROVE  AutomationInvariant'
<1>1. TypeOK /\ BatchIsSound /\ \A y \in Execs : RunIsSound(y)
  BY DEF AutomationInvariant
<1>2. \A y \in Execs : RunIsSound(y)'
  BY <1>1, RunsKeep
<1>3. /\ BatchIsSound' /\ slots' \in 0..MaxConcurrency /\ phase' \in [Execs -> Phases]
      /\ status' \in {"running", "cancelling", "returned", "raised"} /\ batch' \in Nat
  BY <1>1, BatchKeeps
<1>4. torndown' \subseteq Episodes
  BY <1>1 DEF Frame, TypeOK, CrownTypeOK
<1>5. TypeOK'
  BY <1>3, <1>4 DEF TypeOK, CrownInvariant
<1> QED BY <1>2, <1>3, <1>5 DEF AutomationInvariant

-----------------------------------------------------------------------------
(* Executions inside runs *)

(* An execution that was not asked yet is given its episode. *)
LEMMA ReachKeeps ==
  ASSUME CrownAssumption, CrownInvariant, NEW x \in Execs, NEW e \in Episodes, pc[x] = "idle",
         Reach(x, e), live' \subseteq Episodes, UNCHANGED <<world, cache, ledger, effects, pending>>
  PROVE  CrownInvariant' /\ Kept(x)
<1>1. CrownTypeOK /\ WorkIsSound(x) /\ CacheIsEvidenced
  BY DEF CrownInvariant
<1>2. /\ ep' = [ep EXCEPT ![x] = e] /\ UNCHANGED <<pc, grant, attempt, act, standing, recon>>
      /\ UNCHANGED <<world, cache, ledger, effects, pending>>
  BY DEF Reach
<1>3. Kept(x)
  BY <1>1, <1>2 DEF Kept, CrownTypeOK
<1>4. CrownTypeOK'
  BY <1>1, <1>2 DEF CrownTypeOK
<1>5. standing'[x] = "NONE" /\ attempt[x] \in 1..MaxAttempts
  BY <1>1, <1>2 DEF WorkIsSound, CrownTypeOK
<1>6. WorkIsSound(x)'
  <2>1. /\ pc'[x] = "idle" /\ attempt'[x] = attempt[x]
        /\ \A n \in 1..MaxAttempts :
             <<x, n>> \in effects' \cup pending' => n <= attempt[x] /\ n # attempt[x]
    BY <1>1, <1>2 DEF WorkIsSound
  <2> QED BY <1>5, <2>1 DEF WorkIsSound
<1>7. AliveStands(x)'
  BY <1>5 DEF AliveStands
<1> QED BY <1>1, <1>2, <1>3, <1>4, <1>6, <1>7, SameCache, StepKeeps

(* A run is cancelled inside act(), after its effect. *)
LEMMA AbandonKeeps ==
  ASSUME CrownAssumption, CrownInvariant, NEW x \in Execs, pc[x] = "act",
         world' = [world EXCEPT ![ep[x]] = ValOf[x]], effects' = effects \cup {<<x, 1>>},
         UNCHANGED <<pc, ep, grant, attempt, act, standing, recon, live, cache, ledger, pending>>
  PROVE  CrownInvariant' /\ Kept(x)
<1>1. CrownTypeOK /\ WorkIsSound(x) /\ CacheIsEvidenced
  BY DEF CrownInvariant
<1>2. Kept(x)
  <2>1. \A y \in Execs : \A m : y # x => <<y, m>> # <<x, 1>>
    OBVIOUS
  <2> QED BY <2>1 DEF Kept
<1>3. 1 \in 1..MaxAttempts /\ attempt[x] \in 1..MaxAttempts
  BY <1>1 DEF CrownAssumption, CrownTypeOK
<1>4. CrownTypeOK'
  <2>1. <<x, 1>> \in Attempts
    BY <1>3 DEF Attempts
  <2>2. effects' \subseteq Attempts /\ world' \in [Episodes -> Values]
    BY <1>1, <2>1 DEF CrownTypeOK, CrownAssumption
  <2> QED BY <1>1, <2>2 DEF CrownTypeOK
<1>5. standing'[x] = "NONE" /\ IsAdmitted(x)'
  BY <1>1 DEF WorkIsSound, IsAdmitted
<1>6. \A n \in 1..MaxAttempts :
        <<x, n>> \in effects' \cup pending' => n <= attempt'[x] /\ (n = attempt'[x] => IsAdmitted(x)')
  BY <1>1, <1>3, <1>5 DEF WorkIsSound
<1>7. WorkIsSound(x)'
  BY <1>1, <1>5, <1>6 DEF WorkIsSound
<1>8. AliveStands(x)'
  BY <1>5 DEF AliveStands
<1> QED BY <1>1, <1>2, <1>4, <1>7, <1>8, SameCache, StepKeeps

(* An execution touches neither the episodes of the kernel nor its own.    *)
LEMMA ExecutionFacts ==
  ASSUME CrownAssumption, CrownInvariant, NEW x \in Execs, ep[x] \in Episodes,
         (\E g \in Grants : Execute(x, ep[x], g)) \/ Act(x) \/ Verify(x)
  PROVE  /\ CrownInvariant' /\ Kept(x) /\ UNCHANGED live /\ ep' = ep
         /\ standing'[x] \in Standings
<1>1. CrownInvariant' /\ Kept(x)
  BY ExecuteKeeps, ActKeeps, VerifyKeeps
<1>2. standing'[x] \in Standings
  BY <1>1 DEF CrownInvariant, CrownTypeOK
<1>3. UNCHANGED live /\ ep' = ep
  BY DEF Execute, Act, Verify, CrownInvariant, CrownTypeOK
<1> QED BY <1>1, <1>2, <1>3

-----------------------------------------------------------------------------
(* How a run goes on or ends *)

(* The controller's part of a step of x, whose world and episode are known *)
(* after it.                                                               *)
Controlled(x) ==
  /\ \E p \in Phases : Moves(x, p)
  /\ Lands(x) /\ outcome' \in [Execs -> Outcomes] /\ abandoned' = abandoned
  /\ \A y \in Execs : y # x => phase'[y] = phase[y] /\ outcome'[y] = outcome[y]

(* A run under way whose episode after the step is e, with the own world   *)
(* of x, if it is there, being that episode.                               *)
At(x, e) ==
  /\ TypeOK /\ Running(x) /\ outcome[x].cleanup = "NONE"
  /\ e \in Execs /\ ep'[x] = e /\ torndown' = torndown
  /\ x \in live' => e = x
  /\ live' \cap torndown = {}

(* The run raises. *)
LEMMA FailFacts ==
  ASSUME NEW x \in Execs, NEW e, At(x, e), Fail(x) PROVE Controlled(x)
<1>1. /\ phase \in [Execs -> Phases] /\ phase' = [phase EXCEPT ![x] = "raised"]
      /\ status' = "cancelling" /\ slots' = slots + 1 /\ UNCHANGED <<outcome, batch, abandoned>>
  BY DEF Fail, At, TypeOK
<1>2. "raised" \in Phases /\ Moves(x, "raised")
  BY <1>1 DEF Moves, At, Phases
<1>3. phase'[x] = "raised" /\ outcome'[x].cleanup = "NONE" /\ outcome' \in [Execs -> Outcomes]
  BY <1>1 DEF At, TypeOK
<1>4. Lands(x)
  BY <1>3 DEF Lands, At
<1> QED BY <1>1, <1>2, <1>3, <1>4 DEF Controlled

(* What a run that is over answers has the type of an outcome. *)
LEMMA OutcomeTyped ==
  ASSUME NEW st \in Standings \cup {"UNSUPPORTED", "REQUIRES_CONFIGURATION"}, NEW ok \in BOOLEAN,
         NEW c \in {"NONE", "ALIVE", "BLOCKED", "REFUSED"}
  PROVE  /\ [standing |-> st, verified |-> ok, cleanup |-> c] \in Outcomes
         /\ [standing |-> st, verified |-> ok, cleanup |-> c].cleanup = c
  BY DEF Outcomes

(* The run returns its outcome. *)
LEMMA EndFacts ==
  ASSUME TypeOK, NEW x \in Execs, Running(x),
         NEW st \in Standings \cup {"UNSUPPORTED", "REQUIRES_CONFIGURATION"}, NEW ok \in BOOLEAN,
         NEW c \in {"NONE", "ALIVE", "BLOCKED", "REFUSED"}, End(x, st, ok, c),
         x \in live' => ep'[x] = x /\ c \in {"BLOCKED", "REFUSED"},
         c = "ALIVE" => ep'[x] \in torndown'
  PROVE  Controlled(x)
<1>1. PICK o \in Outcomes : o = [standing |-> st, verified |-> ok, cleanup |-> c] /\ o.cleanup = c
  BY OutcomeTyped
<1>2. /\ phase \in [Execs -> Phases] /\ phase' = [phase EXCEPT ![x] = "ended"]
      /\ outcome \in [Execs -> Outcomes] /\ outcome' = [outcome EXCEPT ![x] = o]
      /\ slots' = slots + 1 /\ UNCHANGED <<batch, status, abandoned>>
  BY <1>1 DEF End, TypeOK
<1>3. "ended" \in Phases /\ Moves(x, "ended")
  BY <1>2 DEF Moves, Phases
<1>4. phase'[x] = "ended" /\ outcome'[x].cleanup = c
  BY <1>1, <1>2
<1>5. Lands(x)
  BY <1>4 DEF Lands
<1>6. outcome' \in [Execs -> Outcomes]
  BY <1>2
<1> QED BY <1>2, <1>3, <1>5, <1>6 DEF Controlled

(* _finish: a teardown that is answered at once, or one that is awaited. *)
LEMMA FinishFacts ==
  ASSUME NEW x \in Execs, NEW e, At(x, e), NEW ok \in BOOLEAN,
         NEW st \in Standings \cup {"UNSUPPORTED", "REQUIRES_CONFIGURATION"}, Finish(x, e, st, ok)
  PROVE  Controlled(x)
<1>1. CASE e \in torndown /\ End(x, st, ok, "ALIVE")
  BY <1>1, EndFacts DEF At
<1>2. CASE e \notin torndown /\ e \notin live' /\ End(x, st, ok, "BLOCKED")
  BY <1>2, EndFacts DEF At
<1>3. CASE /\ phase' = [phase EXCEPT ![x] = "closing"]
           /\ outcome' = [outcome EXCEPT ![x] =
                            [standing |-> st, verified |-> ok, cleanup |-> "NONE"]]
           /\ UNCHANGED <<slots, batch, status, abandoned>>
  <2>1. PICK o \in Outcomes :
          o = [standing |-> st, verified |-> ok, cleanup |-> "NONE"] /\ o.cleanup = "NONE"
    BY OutcomeTyped
  <2>2. phase \in [Execs -> Phases] /\ outcome \in [Execs -> Outcomes] /\ Running(x)
    BY DEF At, TypeOK
  <2>3. /\ phase'[x] = "closing" /\ outcome'[x].cleanup = "NONE"
        /\ \A y \in Execs : y # x => phase'[y] = phase[y] /\ outcome'[y] = outcome[y]
        /\ outcome' \in [Execs -> Outcomes]
    BY <1>3, <2>1, <2>2
  <2>4. "closing" \in Phases /\ Moves(x, "closing")
    BY <1>3, <2>2 DEF Moves, Phases
  <2>5. Lands(x)
    BY <2>3 DEF Lands, At
  <2> QED BY <1>3, <2>3, <2>4, <2>5 DEF Controlled
<1> QED BY <1>1, <1>2, <1>3 DEF Finish

(* The run goes on to its grant, or stays there. *)
LEMMA GrantFacts ==
  ASSUME NEW x \in Execs, NEW e, At(x, e), phase' = [phase EXCEPT ![x] = "grant"],
         UNCHANGED <<outcome, slots, batch, status, abandoned>>
  PROVE  Controlled(x)
<1>1. phase \in [Execs -> Phases] /\ outcome \in [Execs -> Outcomes] /\ Running(x)
  BY DEF At, TypeOK
<1>2. "grant" \in Phases /\ Moves(x, "grant")
  BY <1>1 DEF Moves, Phases
<1>3. phase'[x] = "grant" /\ outcome'[x].cleanup = "NONE"
  BY <1>1 DEF At
<1>4. Lands(x)
  BY <1>3 DEF Lands, At
<1> QED BY <1>1, <1>2, <1>4 DEF Controlled

(* From an accepted materialization to the grant. *)
LEMMA AnalyzeFacts ==
  ASSUME NEW x \in Execs, NEW e, At(x, e), Analyze(x, e) PROVE Controlled(x)
<1>1. {"UNSUPPORTED", "REQUIRES_CONFIGURATION", "REFUSED"}
        \subseteq Standings \cup {"UNSUPPORTED", "REQUIRES_CONFIGURATION"}
  BY DEF Standings
<1> QED BY <1>1, FailFacts, FinishFacts, GrantFacts DEF Analyze

(* From an answer of the broker. *)
LEMMA ContinueFacts ==
  ASSUME NEW x \in Execs, phase[x] = "grant", At(x, ep[x]), standing'[x] \in Standings, Continue(x)
  PROVE  Controlled(x)
<1>1. CASE pc'[x] = "raised" /\ Fail(x)
  BY <1>1, FailFacts
<1>2. CASE Finish(x, ep[x], standing'[x], standing'[x] = "ALIVE")
  BY <1>2, FinishFacts
<1>3. CASE UNCHANGED controlVars
  <2>1. phase' = [phase EXCEPT ![x] = "grant"] /\ UNCHANGED <<outcome, slots, batch, status, abandoned>>
    BY <1>3 DEF controlVars, At, TypeOK
  <2> QED BY <2>1, GrantFacts
<1> QED BY <1>1, <1>2, <1>3 DEF Continue

-----------------------------------------------------------------------------
(* The actions *)

(* A step that only x takes, with what the controller does in it. *)
LEMMA ControlledKeeps ==
  ASSUME AutomationAssumption, AutomationInvariant, NEW x \in Execs, Controlled(x),
         CrownInvariant', \A y \in Execs : y # x => pc'[y] = pc[y] /\ ep'[y] = ep[y],
         live' \subseteq live \cup {x}, torndown \subseteq torndown',
         torndown' \subseteq torndown \cup live, live' \cap torndown' = {},
         matCache' \in [{KeyOf[y] : y \in Execs} -> Materializations \cup {None}]
  PROVE  AutomationInvariant'
<1>1. PICK p \in Phases : Moves(x, p)
  BY DEF Controlled
<1>2. Frame(x)
  BY DEF Frame, Controlled
<1>3. abandoned' \subseteq Execs
  BY DEF Controlled, AutomationInvariant, TypeOK
<1> QED BY <1>1, <1>2, <1>3, RunStepKeeps DEF Controlled

(* A run under way has not reported a cleanup. *)
LEMMA RunningFacts ==
  ASSUME AutomationAssumption, AutomationInvariant, NEW x \in Execs
  PROVE  /\ TypeOK /\ CrownInvariant /\ CrownTypeOK /\ RunIsSound(x)
         /\ live \cap torndown = {} /\ live \subseteq Execs /\ Episodes = Execs
         /\ x \in live => ep[x] = x
         /\ phase[x] # "ended" => outcome[x].cleanup = "NONE"
         /\ phase[x] \in {"materialize", "grant", "closing"} => Running(x)
         /\ phase[x] = "materialize" => pc[x] = "idle" /\ x \notin live \cup torndown
         /\ phase[x] \in {"grant", "closing"} => ep[x] \in Execs
         /\ matCache \in [{KeyOf[y] : y \in Execs} -> Materializations \cup {None}]
<1>1. TypeOK /\ CrownInvariant /\ RunIsSound(x) /\ live \cap torndown = {}
  BY DEF AutomationInvariant
<1>2. CrownTypeOK /\ matCache \in [{KeyOf[y] : y \in Execs} -> Materializations \cup {None}]
  BY <1>1 DEF TypeOK
<1>3. live \subseteq Execs /\ Episodes = Execs
  BY <1>2 DEF CrownTypeOK, AutomationAssumption
<1> QED BY <1>1, <1>2, <1>3 DEF RunIsSound, Running

(* A task gets its slot. *)
LEMMA StartKeeps ==
  ASSUME AutomationAssumption, AutomationInvariant, NEW x \in Execs, Start(x)
  PROVE  AutomationInvariant'
<1>1. /\ phase[x] = "queued" /\ Submitted(x) /\ status = "running" /\ slots > 0
      /\ phase' = [phase EXCEPT ![x] = "materialize"] /\ slots' = slots - 1
      /\ UNCHANGED <<outcome, batch, status, abandoned, matCache, torndown>>
      /\ UNCHANGED <<pc, ep, grant, attempt, act, standing, recon, live, world, cache, ledger,
                     effects, pending>>
  BY DEF Start, crownVars, execVars, kernelVars
<1>2. CrownInvariant'
  BY <1>1, RunningFacts, TeardownKeeps
<1>3. "materialize" \in Phases /\ Moves(x, "materialize")
  BY <1>1 DEF Moves, Phases
<1>4. phase \in [Execs -> Phases] /\ outcome' \in [Execs -> Outcomes] /\ abandoned' \subseteq Execs
  BY <1>1, RunningFacts DEF TypeOK
<1>5. Frame(x)
  BY <1>1, <1>4 DEF Frame
<1>6. RunIsSound(x)'
  <2>1. RunIsSound(x) /\ outcome[x].cleanup = "NONE"
    BY <1>1, RunningFacts
  <2>2. phase'[x] = "materialize" /\ pc[x] = "idle" /\ x \notin live \cup torndown
    BY <1>1, <1>4, <2>1 DEF RunIsSound
  <2> QED BY <1>1, <2>1, <2>2 DEF RunIsSound
<1>7. live' \cap torndown' = {}
        /\ matCache' \in [{KeyOf[y] : y \in Execs} -> Materializations \cup {None}]
  BY <1>1, RunningFacts
<1> QED BY <1>2, <1>3, <1>4, <1>5, <1>6, <1>7, RunStepKeeps

(* create_episode remembers what it answers under its key. *)
LEMMA RememberTyped ==
  ASSUME AutomationAssumption, AutomationInvariant, NEW x \in Execs, NEW e \in Execs \cup {None},
         NEW st \in Standings,
         matCache' = [matCache EXCEPT ![KeyOf[x]] = [world |-> WorldOf[x], ep |-> e, standing |-> st]]
  PROVE  matCache' \in [{KeyOf[y] : y \in Execs} -> Materializations \cup {None}]
<1>1. [world |-> WorldOf[x], ep |-> e, standing |-> st] \in Materializations
  BY DEF Materializations
<1> QED BY <1>1, RunningFacts

(* A run reaches its world, or ends without one. *)
LEMMA MaterializeKeeps ==
  ASSUME CrownAssumption, AutomationAssumption, AutomationInvariant, NEW x \in Execs, Materialize(x)
  PROVE  AutomationInvariant'
<1> DEFINE cached == matCache[KeyOf[x]]
<1>1. phase[x] = "materialize" /\ UNCHANGED <<world, cache, ledger, effects, pending, torndown>>
  BY DEF Materialize
<1>2. /\ TypeOK /\ CrownInvariant /\ CrownTypeOK /\ live \cap torndown = {} /\ live \subseteq Execs
      /\ Episodes = Execs /\ Running(x) /\ pc[x] = "idle" /\ x \notin live \cup torndown
      /\ outcome[x].cleanup = "NONE"
      /\ matCache \in [{KeyOf[y] : y \in Execs} -> Materializations \cup {None}]
  BY <1>1, RunningFacts
<1>3. cached \in Materializations \cup {None}
  BY <1>2
<1>4. ASSUME NEW e \in Execs, Reach(x, e), Analyze(x, e), live' \subseteq live \cup {x},
             x \in live' => e = x,
             matCache' \in [{KeyOf[y] : y \in Execs} -> Materializations \cup {None}]
      PROVE  AutomationInvariant'
  <2>1. ep'[x] = e /\ live' \subseteq Episodes /\ live' \cap torndown = {} /\ torndown' = torndown
    BY <1>1, <1>2, <1>4 DEF Reach, CrownTypeOK
  <2>2. CrownInvariant' /\ Kept(x)
    BY <1>1, <1>2, <1>4, <2>1, ReachKeeps
  <2>3. Controlled(x)
    <3>1. At(x, e)
      BY <1>2, <1>4, <2>1 DEF At
    <3> QED BY <1>4, <3>1, AnalyzeFacts
  <2>4. \A y \in Execs : y # x => pc'[y] = pc[y] /\ ep'[y] = ep[y]
    BY <2>2 DEF Kept
  <2> QED BY <1>4, <2>1, <2>2, <2>3, <2>4, ControlledKeeps
<1>5. ASSUME NEW st \in Standings, End(x, st, FALSE, "NONE"), UNCHANGED <<execVars, live>>,
             matCache' \in [{KeyOf[y] : y \in Execs} -> Materializations \cup {None}]
      PROVE  AutomationInvariant'
  <2>1. UNCHANGED <<pc, ep, grant, attempt, act, standing, recon, live>>
    BY <1>5 DEF execVars
  <2>2. CrownInvariant'
    BY <1>1, <1>2, <2>1, TeardownKeeps
  <2>3. Controlled(x)
    BY <1>2, <1>5, <2>1, EndFacts
  <2> QED BY <1>1, <1>2, <1>5, <2>1, <2>2, <2>3, ControlledKeeps
<1>6. CASE /\ cached # None /\ cached.ep # None /\ UNCHANGED <<live, matCache>>
           /\ Reach(x, cached.ep) /\ Analyze(x, cached.ep)
  <2>1. cached.ep \in Execs
    BY <1>3, <1>6 DEF Materializations
  <2>2. x \notin live' /\ live' = live
        /\ matCache' \in [{KeyOf[y] : y \in Execs} -> Materializations \cup {None}]
    BY <1>2, <1>6
  <2> QED BY <1>4, <1>6, <2>1, <2>2
<1>7. CASE /\ cached # None /\ End(x, cached.standing, FALSE, "NONE")
           /\ UNCHANGED <<execVars, live, matCache>>
  <2>1. cached.standing \in Standings
    BY <1>3, <1>7 DEF Materializations
  <2> QED BY <1>2, <1>5, <1>7, <2>1
<1>8. CASE End(x, "REFUSED", FALSE, "NONE") /\ UNCHANGED <<execVars, live, matCache>>
  <2>1. "REFUSED" \in Standings
    BY DEF Standings
  <2> QED BY <1>2, <1>5, <1>8, <2>1
<1>9. CASE /\ live' = live \cup {x} /\ Reach(x, x) /\ Analyze(x, x)
           /\ matCache' = [matCache EXCEPT ![KeyOf[x]] =
                             [world |-> WorldOf[x], ep |-> x, standing |-> "ALIVE"]]
  <2>1. "ALIVE" \in Standings
    BY DEF Standings
  <2>2. matCache' \in [{KeyOf[y] : y \in Execs} -> Materializations \cup {None}]
    BY <1>9, <2>1, RememberTyped
  <2> QED BY <1>4, <1>9, <2>2
<1>10. CASE /\ End(x, "BLOCKED", FALSE, "NONE") /\ UNCHANGED <<execVars, live>>
            /\ matCache' = [matCache EXCEPT ![KeyOf[x]] =
                              [world |-> WorldOf[x], ep |-> None, standing |-> "BLOCKED"]]
  <2>1. "BLOCKED" \in Standings
    BY DEF Standings
  <2>2. matCache' \in [{KeyOf[y] : y \in Execs} -> Materializations \cup {None}]
    BY <1>10, <2>1, RememberTyped
  <2> QED BY <1>5, <1>10, <2>1, <2>2
<1> QED BY <1>6, <1>7, <1>8, <1>9, <1>10 DEF Materialize

(* A step of the broker inside a run. *)
LEMMA BrokerKeeps ==
  ASSUME CrownAssumption, AutomationAssumption, AutomationInvariant, NEW x \in Execs,
         phase[x] = "grant", UNCHANGED <<matCache, torndown>>, Continue(x),
         (\E g \in Grants : Execute(x, ep[x], g)) \/ Act(x) \/ Verify(x)
  PROVE  AutomationInvariant'
<1>1. /\ TypeOK /\ CrownInvariant /\ live \cap torndown = {} /\ live \subseteq Execs
      /\ Episodes = Execs /\ Running(x) /\ ep[x] \in Execs
      /\ outcome[x].cleanup = "NONE" /\ (x \in live => ep[x] = x)
      /\ matCache \in [{KeyOf[y] : y \in Execs} -> Materializations \cup {None}]
  BY RunningFacts
<1>2. CrownInvariant' /\ Kept(x) /\ live' = live /\ ep' = ep /\ standing'[x] \in Standings
  BY <1>1, ExecutionFacts
<1>3. At(x, ep[x])
  BY <1>1, <1>2 DEF At
<1>4. Controlled(x)
  BY <1>2, <1>3, ContinueFacts
<1>5. \A y \in Execs : y # x => pc'[y] = pc[y] /\ ep'[y] = ep[y]
  BY <1>2 DEF Kept
<1> QED BY <1>1, <1>2, <1>4, <1>5, ControlledKeeps

(* The issuer answers or raises. *)
LEMMA PlanKeeps ==
  ASSUME CrownAssumption, AutomationAssumption, AutomationInvariant, NEW x \in Execs, Plan(x)
  PROVE  AutomationInvariant'
<1>1. phase[x] = "grant" /\ UNCHANGED <<matCache, torndown>>
  BY DEF Plan
<1>2. CASE UNCHANGED crownVars /\ (Fail(x) \/ Finish(x, ep[x], "REFUSED", FALSE))
  <2>1. UNCHANGED <<pc, ep, grant, attempt, act, standing, recon, live, world, cache, ledger,
                    effects, pending>>
    BY <1>2 DEF crownVars, execVars, kernelVars
  <2>2. /\ TypeOK /\ CrownInvariant /\ live \cap torndown = {} /\ Running(x) /\ ep[x] \in Execs
        /\ outcome[x].cleanup = "NONE" /\ (x \in live => ep[x] = x)
        /\ matCache \in [{KeyOf[y] : y \in Execs} -> Materializations \cup {None}]
    BY <1>1, RunningFacts
  <2>3. At(x, ep[x]) /\ CrownInvariant'
    BY <1>1, <2>1, <2>2, TeardownKeeps DEF At
  <2>4. "REFUSED" \in Standings
    BY DEF Standings
  <2>5. Controlled(x)
    BY <1>2, <2>3, <2>4, FailFacts, FinishFacts
  <2> QED BY <1>1, <2>1, <2>2, <2>3, <2>5, ControlledKeeps
<1>3. CASE \E g \in Grants : Execute(x, ep[x], g) /\ Continue(x)
  BY <1>1, <1>3, BrokerKeeps
<1> QED BY <1>2, <1>3 DEF Plan

(* The broker acts or verifies. *)
LEMMA ConsequenceKeeps ==
  ASSUME CrownAssumption, AutomationAssumption, AutomationInvariant, NEW x \in Execs, Consequence(x)
  PROVE  AutomationInvariant'
  BY BrokerKeeps DEF Consequence

(* The teardown of a run is answered. *)
LEMMA CloseKeeps ==
  ASSUME CrownAssumption, AutomationAssumption, AutomationInvariant, NEW x \in Execs, Close(x)
  PROVE  AutomationInvariant'
<1> DEFINE st == outcome[x].standing
           ok == outcome[x].verified
<1>1. /\ phase[x] = "closing"
      /\ UNCHANGED <<pc, ep, grant, attempt, act, standing, recon, world, cache, ledger, effects,
                     pending, matCache>>
  BY DEF Close, execVars
<1>2. /\ TypeOK /\ CrownInvariant /\ live \cap torndown = {} /\ live \subseteq Execs
      /\ Running(x) /\ ep[x] \in Execs /\ (x \in live => ep[x] = x)
      /\ matCache \in [{KeyOf[y] : y \in Execs} -> Materializations \cup {None}]
  BY <1>1, RunningFacts
<1>3. st \in Standings \cup {"UNSUPPORTED", "REQUIRES_CONFIGURATION"} /\ ok \in BOOLEAN
  <2>1. outcome[x] \in Outcomes
    BY <1>2 DEF TypeOK
  <2> QED BY <2>1 DEF Outcomes
<1> HIDE DEF st, ok
<1>4. ASSUME NEW c \in {"NONE", "ALIVE", "BLOCKED", "REFUSED"}, End(x, st, ok, c),
             live' \subseteq live, torndown \subseteq torndown', torndown' \subseteq torndown \cup live,
             live' \cap torndown' = {}, x \in live' => c \in {"BLOCKED", "REFUSED"},
             c = "ALIVE" => ep[x] \in torndown'
      PROVE  AutomationInvariant'
  <2>1. CrownInvariant'
    BY <1>1, <1>2, <1>4, TeardownKeeps
  <2>2. Controlled(x)
    BY <1>1, <1>2, <1>3, <1>4, EndFacts
  <2> QED BY <1>1, <1>2, <1>4, <2>1, <2>2, ControlledKeeps
<1>5. CASE End(x, st, ok, "BLOCKED") /\ UNCHANGED <<live, torndown>>
  BY <1>2, <1>4, <1>5
<1>6. CASE End(x, st, ok, "REFUSED") /\ UNCHANGED <<live, torndown>>
  BY <1>2, <1>4, <1>6
<1>7. CASE /\ ep[x] \in live /\ End(x, st, ok, "ALIVE")
           /\ live' = live \ {ep[x]} /\ torndown' = torndown \cup {ep[x]}
  <2>1. x \notin live'
    BY <1>2, <1>7
  <2> QED BY <1>2, <1>4, <1>7, <2>1
<1> QED BY <1>5, <1>6, <1>7 DEF Close, st, ok

(* A run is cancelled at an await. *)
LEMMA CancelKeeps ==
  ASSUME CrownAssumption, AutomationAssumption, AutomationInvariant, NEW x \in Execs, Cancel(x)
  PROVE  AutomationInvariant'
<1>1. /\ status = "cancelling" /\ Submitted(x) /\ ~Over(x)
      /\ phase' = [phase EXCEPT ![x] = "cancelled"]
      /\ slots' = IF phase[x] = "queued" THEN slots ELSE slots + 1
      /\ UNCHANGED <<pc, ep, grant, attempt, act, standing, recon, live, cache, ledger, pending>>
      /\ UNCHANGED <<outcome, batch, status, matCache, torndown>>
  BY DEF Cancel, execVars
<1>2. /\ TypeOK /\ CrownInvariant /\ live \cap torndown = {} /\ (x \in live => ep[x] = x)
      /\ phase[x] # "ended" => outcome[x].cleanup = "NONE"
      /\ phase \in [Execs -> Phases] /\ outcome \in [Execs -> Outcomes] /\ abandoned \subseteq Execs
      /\ matCache \in [{KeyOf[y] : y \in Execs} -> Materializations \cup {None}]
  BY RunningFacts DEF TypeOK
<1>3. "cancelled" \in Phases /\ Moves(x, "cancelled")
  BY <1>1, <1>2 DEF Moves, Over, Running, Phases
<1>4. Lands(x)
  <2>1. phase'[x] = "cancelled" /\ outcome'[x].cleanup = "NONE"
    BY <1>1, <1>2 DEF Over
  <2> QED BY <1>1, <1>2, <2>1 DEF Lands
<1>5. Frame(x)
  BY <1>1, <1>2 DEF Frame
<1>6. CrownInvariant' /\ abandoned' \subseteq Execs
  <2>1. CASE UNCHANGED <<world, effects, abandoned>>
    BY <1>1, <1>2, <2>1, TeardownKeeps
  <2>2. CASE /\ pc[x] = "act" /\ world' = [world EXCEPT ![ep[x]] = ValOf[x]]
             /\ effects' = effects \cup {<<x, 1>>} /\ abandoned' = abandoned \cup {x}
    BY <1>1, <1>2, <2>2, AbandonKeeps
  <2> QED BY <2>1, <2>2 DEF Cancel
<1> QED BY <1>1, <1>2, <1>3, <1>4, <1>5, <1>6, RunStepKeeps

(* The controller's part of the invariant rests on its own variables, on   *)
(* where executions are and on the episodes of the kernel.                 *)
LEMMA ControlStays ==
  ASSUME AutomationInvariant, CrownInvariant',
         UNCHANGED <<controlVars, matCache, torndown, pc, ep, live>>
  PROVE  AutomationInvariant'
<1>1. UNCHANGED <<phase, outcome, slots, batch, status, abandoned>>
  BY DEF controlVars
<1>2. TypeOK'
  BY <1>1 DEF AutomationInvariant, TypeOK, CrownInvariant
<1>3. BatchIsSound'
  BY <1>1 DEF AutomationInvariant, BatchIsSound, Running, Submitted, Over
<1>4. ASSUME NEW x \in Execs PROVE RunIsSound(x)'
  BY <1>1 DEF AutomationInvariant, RunIsSound
<1> QED BY <1>2, <1>3, <1>4 DEF AutomationInvariant

(* An effect that timed out lands. *)
LEMMA LateKeeps ==
  ASSUME CrownAssumption, AutomationInvariant, NEW x \in Execs, Late(x)
  PROVE  AutomationInvariant'
<1>1. 1 \in 1..MaxAttempts
  BY DEF CrownAssumption
<1>2. CrownInvariant'
  BY <1>1, LateEffectKeeps DEF Late, AutomationInvariant
<1> QED BY <1>2, ControlStays DEF Late, LateEffect, execVars

(* The task group is left. *)
LEMMA SettleKeeps ==
  ASSUME AutomationAssumption, AutomationInvariant, Settle PROVE AutomationInvariant'
<1>1. /\ \A x \in Batch(batch) : Over(x)
      /\ status \in {"running", "cancelling"}
      /\ status' = IF status = "running" THEN "returned" ELSE "raised"
      /\ UNCHANGED <<phase, outcome, slots, batch, abandoned, matCache, torndown>>
      /\ UNCHANGED <<pc, ep, grant, attempt, act, standing, recon, live, world, cache, ledger,
                     effects, pending>>
  BY DEF Settle, crownVars, execVars, kernelVars
<1>2. CrownInvariant'
  BY <1>1, TeardownKeeps DEF AutomationInvariant
<1>3. TypeOK'
  BY <1>1, <1>2 DEF AutomationInvariant, TypeOK, CrownInvariant
<1>4. ASSUME NEW x \in Execs PROVE ~Running(x) /\ (Submitted(x) => Over(x))
  <2>1. Submitted(x) => Over(x)
    BY <1>1 DEF Submitted, Batch
  <2> QED BY <2>1 DEF AutomationInvariant, BatchIsSound, Running, Over
<1>5. BatchIsSound'
  <2>1. \A x \in Execs : /\ Running(x)' <=> Running(x)
                         /\ Submitted(x)' <=> Submitted(x)
                         /\ Over(x)' <=> Over(x)
    BY <1>1 DEF Running, Submitted, Over
  <2>2. {x \in Execs : Running(x)'} = {x \in Execs : Running(x)}
    BY <2>1
  <2>3. slots' = MaxConcurrency - Cardinality({x \in Execs : Running(x)'})
    BY <1>1, <2>2 DEF AutomationInvariant, BatchIsSound
  <2> QED BY <1>1, <1>4, <2>1, <2>3 DEF AutomationInvariant, BatchIsSound
<1>6. ASSUME NEW x \in Execs PROVE RunIsSound(x)'
  BY <1>1 DEF AutomationInvariant, RunIsSound
<1> QED BY <1>1, <1>2, <1>3, <1>5, <1>6 DEF AutomationInvariant

(* The next batch finds every slot free. *)
LEMMA SubmitKeeps ==
  ASSUME AutomationAssumption, AutomationInvariant, Submit PROVE AutomationInvariant'
<1>1. /\ status \in {"returned", "raised"} /\ batch' = batch + 1 /\ status' = "running"
      /\ slots' = MaxConcurrency
      /\ UNCHANGED <<phase, outcome, abandoned, matCache, torndown>>
      /\ UNCHANGED <<pc, ep, grant, attempt, act, standing, recon, live, world, cache, ledger,
                     effects, pending>>
  BY DEF Submit, crownVars, execVars, kernelVars
<1>2. CrownInvariant'
  BY <1>1, TeardownKeeps DEF AutomationInvariant
<1>3. MaxConcurrency \in Nat /\ batch \in Nat /\ BatchOf \in [Execs -> Nat]
  BY DEF AutomationAssumption, AutomationInvariant, TypeOK
<1>4. TypeOK'
  BY <1>1, <1>2, <1>3 DEF AutomationInvariant, TypeOK, CrownInvariant
<1>5. \A x \in Execs : ~Running(x)'
  BY <1>1 DEF AutomationInvariant, BatchIsSound, Running
<1>6. BatchIsSound'
  <2>1. {x \in Execs : Running(x)'} = {}
    BY <1>5
  <2>2. slots' = MaxConcurrency - Cardinality({x \in Execs : Running(x)'})
    BY <1>1, <1>3, <2>1, FS_EmptySet
  <2>3. ASSUME NEW x \in Execs
        PROVE  /\ BatchOf[x] > batch' => phase'[x] = "queued"
               /\ Submitted(x)' => phase'[x] = "queued"
    BY <1>1, <1>3 DEF AutomationInvariant, BatchIsSound, Submitted
  <2> QED BY <1>1, <1>5, <2>2, <2>3 DEF BatchIsSound
<1>7. ASSUME NEW x \in Execs PROVE RunIsSound(x)'
  BY <1>1 DEF AutomationInvariant, RunIsSound
<1> QED BY <1>1, <1>2, <1>4, <1>6, <1>7 DEF AutomationInvariant

-----------------------------------------------------------------------------
(* The theorems *)

(* Before the first batch everything is free and nothing has happened. *)
LEMMA InitAutomation ==
  ASSUME CrownAssumption, AutomationAssumption, Init PROVE AutomationInvariant
<1>1. CrownInvariant
  <2>1. {} \in SUBSET Episodes /\ CrownInit({})
    BY DEF Init
  <2> QED BY <2>1, InitCrown
<1>2. NoOutcome \in Outcomes /\ NoOutcome.cleanup = "NONE"
  <2>1. "NONE" \in Standings
    BY DEF Standings
  <2> QED BY <2>1, OutcomeTyped DEF NoOutcome
<1>3. TypeOK
  BY <1>1, <1>2 DEF Init, TypeOK, CrownInvariant, Phases, AutomationAssumption
<1>4. \A x \in Execs : phase[x] = "queued" /\ outcome[x] = NoOutcome
  BY DEF Init
<1>5. BatchIsSound
  <2>1. {x \in Execs : Running(x)} = {}
    BY <1>4 DEF Running
  <2> QED BY <1>4, <2>1, FS_EmptySet DEF Init, BatchIsSound, Running, AutomationAssumption
<1>6. ASSUME NEW x \in Execs PROVE RunIsSound(x)
  BY <1>2, <1>4 DEF Init, CrownInit, RunIsSound
<1> QED BY <1>1, <1>3, <1>5, <1>6 DEF AutomationInvariant, Init

(* Every step keeps the invariant. *)
LEMMA NextAutomation ==
  ASSUME CrownAssumption, AutomationAssumption, AutomationInvariant, [Next]_vars
  PROVE  AutomationInvariant'
<1>1. CASE UNCHANGED vars
  <2>1. UNCHANGED <<controlVars, matCache, torndown, pc, ep, live, grant, attempt, act, standing,
                    recon, world, cache, ledger, effects, pending>>
    BY <1>1 DEF vars, crownVars, execVars, kernelVars
  <2> QED BY <2>1, TeardownKeeps, ControlStays DEF AutomationInvariant
<1>2. ASSUME NEW x \in Execs, RunStep(x) PROVE AutomationInvariant'
  BY <1>2, StartKeeps, MaterializeKeeps, PlanKeeps, ConsequenceKeeps, CloseKeeps, CancelKeeps
     DEF RunStep
<1> QED BY <1>1, <1>2, LateKeeps, SettleKeeps, SubmitKeeps DEF Next

(* Controllers, batches and the executions inside them keep their          *)
(* invariant (autonomic.py, automation.py), whatever fails, however runs   *)
(* share keys and worlds, and wherever a cancellation is delivered.        *)
THEOREM AutomationSafety ==
  ASSUME CrownAssumption, AutomationAssumption
  PROVE  Spec => []AutomationInvariant
BY InitAutomation, NextAutomation, PTL DEF Spec

(* What the invariant says of worlds left behind and of returned batches. *)
LEMMA AutomationClaims ==
  ASSUME AutomationAssumption, AutomationInvariant
  PROVE  LeaksAreTold /\ BatchIsComplete /\ AliveIsEvidenced
<1>1. \A x \in Execs : RunIsSound(x) /\ (Running(x) => status \in {"running", "cancelling"})
  BY DEF AutomationInvariant, BatchIsSound
<1>2. live \cap torndown = {} /\ live \subseteq Execs
  BY DEF AutomationInvariant, TypeOK, CrownTypeOK, AutomationAssumption
<1>3. ASSUME NEW e \in live, status \in {"returned", "raised"}
      PROVE  /\ e \in Execs /\ ep[e] = e
             /\ phase[e] \in {"raised", "cancelled"} \/ outcome[e].cleanup \in {"BLOCKED", "REFUSED"}
  BY <1>1, <1>2, <1>3 DEF RunIsSound, Running
<1>4. LeaksAreTold
  BY <1>1, <1>2, <1>3 DEF LeaksAreTold, RunIsSound
<1>5. BatchIsComplete
  BY DEF AutomationInvariant, BatchIsSound, BatchIsComplete, Batch, Submitted, Over
<1>6. AliveIsEvidenced
  BY DEF AutomationInvariant, CrownInvariant
<1> QED BY <1>4, <1>5, <1>6

(* A cleanup reported by _finish as done is done, and a world that         *)
(* outlives its batch has a run that says so.                              *)
THEOREM LeakSafety ==
  ASSUME CrownAssumption, AutomationAssumption
  PROVE  Spec => []LeaksAreTold
BY AutomationClaims, AutomationSafety, PTL

(* A batch that returns has an outcome for each of its requests, so        *)
(* AUTOMATION_RESULT_CARDINALITY_VIOLATION of automation.py is unreachable *)
(* for any number of requests and slots.                                   *)
THEOREM BatchSafety ==
  ASSUME CrownAssumption, AutomationAssumption
  PROVE  Spec => []BatchIsComplete
BY AutomationClaims, AutomationSafety, PTL

(* What execute_verified promises of an ALIVE answer holds inside batches  *)
(* whose runs share keys and worlds and are cancelled at any await.        *)
THEOREM BatchAliveEvidence ==
  ASSUME CrownAssumption, AutomationAssumption
  PROVE  Spec => [](AliveIsEvidenced /\ AutomationInvariant)
BY AutomationClaims, AutomationSafety, PTL

-----------------------------------------------------------------------------
(* Keys *)

(* A receipt of x: under its key, if any, with its episode and capability. *)
OwnReceipt(x, r) ==
  /\ r.id[1] = x
  /\ r.key # None => r.key = Key(x) /\ r.ep = ep[x] /\ r.cap = CapOf[x]

(* A step of x records receipts of x only. *)
Records(x) ==
  \A i \in DOMAIN ledger' :
    \/ i \in DOMAIN ledger /\ ledger'[i] = ledger[i]
    \/ /\ ledger'[i].id[1] = x
       /\ ledger'[i].key # None =>
            ledger'[i].key = Key(x) /\ ledger'[i].ep = ep'[x] /\ ledger'[i].cap = CapOf[x]

(* Where the receipts of a concatenation come from. *)
LEMMA JoinedFrom ==
  ASSUME NEW S, NEW s \in Seq(S), NEW t \in Seq(S), NEW i \in DOMAIN (s \o t)
  PROVE  (i \in DOMAIN s /\ (s \o t)[i] = s[i]) \/ \E j \in DOMAIN t : (s \o t)[i] = t[j]
<1>1. CASE i \in DOMAIN s
  BY <1>1
<1>2. CASE i \notin DOMAIN s
  <2>1. i - Len(s) \in DOMAIN t /\ (s \o t)[i] = t[i - Len(s)]
    BY <1>2
  <2> QED BY <2>1
<1> QED BY <1>1, <1>2

(* Receipts appended by x are all of x. *)
LEMMA RecordsOf ==
  ASSUME CrownTypeOK, NEW x \in Execs, NEW rs \in Seq(Receipts), ledger' = ledger \o rs,
         ep'[x] = ep[x], \A j \in DOMAIN rs : OwnReceipt(x, rs[j])
  PROVE  Records(x)
<1>1. ASSUME NEW i \in DOMAIN ledger'
      PROVE  (i \in DOMAIN ledger /\ ledger'[i] = ledger[i]) \/ \E j \in DOMAIN rs : ledger'[i] = rs[j]
  <2>1. ledger \in Seq(Receipts)
    BY DEF CrownTypeOK
  <2> QED BY <2>1, JoinedFrom
<1> QED BY <1>1 DEF Records, OwnReceipt

(* What the broker binds is under the same key as what it was given. *)
LEMMA BoundFacts ==
  ASSUME NEW x \in Execs, NEW r \in Receipts, OwnReceipt(x, r), NEW id
  PROVE  /\ OwnReceipt(x, Bound(x, r))
         /\ OwnReceipt(x, Bound(x, [r EXCEPT !.id = id]))
<1>1. ASSUME NEW b, b = Bound(x, r) \/ b = Bound(x, [r EXCEPT !.id = id])
      PROVE  b.id = <<x, attempt[x], "bound">> /\ b.key = r.key /\ b.ep = r.ep /\ b.cap = r.cap
  BY <1>1 DEF Bound, Receipts
<1>2. ASSUME NEW b, b.id = <<x, attempt[x], "bound">>, b.key = r.key, b.ep = r.ep, b.cap = r.cap
      PROVE  OwnReceipt(x, b)
  BY <1>2 DEF OwnReceipt
<1> QED BY <1>1, <1>2

(* What the broker and the kernel record for x is of x. *)
LEMMA ReceiptIsOwn ==
  ASSUME NEW x \in Execs, NEW kind, NEW op, NEW st, NEW reason, NEW pre, NEW post, NEW parent, NEW ok
  PROVE  OwnReceipt(x, Receipt(x, kind, op, st, reason, pre, post, parent, ok))
<1>1. ASSUME NEW r, r = Receipt(x, kind, op, st, reason, pre, post, parent, ok)
      PROVE  /\ r.id = <<x, attempt[x], kind>> /\ r.ep = ep[x]
             /\ r.key = IF kind = "kernel_verify" THEN None ELSE Key(x)
             /\ r.cap = IF kind = "kernel_verify" THEN None ELSE CapOf[x]
  BY <1>1 DEF Receipt
<1>2. ASSUME NEW r, r.id = <<x, attempt[x], kind>>, r.ep = ep[x],
             r.key = IF kind = "kernel_verify" THEN None ELSE Key(x),
             r.cap = IF kind = "kernel_verify" THEN None ELSE CapOf[x]
      PROVE  OwnReceipt(x, r)
  BY <1>2 DEF OwnReceipt
<1> QED BY <1>1, <1>2

(* execute_verified and execute_admitted record what is theirs. *)
LEMMA AnswerRecords ==
  ASSUME CrownTypeOK, NEW x \in Execs, ep[x] \in Episodes, NEW a \in Results,
         NEW rs \in Seq(Receipts), Answer(x, a, rs), \A j \in DOMAIN rs : OwnReceipt(x, rs[j]),
         ep' = ep
  PROVE  Records(x)
<1> DEFINE source == Receipt(x, "act", "ACT", a.standing, a.reason, a.pre, a.post, None, FALSE)
           uncertain == Receipt(x, "uncertain", "ACT", "UNCERTAIN",
                                "ACTUATION_OUTCOME_UNCERTAIN", a.pre, a.post, a.id, FALSE)
           kept == Bound(x, [source EXCEPT !.id = a.id])
<1>1. /\ a.standing \in Standings /\ a.reason \in Reasons /\ a.pre \in Digests /\ a.post \in Digests
      /\ a.id \in Ids \cup {None}
  BY DEF Results
<1>2. /\ "UNCERTAIN" \in Standings /\ "uncertain" \in Kinds /\ "act" \in Kinds
      /\ "ACTUATION_OUTCOME_UNCERTAIN" \in Reasons /\ None \in Ids \cup {None}
  BY DEF Standings, Kinds, Reasons
<1>3. source \in Receipts /\ uncertain \in Receipts /\ Bound(x, uncertain) \in Receipts
  BY <1>1, <1>2, ReceiptFacts
<1>4. OwnReceipt(x, source) /\ OwnReceipt(x, uncertain)
  BY ReceiptIsOwn
<1>5. kept \in Receipts
  <2>1. <<x, attempt[x], "bound">> \in Ids
    BY DEF Ids, Kinds, CrownTypeOK
  <2> HIDE DEF source
  <2> QED BY <1>1, <1>3, <2>1 DEF Bound, Receipts
<1>6. OwnReceipt(x, Bound(x, uncertain)) /\ OwnReceipt(x, kept)
  <2> HIDE DEF source, uncertain
  <2> QED BY <1>3, <1>4, BoundFacts
<1>7. \/ UNCHANGED ledger \/ ledger' = ledger \o rs
      \/ ledger' = ledger \o rs \o <<uncertain, Bound(x, uncertain)>>
      \/ ledger' = ledger \o rs \o <<kept>>
  BY DEF Answer
<1> HIDE DEF source, uncertain, kept
<1>8. ASSUME NEW more \in Seq(Receipts), \A j \in DOMAIN more : OwnReceipt(x, more[j]),
             ledger' = ledger \o rs \o more
      PROVE  Records(x)
  <2>1. ledger \in Seq(Receipts) /\ rs \o more \in Seq(Receipts)
        /\ ledger' = ledger \o (rs \o more)
    BY <1>8 DEF CrownTypeOK
  <2>2. \A j \in DOMAIN (rs \o more) : OwnReceipt(x, (rs \o more)[j])
    BY <1>8, JoinedFrom
  <2> QED BY <2>1, <2>2, RecordsOf
<1>9. CASE UNCHANGED ledger
  BY <1>9 DEF Records
<1>10. CASE ledger' = ledger \o rs
  BY <1>10, RecordsOf
<1>11. CASE ledger' = ledger \o rs \o <<uncertain, Bound(x, uncertain)>>
  <2>1. PICK u, b : u = uncertain /\ b = Bound(x, uncertain)
    OBVIOUS
  <2>2. u \in Receipts /\ b \in Receipts /\ OwnReceipt(x, u) /\ OwnReceipt(x, b)
    BY <1>3, <1>4, <1>6, <2>1
  <2>3. /\ <<u, b>> \in Seq(Receipts) /\ ledger' = ledger \o rs \o <<u, b>>
        /\ \A j \in DOMAIN <<u, b>> : <<u, b>>[j] = u \/ <<u, b>>[j] = b
    BY <1>11, <2>1, <2>2
  <2> QED BY <1>8, <2>2, <2>3
<1>12. CASE ledger' = ledger \o rs \o <<kept>>
  <2>1. <<kept>> \in Seq(Receipts) /\ \A j \in DOMAIN <<kept>> : <<kept>>[j] = kept
    BY <1>5
  <2> QED BY <1>6, <1>8, <1>12, <2>1
<1> QED BY <1>7, <1>9, <1>10, <1>11, <1>12

(* An act() records its own receipts, and leaves what is cached. *)
LEMMA ActRecords ==
  ASSUME CrownAssumption, CrownInvariant, NEW x \in Execs, Act(x)
  PROVE  Records(x) /\ pc'[x] \notin {"idle", "act"} /\ attempt' = attempt
<1>1. CrownTypeOK /\ ep[x] \in Episodes /\ ep' = ep /\ attempt' = attempt /\ world[ep[x]] \in Values
  BY ActCases DEF CrownInvariant, CrownTypeOK
<1>2. ASSUME NEW a \in Results, NEW rs \in Seq(Receipts), Answer(x, a, rs),
             \A j \in DOMAIN rs : OwnReceipt(x, rs[j])
      PROVE  Records(x) /\ pc'[x] \notin {"idle", "act"}
  <2>1. Records(x)
    BY <1>1, <1>2, AnswerRecords
  <2>2. pc'[x] \notin {"idle", "act"}
    BY <1>1, <1>2, AnswerFacts DEF Answered
  <2> QED BY <2>1, <2>2
<1>3. ASSUME NEW r, OwnReceipt(x, r), NEW rs, rs = <<r>>
      PROVE  \A j \in DOMAIN rs : OwnReceipt(x, rs[j])
  <2>1. \A j \in DOMAIN rs : rs[j] = r
    BY <1>3
  <2> QED BY <1>3, <2>1
<1>4. CASE Replies(x)
  <2>1. PICK a \in Results, rs \in Seq(Receipts) :
          /\ Answer(x, a, rs)
          /\ \/ rs = << >>
             \/ rs = <<Receipt(x, "act", "ACT", "REFUSED", "IDEMPOTENCY_KEY_CONFLICT",
                               world[ep[x]], world[ep[x]], None, FALSE)>>
    BY <1>4 DEF Replies
  <2>2. PICK r : OwnReceipt(x, r) /\ r = Receipt(x, "act", "ACT", "REFUSED",
                 "IDEMPOTENCY_KEY_CONFLICT", world[ep[x]], world[ep[x]], None, FALSE)
    BY ReceiptIsOwn
  <2>3. CASE rs = << >>
    <3>1. \A j \in DOMAIN rs : OwnReceipt(x, rs[j])
      <4>1. DOMAIN rs = {}
        BY <2>3
      <4> QED BY <4>1
    <3> QED BY <1>1, <1>2, <2>1, <3>1
  <2>4. CASE rs = <<r>>
    BY <1>1, <1>2, <1>3, <2>1, <2>2, <2>4
  <2> QED BY <2>1, <2>2, <2>3, <2>4
<1>5. CASE Raise(x) /\ UNCHANGED <<world, cache, ledger, effects, pending>>
  BY <1>1, <1>5, RaiseFacts DEF Records
<1>6. CASE \E o \in ActOutcomes(x) : \E a, rs : FreshAct(x, o, a, rs) /\ Answer(x, a, rs)
  <2>0. PICK o \in ActOutcomes(x) : \E a, rs : FreshAct(x, o, a, rs) /\ Answer(x, a, rs)
    BY <1>6
  <2>1. PICK a, rs : FreshAct(x, o, a, rs) /\ Answer(x, a, rs)
    BY <2>0
  <2>2. a \in Results /\ rs \in Seq(Receipts)
    BY <1>1, <2>1, FreshFacts
  <2>3. PICK r : OwnReceipt(x, r) /\ rs = <<r>>
    BY <2>1, ReceiptIsOwn DEF FreshAct
  <2> QED BY <1>1, <1>2, <1>3, <2>1, <2>2, <2>3
<1> QED BY <1>1, <1>4, <1>5, <1>6, ActCases

(* So does the second hold of the lock. *)
LEMMA VerifyRecords ==
  ASSUME CrownAssumption, CrownInvariant, NEW x \in Execs, Verify(x)
  PROVE  Records(x) /\ pc'[x] \notin {"idle", "act"} /\ attempt' = attempt
<1> DEFINE st == Verdict(x)
           why == IF st = "ALIVE" THEN "NONE" ELSE "POSTCONDITION_FAILED"
           r == Receipt(x, "verify", "VERIFY", st, why, act[x].pre, world[ep[x]],
                        act[x].id, world[ep[x]] = ExpectedOf[x])
<1>1. /\ CrownTypeOK /\ ep[x] \in Episodes /\ ep' = ep /\ attempt' = attempt
      /\ (Raise(x) /\ UNCHANGED ledger) \/ (/\ ledger' = ledger \o <<KernelVerify(x), r, Bound(x, r)>>
                                            /\ Return(x, st))
  BY DEF Verify, CrownInvariant, WorkIsSound, IsAdmitted
<1>2. CASE Raise(x) /\ UNCHANGED ledger
  BY <1>1, <1>2, RaiseFacts DEF Records
<1>3. CASE ledger' = ledger \o <<KernelVerify(x), r, Bound(x, r)>> /\ Return(x, st)
  <2>1. st \in Standings /\ why \in Reasons /\ "verify" \in Kinds
    BY DEF Verdict, Standings, Reasons, Dispositions, Kinds
  <2>2. KernelVerify(x) \in Receipts /\ r \in Receipts /\ Bound(x, r) \in Receipts
    <3> HIDE DEF st, why
    <3> QED BY <1>1, <2>1, JudgedFacts
  <2>3. OwnReceipt(x, KernelVerify(x)) /\ OwnReceipt(x, r)
    BY ReceiptIsOwn DEF KernelVerify
  <2> HIDE DEF r, st, why
  <2>4. OwnReceipt(x, Bound(x, r))
    BY <2>2, <2>3, BoundFacts
  <2>5. PICK q1, q2, q3 : q1 = KernelVerify(x) /\ q2 = r /\ q3 = Bound(x, r)
    OBVIOUS
  <2>6. /\ q1 \in Receipts /\ q2 \in Receipts /\ q3 \in Receipts
        /\ OwnReceipt(x, q1) /\ OwnReceipt(x, q2) /\ OwnReceipt(x, q3)
    BY <2>2, <2>3, <2>4, <2>5
  <2>7. /\ <<q1, q2, q3>> \in Seq(Receipts) /\ ledger' = ledger \o <<q1, q2, q3>>
        /\ \A j \in DOMAIN <<q1, q2, q3>> : <<q1, q2, q3>>[j] \in {q1, q2, q3}
    BY <1>3, <2>5, <2>6
  <2>8. Records(x)
    BY <1>1, <2>6, <2>7, RecordsOf
  <2> QED BY <1>1, <1>3, <2>8 DEF Return, CrownTypeOK
<1> QED BY <1>1, <1>2, <1>3

(* And a refusal of the broker. *)
LEMMA ExecuteRecords ==
  ASSUME CrownAssumption, CrownInvariant, NEW x \in Execs, ep[x] \in Episodes, NEW g,
         Execute(x, ep[x], g)
  PROVE  /\ Records(x) /\ attempt' = attempt /\ pc[x] = "idle"
         /\ pc'[x] \notin {"idle", "act"} \/ UNCHANGED ledger
<1> DEFINE why == Admission(g)
           refused == [Refused(x, why) EXCEPT !.ep = ep[x]]
<1>1. CrownTypeOK /\ ep' = ep /\ attempt' = attempt /\ pc[x] = "idle"
  BY DEF Execute, CrownInvariant, CrownTypeOK
<1>2. CASE UNCHANGED ledger
  BY <1>1, <1>2 DEF Records
<1>3. CASE ledger' = Append(ledger, refused) /\ Return(x, "REFUSED") /\ why # "ADMITTED"
  <2>1. "refused" \in Kinds /\ why \in Reasons /\ "REFUSED" \in Standings /\ None \in Digests
    BY <1>3, AdmissionFacts DEF Kinds, Standings, Digests
  <2>2. Refused(x, why) \in Receipts /\ OwnReceipt(x, Refused(x, why))
    <3> HIDE DEF why
    <3> QED BY <1>1, <2>1, ReceiptFacts, ReceiptIsOwn DEF Refused
  <2>3. ASSUME NEW r \in Receipts, OwnReceipt(x, r)
        PROVE  LET q == [r EXCEPT !.ep = ep[x]] IN q \in Receipts /\ OwnReceipt(x, q)
    BY <2>3 DEF Receipts, OwnReceipt
  <2>4. PICK q \in Receipts : q = refused /\ OwnReceipt(x, q)
    BY <2>2, <2>3
  <2>5. PICK s \in Seq(Receipts) : ledger' = ledger \o s /\ \A j \in DOMAIN s : s[j] = q
    <3> HIDE DEF refused
    <3>1. <<q>> \in Seq(Receipts) /\ ledger' = ledger \o <<q>> /\ \A j \in DOMAIN <<q>> : <<q>>[j] = q
      BY <1>1, <1>3, <2>4 DEF CrownTypeOK
    <3> QED BY <3>1
  <2>6. Records(x)
    BY <1>1, <2>4, <2>5, RecordsOf
  <2> QED BY <1>1, <1>3, <2>6 DEF Return, CrownTypeOK
<1> QED BY <1>1, <1>2, <1>3 DEF Execute

(* What a step of x leaves of the others' keys: they keep their episodes,  *)
(* nothing that is remembered under a key is replaced, and a run whose     *)
(* receipts are not abandoned was not abandoned before.                    *)
KeyFrame(x) ==
  /\ Kept(x) /\ Records(x) /\ attempt'[x] = 1
  /\ ep[x] # None => ep'[x] = ep[x]
  /\ \A y \in Execs : y # x => phase'[y] = phase[y]
  /\ \A k \in {KeyOf[y] : y \in Execs} : matCache[k] # None => matCache'[k] = matCache[k]
  /\ \A e \in Episodes, k \in Keys : cache[e][k] # None => cache'[e][k] = cache[e][k]
  /\ abandoned \subseteq abandoned'

(* Keys stay sound when one run takes a step. *)
LEMMA KeysKeep ==
  ASSUME CrownAssumption, CrownTypeOK, KeyInvariant, NEW x \in Execs, KeyFrame(x), KeyIsSound(x)'
  PROVE  KeyInvariant'
<1>1. /\ \A i \in DOMAIN ledger : i \in DOMAIN ledger' /\ ledger'[i] = ledger[i]
      /\ \A y \in Execs : y # x => pc'[y] = pc[y] /\ ep'[y] = ep[y] /\ attempt'[y] = attempt[y]
      /\ \A y \in Execs : y # x => (<<y, 1>> \in effects' \cup pending' <=> <<y, 1>> \in effects \cup pending)
  BY DEF KeyFrame, Kept
<1>2. attempt[x] = 1 /\ attempt'[x] = 1 /\ Key(x)' = Key(x)
  BY DEF KeyInvariant, KeyIsSound, KeyFrame, Key
<1>3. ASSUME NEW y \in Execs, y # x PROVE KeyIsSound(y)'
  <2>1. /\ KeyIsSound(y) /\ Key(y)' = Key(y) /\ Key(y) \in Keys
    BY <1>1, <1>3 DEF KeyInvariant, Key, Keys, CrownTypeOK
  <2>2. /\ attempt'[y] = 1 /\ phase'[y] = phase[y] /\ ep'[y] = ep[y] /\ pc'[y] = pc[y]
        /\ y \notin abandoned' => y \notin abandoned
    BY <1>1, <1>3, <2>1 DEF KeyIsSound, KeyFrame
  <2>3. ep'[y] # None => matCache'[KeyOf[y]] # None /\ matCache'[KeyOf[y]].ep = ep'[y]
    BY <2>1, <2>2 DEF KeyIsSound, KeyFrame
  <2>4. pc'[y] \in {"idle", "act"} => \A i \in DOMAIN ledger' : ledger'[i].id[1] # y
    BY <1>1, <1>3, <2>1, <2>2 DEF KeyIsSound, KeyFrame, Records
  <2>5. ASSUME <<y, 1>> \in effects' \cup pending', y \notin abandoned'
        PROVE  /\ ep'[y] \in Episodes /\ cache'[ep'[y]][Key(y)] # None
               /\ cache'[ep'[y]][Key(y)].result.id = <<y, 1, "act">>
    BY <1>1, <1>3, <2>1, <2>2, <2>5 DEF KeyIsSound, KeyFrame
  <2> QED BY <2>1, <2>2, <2>3, <2>4, <2>5 DEF KeyIsSound
<1>4. ASSUME NEW i \in DOMAIN ledger', ledger'[i].key # None
      PROVE  \E z \in Execs : /\ ledger'[i].key = Key(z)' /\ ledger'[i].ep = ep'[z]
                              /\ ledger'[i].cap = CapOf[z]
  <2>1. CASE i \in DOMAIN ledger /\ ledger'[i] = ledger[i]
    <3>1. PICK z \in Execs : ledger[i].key = Key(z) /\ ledger[i].ep = ep[z] /\ ledger[i].cap = CapOf[z]
      BY <1>4, <2>1 DEF KeyInvariant, LedgerIsByKey
    <3>2. ledger[i] \in Receipts
      BY <2>1 DEF CrownTypeOK
    <3>3. ep[z] # None
      BY <3>1, <3>2 DEF Receipts, CrownAssumption
    <3>4. ep'[z] = ep[z] /\ attempt'[z] = attempt[z]
      BY <1>1, <1>2, <3>3 DEF KeyFrame
    <3> QED BY <2>1, <3>1, <3>4 DEF Key
  <2>2. CASE ~(i \in DOMAIN ledger /\ ledger'[i] = ledger[i])
    BY <1>2, <1>4, <2>2 DEF KeyFrame, Records
  <2> QED BY <2>1, <2>2
<1> QED BY <1>3, <1>4 DEF KeyInvariant, LedgerIsByKey

(* Under a key of one capability the ledger takes the receipt of an act(). *)
LEMMA ActIsTaken ==
  ASSUME CrownAssumption, CrownTypeOK, OneCapabilityPerKey, KeyInvariant, NEW x \in Execs,
         pc[x] = "act", ep[x] # None, NEW r, OwnReceipt(x, r), r.ep = ep[x], r.cap = CapOf[x], NEW rs, rs = <<r>>
  PROVE  ~Rejected(rs)
<1>1. \A i \in DOMAIN ledger : ledger[i].id[1] # x
  BY DEF KeyInvariant, KeyIsSound
<1>2. ~HoldsId(ledger, r.id)
  BY <1>1 DEF HoldsId, OwnReceipt
<1>3. ASSUME NEW i \in DOMAIN ledger, ledger[i].key = r.key, r.key # None
      PROVE  SameIntent(ledger[i], r)
  <2>1. PICK z \in Execs : ledger[i].key = Key(z) /\ ledger[i].ep = ep[z] /\ ledger[i].cap = CapOf[z]
    BY <1>3 DEF KeyInvariant, LedgerIsByKey
  <2>2. KeyOf[z] = KeyOf[x]
    BY <1>3, <2>1 DEF OwnReceipt, Key
  <2>3. ep[z] # None
    <3>1. ledger[i] \in Receipts
      BY <1>3 DEF CrownTypeOK
    <3> QED BY <2>1, <3>1 DEF Receipts, CrownAssumption
  <2>4. ep[z] = ep[x] /\ CapOf[z] = CapOf[x]
    <3>1. matCache[KeyOf[z]].ep = ep[z] /\ matCache[KeyOf[x]].ep = ep[x]
      BY <2>3 DEF KeyInvariant, KeyIsSound
    <3> QED BY <2>2, <3>1 DEF OneCapabilityPerKey
  <2> QED BY <2>1, <2>4 DEF SameIntent
<1>4. ~AppendRaises(ledger, r)
  BY <1>2, <1>3 DEF AppendRaises, KeyReuse, IsKeyOwner
<1> QED BY <1>4 DEF Rejected

(* Where a run goes on or ends leaves the other runs alone. *)
Goes(x) ==
  /\ phase'[x] \notin {"queued", "materialize"} /\ abandoned' = abandoned
  /\ \A y \in Execs : y # x => phase'[y] = phase[y]

(* However a run goes on. *)
LEMMA GoesOn ==
  ASSUME TypeOK, NEW x \in Execs, NEW e, NEW st, NEW ok, NEW c,
         \/ Fail(x) \/ End(x, st, ok, c) \/ Finish(x, e, st, ok) \/ Analyze(x, e)
         \/ phase[x] = "grant" /\ Continue(x)
  PROVE  Goes(x)
<1>1. phase \in [Execs -> Phases]
  BY DEF TypeOK
<1>2. ASSUME NEW s, NEW v, NEW d, Fail(x) \/ End(x, s, v, d) PROVE Goes(x)
  BY <1>1, <1>2 DEF Fail, End, Goes
<1>3. ASSUME NEW f, NEW s, NEW v, Finish(x, f, s, v) PROVE Goes(x)
  BY <1>1, <1>2, <1>3 DEF Finish, Goes
<1>4. CASE Analyze(x, e)
  BY <1>1, <1>2, <1>3, <1>4 DEF Analyze, Goes
<1>5. CASE phase[x] = "grant" /\ Continue(x)
  <2>1. CASE UNCHANGED controlVars
    BY <1>5, <2>1 DEF controlVars, Goes
  <2> QED BY <1>2, <1>3, <1>5, <2>1 DEF Continue
<1> QED BY <1>2, <1>3, <1>4, <1>5

(* Steps that touch neither keys nor receipts. *)
LEMMA KeysStay ==
  ASSUME KeyInvariant,
         \A y \in Execs : phase'[y] \in {"queued", "materialize"} => phase[y] \in {"queued", "materialize"},
         effects' \cup pending' = effects \cup pending,
         UNCHANGED <<pc, ep, attempt, ledger, cache, matCache, abandoned>>
  PROVE  KeyInvariant'
<1>1. ASSUME NEW y \in Execs PROVE KeyIsSound(y)'
  <2>1. KeyIsSound(y) /\ Key(y)' = Key(y)
    BY DEF KeyInvariant, Key
  <2> QED BY <2>1 DEF KeyIsSound
<1>2. LedgerIsByKey'
  BY DEF KeyInvariant, LedgerIsByKey, Key
<1> QED BY <1>1, <1>2 DEF KeyInvariant

(* A run that has not asked the broker has done nothing. *)
LEMMA IdleFacts ==
  ASSUME AutomationAssumption, AutomationInvariant, KeyInvariant, NEW x \in Execs, pc[x] = "idle"
  PROVE  /\ <<x, 1>> \notin effects \cup pending /\ attempt[x] = 1
         /\ \A i \in DOMAIN ledger : ledger[i].id[1] # x
<1>1. attempt[x] = 1 /\ \A i \in DOMAIN ledger : ledger[i].id[1] # x
  BY DEF KeyInvariant, KeyIsSound
<1>2. WorkIsSound(x) /\ attempt[x] \in 1..MaxAttempts
  BY DEF AutomationInvariant, CrownInvariant, CrownTypeOK
<1> QED BY <1>1, <1>2 DEF WorkIsSound

(* The world of a key is the one its first run materialized. *)
LEMMA MaterializeKeys ==
  ASSUME CrownAssumption, AutomationAssumption, AutomationInvariant, KeyInvariant,
         NEW x \in Execs, Materialize(x)
  PROVE  KeyInvariant'
<1> DEFINE cached == matCache[KeyOf[x]]
<1>1. phase[x] = "materialize" /\ UNCHANGED <<world, cache, ledger, effects, pending, torndown>>
  BY DEF Materialize
<1>2. /\ TypeOK /\ CrownTypeOK /\ pc[x] = "idle"
      /\ matCache \in [{KeyOf[y] : y \in Execs} -> Materializations \cup {None}]
  BY <1>1, RunningFacts
<1>3. /\ ep[x] = None /\ <<x, 1>> \notin effects \cup pending /\ attempt[x] = 1
      /\ \A i \in DOMAIN ledger : ledger[i].id[1] # x
  BY <1>1, <1>2, IdleFacts DEF KeyInvariant, KeyIsSound
<1>4. ASSUME NEW e, Goes(x), pc' = pc, attempt' = attempt, act' = act, standing' = standing,
             grant' = grant, recon' = recon, ep' = [ep EXCEPT ![x] = e],
             matCache'[KeyOf[x]] # None, e # None => matCache'[KeyOf[x]].ep = e,
             \A k \in {KeyOf[y] : y \in Execs} : matCache[k] # None => matCache'[k] = matCache[k]
      PROVE  KeyInvariant'
  <2>1. ep'[x] = e /\ \A y \in Execs : y # x => ep'[y] = ep[y]
    BY <1>2, <1>4 DEF CrownTypeOK
  <2>2. Kept(x) /\ Records(x)
    BY <1>1, <1>4, <2>1 DEF Kept, Records
  <2>3. KeyFrame(x)
    BY <1>1, <1>3, <1>4, <2>2 DEF KeyFrame, Goes
  <2>4. KeyIsSound(x)'
    BY <1>1, <1>3, <1>4, <2>1 DEF KeyIsSound, Goes
  <2> QED BY <1>2, <2>3, <2>4, KeysKeep
<1>5. ASSUME Goes(x), UNCHANGED <<execVars, matCache>> PROVE KeyInvariant'
  BY <1>1, <1>5, KeysStay DEF execVars, Goes
<1>6. CASE /\ cached # None /\ cached.ep # None /\ UNCHANGED <<live, matCache>>
           /\ Reach(x, cached.ep) /\ Analyze(x, cached.ep)
  <2>1. Goes(x)
    BY <1>2, <1>6, GoesOn
  <2>2. PICK e : e = cached.ep
    OBVIOUS
  <2> QED BY <1>4, <1>6, <2>1, <2>2 DEF Reach
<1>7. ASSUME NEW st, End(x, st, FALSE, "NONE"), UNCHANGED <<execVars, matCache>> PROVE KeyInvariant'
  <2>1. Goes(x)
    BY <1>2, <1>7, GoesOn
  <2> QED BY <1>5, <1>7, <2>1
<1>8. ASSUME NEW e \in Execs \cup {None}, NEW st \in Standings, cached = None,
             matCache' = [matCache EXCEPT ![KeyOf[x]] = [world |-> WorldOf[x], ep |-> e, standing |-> st]]
      PROVE  /\ matCache'[KeyOf[x]] # None /\ matCache'[KeyOf[x]].ep = e
             /\ \A k \in {KeyOf[y] : y \in Execs} : matCache[k] # None => matCache'[k] = matCache[k]
  <2>1. PICK m : m = [world |-> WorldOf[x], ep |-> e, standing |-> st]
    OBVIOUS
  <2>2. matCache'[KeyOf[x]] = m /\ m.ep = e
    BY <1>2, <1>8, <2>1
  <2>3. m # None
    <3>1. m \in Materializations
      BY <2>1 DEF Materializations
    <3> QED BY <3>1 DEF AutomationAssumption
  <2> QED BY <1>2, <1>8, <2>2, <2>3
<1>9. CASE /\ cached = None /\ Reach(x, x) /\ Analyze(x, x)
           /\ matCache' = [matCache EXCEPT ![KeyOf[x]] =
                             [world |-> WorldOf[x], ep |-> x, standing |-> "ALIVE"]]
  <2>1. Goes(x) /\ "ALIVE" \in Standings
    BY <1>2, <1>9, GoesOn DEF Standings
  <2> QED BY <1>4, <1>8, <1>9, <2>1 DEF Reach
<1>10. CASE /\ cached = None /\ End(x, "BLOCKED", FALSE, "NONE") /\ UNCHANGED execVars
            /\ matCache' = [matCache EXCEPT ![KeyOf[x]] =
                              [world |-> WorldOf[x], ep |-> None, standing |-> "BLOCKED"]]
  <2>1. Goes(x)
    BY <1>2, <1>10, GoesOn
  <2>2. /\ UNCHANGED <<pc, grant, attempt, act, standing, recon>> /\ ep' = [ep EXCEPT ![x] = None]
    BY <1>2, <1>3, <1>10 DEF execVars, CrownTypeOK
  <2>3. PICK e \in Execs \cup {None} : e = None /\ "BLOCKED" \in Standings
    BY DEF Standings
  <2>4. /\ matCache'[KeyOf[x]] # None /\ matCache'[KeyOf[x]].ep = e
        /\ \A k \in {KeyOf[y] : y \in Execs} : matCache[k] # None => matCache'[k] = matCache[k]
    BY <1>8, <1>10, <2>3
  <2> QED BY <1>4, <2>1, <2>2, <2>3, <2>4
<1> QED BY <1>6, <1>7, <1>9, <1>10 DEF Materialize

(* An act() under a key that nobody has acted under is remembered as its   *)
(* answer.                                                                 *)
LEMMA ActKeys ==
  ASSUME CrownAssumption, AutomationAssumption, OneCapabilityPerKey, AutomationInvariant,
         KeyInvariant, NEW x \in Execs, Act(x)
  PROVE  /\ \A e \in Episodes, k \in Keys : cache[e][k] # None => cache'[e][k] = cache[e][k]
         /\ <<x, 1>> \in effects' \cup pending' /\ x \notin abandoned =>
              /\ cache'[ep[x]][Key(x)] # None
              /\ cache'[ep[x]][Key(x)].result.id = <<x, 1, "act">>
<1>1. CrownInvariant /\ CrownTypeOK /\ KeyIsSound(x) /\ attempt[x] = 1
  BY DEF AutomationInvariant, CrownInvariant, KeyInvariant, KeyIsSound
<1>2. pc[x] = "act" /\ ep[x] \in Episodes /\ Key(x) \in Keys /\ ep[x] # None
  BY <1>1, ActCases DEF CrownAssumption
<1>3. CASE UNCHANGED <<cache, effects, pending>>
  BY <1>1, <1>3 DEF KeyIsSound
<1>4. CASE /\ cache[ep[x]][Key(x)] = None
           /\ \E o \in ActOutcomes(x) : \E a, rs : FreshAct(x, o, a, rs) /\ Answer(x, a, rs)
  <2>0. PICK o \in ActOutcomes(x) : \E a, rs : FreshAct(x, o, a, rs) /\ Answer(x, a, rs)
    BY <1>4
  <2>1. PICK a, rs : FreshAct(x, o, a, rs) /\ Answer(x, a, rs)
    BY <2>0
  <2>2. PICK r : /\ rs = <<r>>
                 /\ r = Receipt(x, "act", "ACT", o[1], o[2], a.pre, a.post, None, FALSE)
    BY <2>1 DEF FreshAct
  <2>3. OwnReceipt(x, r) /\ r.ep = ep[x] /\ r.cap = CapOf[x]
    <3>1. OwnReceipt(x, r)
      BY <2>2, ReceiptIsOwn
    <3> QED BY <2>2, <3>1 DEF Receipt
  <2>4. ~Rejected(rs)
    BY <1>1, <1>2, <2>2, <2>3, ActIsTaken
  <2>5. PICK c : /\ c = [intent |-> Intent(x), result |-> a] /\ c.result = a
                 /\ cache' = [cache EXCEPT ![ep[x]][Key(x)] = c]
    BY <2>1, <2>4 DEF FreshAct
  <2>6. a \in Results /\ a.id = <<x, 1, "act">>
    <3>1. a \in Results
      BY <1>1, <1>2, <2>1, FreshFacts
    <3> QED BY <1>1, <2>1, <3>1 DEF FreshAct
  <2>7. c # None
    <3>1. Intent(x) \in Caps \X Values
      BY DEF Intent, Caps, CrownAssumption
    <3>2. c \in Entries
      BY <2>5, <2>6, <3>1 DEF Entries
    <3> QED BY <3>2 DEF AutomationAssumption
  <2>8. /\ cache'[ep[x]][Key(x)] = c
        /\ \A e \in Episodes, k \in Keys : e # ep[x] \/ k # Key(x) => cache'[e][k] = cache[e][k]
    BY <1>1, <1>2, <2>5 DEF CrownTypeOK
  <2> QED BY <1>4, <2>5, <2>6, <2>7, <2>8
<1> QED BY <1>1, <1>3, <1>4, ActCases DEF Replies

(* A step of the broker inside a run keeps the keys sound. *)
LEMMA BrokerKeys ==
  ASSUME CrownAssumption, AutomationAssumption, OneCapabilityPerKey, AutomationInvariant,
         KeyInvariant, NEW x \in Execs, phase[x] = "grant", UNCHANGED matCache, Continue(x),
         (\E g \in Grants : Execute(x, ep[x], g)) \/ Act(x) \/ Verify(x)
  PROVE  KeyInvariant'
<1>1. /\ TypeOK /\ CrownInvariant /\ CrownTypeOK /\ ep[x] \in Episodes /\ KeyIsSound(x)
      /\ attempt[x] = 1
  BY RunningFacts DEF KeyInvariant, KeyIsSound
<1>2. Kept(x) /\ ep' = ep /\ Goes(x)
  BY <1>1, ExecutionFacts, GoesOn
<1>3. ASSUME Records(x), attempt' = attempt,
             \A e \in Episodes, k \in Keys : cache[e][k] # None => cache'[e][k] = cache[e][k],
             pc'[x] \notin {"idle", "act"} \/ (UNCHANGED ledger /\ pc[x] = "idle"),
             <<x, 1>> \in effects' \cup pending' /\ x \notin abandoned =>
               /\ cache'[ep[x]][Key(x)] # None /\ cache'[ep[x]][Key(x)].result.id = <<x, 1, "act">>
      PROVE  KeyInvariant'
  <2>1. KeyFrame(x)
    BY <1>1, <1>2, <1>3 DEF KeyFrame, Goes
  <2>2. Key(x)' = Key(x) /\ phase'[x] \notin {"queued", "materialize"} /\ abandoned' = abandoned
    BY <1>2, <1>3 DEF Key, Goes
  <2>3. KeyIsSound(x)'
    BY <1>1, <1>2, <1>3, <2>2 DEF KeyIsSound
  <2> QED BY <1>1, <2>1, <2>3, KeysKeep
<1>4. CASE Act(x)
  BY <1>1, <1>3, <1>4, ActKeys, ActRecords
<1>5. CASE Verify(x)
  <2>1. UNCHANGED <<cache, effects, pending>>
    BY <1>5 DEF Verify
  <2> QED BY <1>1, <1>3, <1>5, <2>1, VerifyRecords DEF KeyIsSound
<1>6. ASSUME NEW g \in Grants, Execute(x, ep[x], g) PROVE KeyInvariant'
  <2>1. UNCHANGED <<cache, effects, pending>>
    BY <1>6 DEF Execute
  <2> QED BY <1>1, <1>3, <1>6, <2>1, ExecuteRecords DEF KeyIsSound
<1> QED BY <1>4, <1>5, <1>6

(* A run that is cancelled inside act() after its effect is abandoned. *)
LEMMA CancelKeys ==
  ASSUME CrownAssumption, AutomationAssumption, AutomationInvariant, KeyInvariant,
         NEW x \in Execs, Cancel(x)
  PROVE  KeyInvariant'
<1>1. /\ phase' = [phase EXCEPT ![x] = "cancelled"]
      /\ UNCHANGED <<pc, ep, grant, attempt, act, standing, recon, cache, ledger, pending, matCache>>
  BY DEF Cancel, execVars
<1>2. TypeOK /\ CrownTypeOK /\ KeyIsSound(x) /\ attempt[x] = 1 /\ phase \in [Execs -> Phases]
  BY RunningFacts DEF KeyInvariant, KeyIsSound, TypeOK
<1>3. phase'[x] = "cancelled" /\ \A y \in Execs : y # x => phase'[y] = phase[y]
  BY <1>1, <1>2
<1>4. CASE UNCHANGED <<world, effects, abandoned>>
  BY <1>1, <1>3, <1>4, KeysStay
<1>5. CASE effects' = effects \cup {<<x, 1>>} /\ abandoned' = abandoned \cup {x}
  <2>1. Kept(x)
    <3>1. \A y \in Execs : \A m : y # x => <<y, m>> # <<x, 1>>
      OBVIOUS
    <3> QED BY <1>1, <1>5, <3>1 DEF Kept
  <2>2. KeyFrame(x)
    BY <1>1, <1>2, <1>3, <1>5, <2>1 DEF KeyFrame, Records
  <2>3. KeyIsSound(x)'
    BY <1>1, <1>2, <1>3, <1>5 DEF KeyIsSound
  <2> QED BY <1>2, <2>2, <2>3, KeysKeep
<1> QED BY <1>4, <1>5 DEF Cancel

(* Every step keeps the keys sound. *)
LEMMA NextKeys ==
  ASSUME CrownAssumption, AutomationAssumption, OneCapabilityPerKey, AutomationInvariant,
         KeyInvariant, [Next]_vars
  PROVE  KeyInvariant'
<1>1. CASE UNCHANGED vars
  BY <1>1, KeysStay DEF vars, crownVars, execVars, kernelVars, controlVars
<1>2. phase \in [Execs -> Phases] /\ TypeOK
  BY DEF AutomationInvariant, TypeOK
<1>3. ASSUME NEW x \in Execs, Start(x) PROVE KeyInvariant'
  BY <1>2, <1>3, KeysStay DEF Start, crownVars, execVars, kernelVars
<1>4. ASSUME NEW x \in Execs, Plan(x) PROVE KeyInvariant'
  <2>1. phase[x] = "grant" /\ UNCHANGED matCache
    BY <1>4 DEF Plan
  <2>2. CASE UNCHANGED crownVars /\ (Fail(x) \/ Finish(x, ep[x], "REFUSED", FALSE))
    <3>1. Goes(x)
      BY <1>2, <2>2, GoesOn
    <3> QED BY <2>1, <2>2, <3>1, KeysStay DEF crownVars, execVars, kernelVars, Goes
  <2> QED BY <1>4, <2>1, <2>2, BrokerKeys DEF Plan
<1>5. ASSUME NEW x \in Execs, Consequence(x) PROVE KeyInvariant'
  BY <1>5, BrokerKeys DEF Consequence
<1>6. ASSUME NEW x \in Execs, Close(x) PROVE KeyInvariant'
  <2>1. UNCHANGED <<pc, ep, attempt, ledger, cache, effects, pending, matCache>>
    BY <1>6 DEF Close, execVars
  <2>2. Goes(x)
    BY <1>2, <1>6, GoesOn DEF Close
  <2> QED BY <2>1, <2>2, KeysStay DEF Goes
<1>7. ASSUME NEW x \in Execs, Late(x) PROVE KeyInvariant'
  <2>1. /\ effects' \cup pending' = effects \cup pending
        /\ UNCHANGED <<pc, ep, attempt, ledger, cache, matCache, abandoned, phase>>
    BY <1>7 DEF Late, LateEffect, execVars, controlVars
  <2> QED BY <2>1, KeysStay
<1>8. CASE Settle
  BY <1>8, KeysStay DEF Settle, crownVars, execVars, kernelVars
<1>9. CASE Submit
  BY <1>9, KeysStay DEF Submit, crownVars, execVars, kernelVars
<1> QED BY <1>1, <1>3, <1>4, <1>5, <1>6, <1>7, <1>8, <1>9, MaterializeKeys, CancelKeys DEF Next, RunStep

(* Before the first batch no key stands for anything. *)
LEMMA InitKeys ==
  ASSUME Init PROVE KeyInvariant
<1>1. LedgerIsByKey
  BY DEF Init, CrownInit, LedgerIsByKey
<1>2. ASSUME NEW x \in Execs PROVE KeyIsSound(x)
  BY DEF Init, CrownInit, KeyIsSound
<1> QED BY <1>1, <1>2 DEF KeyInvariant

(* Two runs that acted under a key have the cached answer of one. *)
LEMMA KeyClaims ==
  ASSUME CrownAssumption, KeyInvariant PROVE KeysActOnce
<1> SUFFICES ASSUME NEW x \in Execs, NEW y \in Execs, KeyOf[x] = KeyOf[y], <<x, 1>> \in effects,
                    <<y, 1>> \in effects, x \notin abandoned, y \notin abandoned
             PROVE  x = y
  BY DEF KeysActOnce
<1>1. KeyIsSound(x) /\ KeyIsSound(y)
  BY DEF KeyInvariant
<1>2. /\ ep[x] \in Episodes /\ cache[ep[x]][Key(x)].result.id = <<x, 1, "act">>
      /\ ep[y] \in Episodes /\ cache[ep[y]][Key(y)].result.id = <<y, 1, "act">>
      /\ attempt[x] = 1 /\ attempt[y] = 1
  BY <1>1 DEF KeyIsSound
<1>3. ep[x] = ep[y]
  <2>1. matCache[KeyOf[x]].ep = ep[x] /\ matCache[KeyOf[y]].ep = ep[y]
    BY <1>1, <1>2 DEF KeyIsSound, CrownAssumption
  <2> QED BY <2>1
<1>4. <<x, 1, "act">> = <<y, 1, "act">>
  BY <1>2, <1>3 DEF Key
<1> QED BY <1>4

(* An idempotency key acts once over all batches: of the runs under a key  *)
(* that stands for one capability, two can only both have reached the      *)
(* world when one was cancelled inside act(), before anything could be     *)
(* remembered (autonomic.py hands the key down to the kernel's caches).    *)
THEOREM KeySafety ==
  ASSUME CrownAssumption, AutomationAssumption, OneCapabilityPerKey
  PROVE  Spec => []KeysActOnce
<1>1. AutomationInvariant /\ KeyInvariant /\ [Next]_vars => KeyInvariant'
  BY NextKeys
<1> QED BY <1>1, InitKeys, KeyClaims, AutomationSafety, PTL DEF Spec
=============================================================================
