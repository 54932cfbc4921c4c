----------------------- MODULE ApplicationFlowProofs -----------------------
(* What holds of applications for every number of overlapping handlers,     *)
(* applications, resume versions and questions.                             *)
EXTENDS ApplicationFlow, FiniteSetTheorems, TLAPS

\* Which of a handler's locals are set where.
ShapeOf(h) ==
    /\ pc[h] = "idle" <=> copy[h] = None
    /\ pc[h] = "idle" <=> target[h] = None
    /\ pc[h] = "count" /\ verified[h] =>
           copy[h].version # None /\ versions[copy[h].version] = "APPROVED"

\* A human gave each answer that must be a human's, in every status.
Answered(a, r) == \A q \in AlwaysReview : r.answers[q] = "AUTO" => q \in resolved[a]

Sound(a, r) == Answered(a, r) /\ (r.status \in Cleared => Safe(a, r))

StoredSound == \A a \in Apps : apps[a] # None => Sound(a, apps[a])

\* A handler's copy is as sound as what it may come to be saved as.
CopyOf(h) == copy[h] # None => Sound(target[h], copy[h])

IInv ==
    /\ TypeOK
    /\ \A h \in Handlers : ShapeOf(h)
    /\ StoredSound
    /\ \A h \in Handlers : CopyOf(h)

\* Safety only rests on versions that stay approved and answers that stay
\* resolved.
Steady ==
    /\ \A v \in Versions : versions[v] = "APPROVED" => versions'[v] = "APPROVED"
    /\ \A a \in Apps : resolved[a] \subseteq resolved'[a]

LEMMA SafeSteady ==
    ASSUME Steady, NEW a \in Apps, NEW r \in Application
    PROVE  (Safe(a, r) => Safe(a, r)') /\ (Sound(a, r) => Sound(a, r)')
<1>1. Safe(a, r) => Safe(a, r)'
  BY DEF Steady, Safe, Application
<1>2. Answered(a, r) => Answered(a, r)'
  BY DEF Steady, Answered
<1> QED BY <1>1, <1>2 DEF Sound

-----------------------------------------------------------------------------
(* Types of the records an operation returns.                              *)

LEMMA StatusTyped ==
    ASSUME NEW r \in Application, NEW to \in Statuses
    PROVE  /\ [r EXCEPT !.status = to] \in Application
           /\ \A a \in Apps : Safe(a, r) => Safe(a, [r EXCEPT !.status = to])
           /\ [r EXCEPT !.status = to].status = to
           /\ [r EXCEPT !.status = to] # None
<1>1. [r EXCEPT !.status = to] \in Application
  BY DEF Application
<1> QED BY <1>1, ConstantsAssumption DEF Application, Safe

LEMMA TransitionsTyped ==
    \A from \in Statuses : validTransitions[from] \in SUBSET Statuses
BY DEF validTransitions, Statuses

\* Only the gate leads behind the gate.
LEMMA ClearedFrom ==
    \A from \in Statuses, to \in Cleared :
        ValidTransition(from, to) => to = "READY" \/ from \in Cleared
BY DEF ValidTransition, validTransitions, Statuses, Cleared

LEMMA ApprovedFinal ==
    \A v \in VersionStatuses \ {""} :
        /\ versionTransitions[v] \in SUBSET (VersionStatuses \ {""})
        /\ v = "APPROVED" => versionTransitions[v] = {}
<1> SUFFICES ASSUME NEW v \in VersionStatuses \ {""}
             PROVE  /\ versionTransitions[v] \in SUBSET (VersionStatuses \ {""})
                    /\ v = "APPROVED" => versionTransitions[v] = {}
  OBVIOUS
<1> USE DEF versionTransitions, VersionStatuses
<1>1. CASE v = "GENERATED"
  BY <1>1
<1>2. CASE v = "VALIDATED"
  BY <1>2
<1>3. CASE v = "REVIEW"
  BY <1>3
<1>4. CASE v = "APPROVED"
  BY <1>4
<1>5. CASE v = "REJECTED"
  BY <1>5
<1> QED BY <1>1, <1>2, <1>3, <1>4, <1>5

-----------------------------------------------------------------------------
(* The two ways an operation ends keep the locals in order.                *)

\* What a step of h leaves alone.
OnlyLocals(h) ==
    /\ UNCHANGED <<apps, versions, submitted>>
    /\ Steady
    /\ resolved' \in [Apps -> SUBSET Questions]
    /\ lost' \in SUBSET Apps

LEMMA ReturnInv ==
    ASSUME IInv, NEW h \in Handlers, pc[h] # "idle", NEW r \in Application,
           Return(h, r), OnlyLocals(h),
           Sound(target[h], r)'
    PROVE  IInv'
<1>1. r # None
  BY ConstantsAssumption
<1>2. TypeOK'
  BY DEF IInv, TypeOK, Return, Goto, Labels, OnlyLocals
<1>3. StoredSound'
  BY SafeSteady DEF IInv, TypeOK, StoredSound, OnlyLocals
<1>4. ASSUME NEW g \in Handlers PROVE ShapeOf(g)' /\ CopyOf(g)'
  <2>1. CASE g = h
    BY <1>1, <2>1 DEF IInv, TypeOK, ShapeOf, CopyOf, Return, Goto
  <2>2. CASE g # h
    <3>1. pc'[g] = pc[g] /\ copy'[g] = copy[g] /\ target'[g] = target[g]
          /\ verified'[g] = verified[g] /\ versions' = versions
      BY <2>2 DEF IInv, TypeOK, Return, Goto, OnlyLocals
    <3>2. ShapeOf(g)'
      BY <3>1 DEF IInv, ShapeOf
    <3>3. copy[g] # None => copy[g] \in Application /\ target[g] \in Apps
      BY DEF IInv, TypeOK, ShapeOf
    <3>4. CopyOf(g)'
      BY <3>1, <3>3, SafeSteady DEF IInv, CopyOf, OnlyLocals
    <3> QED BY <3>2, <3>4
  <2> QED BY <2>1, <2>2
<1> QED BY <1>2, <1>3, <1>4 DEF IInv

LEMMA DropInv ==
    ASSUME IInv, NEW h \in Handlers, Drop(h), Steady,
           apps' \in [Apps -> Application \cup {None}],
           submitted' \in SUBSET Apps,
           UNCHANGED versions,
           resolved' \in [Apps -> SUBSET Questions],
           lost' \in SUBSET Apps,
           \A a \in Apps : apps'[a] # apps[a] => Sound(a, apps[a])'
    PROVE  IInv'
<1>2. TypeOK'
  BY DEF IInv, TypeOK, Drop, Goto, Labels
<1>3. ASSUME NEW a \in Apps, apps'[a] # None
      PROVE  Sound(a, apps[a])'
  <2>1. CASE apps'[a] = apps[a]
    <3>1. PICK r \in Application : r = apps[a]
      BY <1>3, <2>1 DEF IInv, TypeOK
    <3>2. Sound(a, r)'
      BY <1>3, <2>1, <3>1, SafeSteady DEF IInv, StoredSound
    <3> QED BY <2>1, <3>1, <3>2
  <2> QED BY <1>3, <2>1
<1>4. ASSUME NEW g \in Handlers PROVE ShapeOf(g)' /\ CopyOf(g)'
  <2>1. CASE g = h
    BY <2>1 DEF IInv, TypeOK, ShapeOf, CopyOf, Drop, Goto
  <2>2. CASE g # h
    <3>1. pc'[g] = pc[g] /\ copy'[g] = copy[g] /\ target'[g] = target[g]
          /\ verified'[g] = verified[g] /\ versions' = versions
      BY <2>2 DEF IInv, TypeOK, Drop, Goto
    <3>2. ShapeOf(g)'
      BY <3>1 DEF IInv, ShapeOf
    <3>3. copy[g] # None => copy[g] \in Application /\ target[g] \in Apps
      BY DEF IInv, TypeOK, ShapeOf
    <3>4. CopyOf(g)'
      BY <3>1, <3>3, SafeSteady DEF IInv, CopyOf
    <3> QED BY <3>2, <3>4
  <2> QED BY <2>1, <2>2
<1> QED BY <1>2, <1>3, <1>4 DEF IInv, StoredSound

\* An operation that moves r, no less safe than the copy, to a status that
\* does not lie behind the gate unless the copy was there already.
LEMMA TransitionInv ==
    ASSUME IInv, NEW h \in Handlers, pc[h] # "idle", NEW r \in Application,
           NEW to \in Statuses, Transition(h, r, to), OnlyLocals(h),
           target' = target => Answered(target[h], r)',
           to \in Cleared /\ ValidTransition(r.status, to) => Safe(target[h], r)'
    PROVE  IInv'
<1> DEFINE moved == [r EXCEPT !.status = to]
<1>1. target[h] \in Apps
  BY DEF IInv, TypeOK, ShapeOf
<1>2. moved \in Application /\ moved.status = to
      /\ (Safe(target[h], r) => Safe(target[h], moved))
  BY <1>1, StatusTyped
<1>3. CASE ValidTransition(r.status, to) /\ Return(h, moved)
  <2>1. Sound(target[h], moved)'
    BY <1>1, <1>2, <1>3 DEF Safe, Sound, Answered, Return, Application
  <2> HIDE DEF moved
  <2> QED BY <1>2, <1>3, <2>1, ReturnInv
<1>4. CASE Drop(h)
  BY <1>4, DropInv DEF OnlyLocals, IInv, TypeOK
<1> QED BY <1>3, <1>4 DEF Transition

\* The next-state relation, one action at a time.
LEMMA InvNext == IInv /\ [Next]_vars => IInv'
<1> SUFFICES ASSUME IInv, [Next]_vars PROVE IInv'
  OBVIOUS
<1>0. ASSUME NEW h \in Handlers, UNCHANGED <<stores, history>> PROVE OnlyLocals(h)
  BY <1>0 DEF OnlyLocals, Steady, stores, history, IInv, TypeOK
<1>1. CASE UNCHANGED vars
  BY <1>1 DEF vars, stores, history, IInv, TypeOK, ShapeOf, StoredSound, CopyOf, Sound, Answered, Safe
<1>2. CASE Midnight
  BY <1>2 DEF Midnight, history, IInv, TypeOK, ShapeOf, StoredSound, CopyOf, Sound, Answered, Safe
<1>3. ASSUME NEW v \in Versions, Generate(v) \/ Approve(v) \/ Reject(v) PROVE IInv'
  <2>1. /\ versions' \in [Versions -> VersionStatuses]
        /\ \A u \in Versions : versions[u] = "APPROVED" => versions'[u] = "APPROVED"
        /\ UNCHANGED <<apps, submitted, pc, target, copy, verified, history>>
    <3>1. CASE Generate(v)
      BY <3>1 DEF Generate, IInv, TypeOK, VersionStatuses
    <3>2. ASSUME NEW to, DecideVersion(v, to)
          PROVE  /\ versions' = [versions EXCEPT ![v] = to]
                 /\ to \in VersionStatuses /\ versions[v] # "APPROVED"
                 /\ UNCHANGED <<apps, submitted, pc, target, copy, verified, history>>
      BY <3>2, ApprovedFinal DEF DecideVersion, IInv, TypeOK
    <3>3. CASE Approve(v) \/ Reject(v)
      <4>1. PICK to : DecideVersion(v, to)
        BY <3>3 DEF Approve, Reject
      <4> QED BY <3>2, <4>1 DEF IInv, TypeOK
    <3> QED BY <1>3, <3>1, <3>3
  <2>2. Steady
    BY <2>1 DEF Steady, history
  <2>3. TypeOK'
    BY <2>1 DEF IInv, TypeOK, history
  <2>4. StoredSound'
    BY <2>1, <2>2, SafeSteady DEF IInv, TypeOK, StoredSound
  <2>5. ASSUME NEW g \in Handlers PROVE ShapeOf(g)' /\ CopyOf(g)'
    <3>1. copy[g] # None => copy[g] \in Application /\ target[g] \in Apps
      BY DEF IInv, TypeOK, ShapeOf
    <3>2. CopyOf(g)'
      BY <2>1, <2>2, <3>1, SafeSteady DEF IInv, CopyOf
    <3>3. copy[g] # None => copy[g].version \in Versions \cup {None}
      BY <3>1 DEF Application
    <3>4. ShapeOf(g)'
      BY <2>1, <3>3 DEF IInv, TypeOK, ShapeOf
    <3> QED BY <3>2, <3>4
  <2> QED BY <2>3, <2>4, <2>5 DEF IInv
<1>4. ASSUME NEW h \in Handlers, Handle(h) PROVE IInv'
  <2> PICK r : r = copy[h]
    OBVIOUS
  <2>0. pc[h] # "idle" => /\ r \in Application /\ target[h] \in Apps
                          /\ r.status \in Statuses /\ r # None
                          /\ Answered(target[h], r)
                          /\ r.status \in Cleared => Safe(target[h], r)
    BY ConstantsAssumption DEF IInv, TypeOK, ShapeOf, CopyOf, Sound, Application
  <2>1. CASE CheckDuplicate(h)
    <3>1. PICK a \in Apps, j \in Jobs, found \in Apps \cup {None} :
              /\ copy' = [copy EXCEPT ![h] =
                     [job |-> j, status |-> "DISCOVERED", version |-> None,
                      answers |-> [q \in Questions |-> "none"],
                      duplicateOf |-> found, gate |-> FALSE]]
              /\ target' = [target EXCEPT ![h] = a]
      BY <2>1 DEF CheckDuplicate
    <3> DEFINE new == [job |-> j, status |-> "DISCOVERED", version |-> None,
                       answers |-> [q \in Questions |-> "none"],
                       duplicateOf |-> found, gate |-> FALSE]
    <3>2. new \in Application /\ new # None /\ Sound(a, new)'
      <4>1. [q \in Questions |-> "none"] \in [Questions -> AnswerStatuses]
        BY DEF AnswerStatuses
      <4>2. "DISCOVERED" \in Statuses \ Cleared
        BY DEF Statuses, Cleared
      <4>3. new \in Application
        BY <4>1, <4>2 DEF Application
      <4>4. \A q \in AlwaysReview : new.answers[q] # "AUTO"
        BY ConstantsAssumption
      <4>5. new # None
        BY <4>3, ConstantsAssumption
      <4> QED BY <4>2, <4>3, <4>4, <4>5 DEF Sound, Answered
    <3> HIDE DEF new
    <3>3. a # None /\ pc' = [pc EXCEPT ![h] = "save"] /\ UNCHANGED <<stores, verified, history>>
      BY <2>1, ConstantsAssumption DEF CheckDuplicate, Goto
    <3>4. copy' = [copy EXCEPT ![h] = new]
      BY <3>1 DEF new
    <3>5. TypeOK'
      BY <3>1, <3>2, <3>3, <3>4 DEF IInv, TypeOK, stores, history, Labels
    <3>6. StoredSound'
      BY <3>3 DEF stores, history, IInv, StoredSound, Sound, Answered, Safe
    <3>7. ASSUME NEW g \in Handlers PROVE ShapeOf(g)' /\ CopyOf(g)'
      <4>1. CASE g = h
        BY <3>1, <3>2, <3>3, <3>4, <4>1 DEF IInv, TypeOK, ShapeOf, CopyOf
      <4>2. CASE g # h
        <5>1. /\ copy'[g] = copy[g] /\ target'[g] = target[g] /\ pc'[g] = pc[g]
              /\ UNCHANGED <<verified, versions, resolved>>
          BY <3>1, <3>3, <3>4, <4>2 DEF IInv, TypeOK, stores, history
        <5> QED BY <5>1 DEF IInv, ShapeOf, CopyOf, Sound, Answered, Safe
      <4> QED BY <4>1, <4>2
    <3> QED BY <3>5, <3>6, <3>7 DEF IInv
  <2>2. CASE GetApplication(h)
    <3>1. PICK a \in Apps : /\ apps[a] # None
                            /\ target' = [target EXCEPT ![h] = a]
                            /\ copy' = [copy EXCEPT ![h] = apps[a]]
      BY <2>2 DEF GetApplication
    <3>2. a # None /\ pc' = [pc EXCEPT ![h] = "apply"] /\ UNCHANGED <<stores, verified, history>>
      BY <2>2, ConstantsAssumption DEF GetApplication, Goto
    <3>3. TypeOK'
      BY <3>1, <3>2 DEF IInv, TypeOK, stores, history, Labels
    <3>4. StoredSound'
      BY <3>2 DEF stores, history, IInv, StoredSound, Sound, Answered, Safe
    <3>5. \A g \in Handlers : ShapeOf(g)' /\ CopyOf(g)'
      BY <3>1, <3>2 DEF stores, history, IInv, TypeOK, ShapeOf, CopyOf, StoredSound, Sound, Answered, Safe
    <3> QED BY <3>3, <3>4, <3>5 DEF IInv
  <2>3. CASE SaveApplication(h)
    <3>1. Drop(h) /\ UNCHANGED <<versions, history>> /\ pc[h] = "save"
      BY <2>3 DEF SaveApplication
    <3>2. Steady
      BY <3>1 DEF Steady, history
    <3>3. apps' = apps \/ apps' = [apps EXCEPT ![target[h]] = r]
      BY <2>3 DEF SaveApplication
    <3>4. apps' \in [Apps -> Application \cup {None}]
      BY <2>0, <3>1, <3>3 DEF IInv, TypeOK
    <3>5. submitted' \in SUBSET Apps
      BY <2>0, <2>3, <3>1 DEF SaveApplication, IInv, TypeOK
    <3>6. ASSUME NEW a \in Apps, apps'[a] # apps[a]
          PROVE  Sound(a, apps[a])'
      <4>1. a = target[h] /\ apps'[a] = r
        BY <2>0, <3>1, <3>3, <3>6 DEF IInv, TypeOK
      <4>2. Sound(a, r)
        BY <2>0, <3>1, <3>6, <4>1 DEF Sound
      <4>3. Sound(a, r)'
        BY <2>0, <3>1, <3>2, <4>2, SafeSteady
      <4> QED BY <4>1, <4>3
    <3> QED BY <3>1, <3>2, <3>4, <3>5, <3>6, DropInv DEF history, IInv, TypeOK
  <2>4. ASSUME NEW to \in Statuses, pc[h] # "idle", Transition(h, r, to),
               OnlyLocals(h), to # "READY"
        PROVE  IInv'
    <3>1. target' = target \/ Drop(h)
      BY <2>4 DEF Transition, Return
    <3>2. CASE Drop(h)
      BY <2>4, <3>2, DropInv DEF OnlyLocals, IInv, TypeOK
    <3>3. CASE target' = target
      <4>1. to \in Cleared /\ ValidTransition(r.status, to) => Safe(target[h], r)
        BY <2>0, <2>4, ClearedFrom
      <4>2. /\ Safe(target[h], r) => Safe(target[h], r)'
            /\ Answered(target[h], r)'
        BY <2>0, <2>4, <3>3, SafeSteady DEF OnlyLocals, Steady, Answered
      <4> QED BY <2>0, <2>4, <4>1, <4>2, TransitionInv
    <3> QED BY <3>1, <3>2, <3>3
  <2>5. CASE Drop(h) /\ UNCHANGED <<stores, history>>
    BY <1>0, <2>5, DropInv DEF OnlyLocals, IInv, TypeOK
  <2>6. CASE Qualify(h)
    <3>1. "QUALIFIED" \in Statuses /\ pc[h] # "idle" /\ UNCHANGED <<stores, history>>
      BY <2>6 DEF Qualify, Statuses
    <3> QED BY <1>0, <2>4, <2>5, <2>6, <3>1 DEF Qualify
  <2>7. CASE StartPreparing(h) \/ Cancel(h)
    <3>1. "PREPARING" \in Statuses /\ "CANCELLED" \in Statuses
          /\ pc[h] # "idle" /\ UNCHANGED <<stores, history>>
      BY <2>7 DEF StartPreparing, Cancel, Statuses
    <3> QED BY <1>0, <2>4, <2>7, <3>1 DEF StartPreparing, Cancel
  <2>8. CASE RecordOutcome(h)
    <3>1. PICK outcome \in Reports[copy[h].status] :
              /\ copy[h].status \in DOMAIN Reports
              /\ Transition(h, r, outcome)
              /\ lost' = IF ValidTransition(copy[h].status, outcome)
                         THEN lost ELSE lost \cup {target[h]}
      BY <2>8 DEF RecordOutcome
    <3>2. \A s \in DOMAIN Reports : \A o \in Reports[s] : o \in Statuses /\ o # "READY"
      BY DEF Reports, Statuses
    <3>3. outcome \in Statuses /\ outcome # "READY"
      BY <3>1, <3>2
    <3>4. OnlyLocals(h) /\ pc[h] # "idle"
      BY <2>0, <2>8, <3>1 DEF RecordOutcome, OnlyLocals, Steady, stores, IInv, TypeOK
    <3> QED BY <2>4, <3>1, <3>3, <3>4
  <2>9. ASSUME NEW q \in Questions, NEW s \in AnswerStatuses, Answerable(h),
               Return(h, [r EXCEPT !.answers[q] = s]), OnlyLocals(h),
               s = "AUTO" => q \notin AlwaysReview \/ q \in resolved'[target[h]]
        PROVE  IInv'
    <3> DEFINE new == [r EXCEPT !.answers[q] = s]
    <3>1. pc[h] # "idle" /\ r.status \notin Cleared /\ target' = target
      BY <2>9 DEF Answerable, Cleared, Return
    <3>2. new \in Application /\ new.status = r.status
      BY <2>0, <3>1 DEF Application
    <3>3. Sound(target[h], new)'
      <4>1. r.answers \in [Questions -> AnswerStatuses] /\ target[h] \in Apps
        BY <2>0, <3>1 DEF Application
      <4>2. ASSUME NEW p \in AlwaysReview, new.answers[p] = "AUTO"
            PROVE  p \in resolved'[target[h]]
        BY <2>0, <2>9, <3>1, <4>1, <4>2, ConstantsAssumption
           DEF Answered, OnlyLocals, Steady, Application
      <4> QED BY <3>1, <3>2, <4>2 DEF Sound, Answered
    <3> HIDE DEF new
    <3> QED BY <2>9, <3>1, <3>2, <3>3, ReturnInv DEF new
  <2>10. CASE Answer(h)
    <3>1. OnlyLocals(h) /\ Answerable(h)
      BY <1>0, <2>10 DEF Answer
    <3>2. PICK q \in Questions, s \in AnswerStatuses :
              /\ Return(h, [r EXCEPT !.answers[q] = s])
              /\ s = "AUTO" => q \notin AlwaysReview
      BY <2>10 DEF Answer, Classify, AnswerStatuses
    <3> QED BY <2>9, <3>1, <3>2
  <2>14. CASE ResolveReview(h)
    <3>1. pc[h] # "idle" /\ Answerable(h) /\ UNCHANGED <<stores, lost>>
      BY <2>14 DEF ResolveReview, Answerable
    <3>2. PICK q \in Questions : /\ Return(h, [r EXCEPT !.answers[q] = "AUTO"])
                                 /\ resolved' = [resolved EXCEPT ![target[h]] = @ \cup {q}]
      BY <2>14 DEF ResolveReview
    <3>3. q \in resolved'[target[h]]
      BY <2>0, <3>1, <3>2 DEF IInv, TypeOK
    <3>4. Steady /\ resolved' \in [Apps -> SUBSET Questions]
      BY <2>0, <3>1, <3>2 DEF Steady, stores, IInv, TypeOK
    <3>5. OnlyLocals(h)
      BY <3>1, <3>4 DEF OnlyLocals, stores, IInv, TypeOK
    <3>6. "AUTO" \in AnswerStatuses
      BY DEF AnswerStatuses
    <3> QED BY <2>9, <3>1, <3>2, <3>3, <3>5, <3>6
  <2>11. CASE AttachResume(h)
    <3>1. pc[h] # "idle" /\ UNCHANGED <<stores, history>>
      BY <2>11 DEF AttachResume
    <3>2. CASE ~Drop(h)
      <4>1. PICK v \in Versions : Transition(h, [r EXCEPT !.version = v], "REVIEW")
        BY <2>11, <3>2 DEF AttachResume
      <4>2. [r EXCEPT !.version = v] \in Application
        BY <2>0, <3>1 DEF Application
      <4>3. "REVIEW" \in Statuses \ Cleared
        BY DEF Statuses, Cleared
      <4>4. target' = target => Answered(target[h], [r EXCEPT !.version = v])'
        BY <2>0, <3>1, <4>2 DEF history, Answered, Application
      <4> QED BY <1>0, <3>1, <4>1, <4>2, <4>3, <4>4, TransitionInv
    <3> QED BY <2>5, <3>1, <3>2
  <2>12. CASE VerifyResume(h)
    <3>1. /\ pc[h] = "apply" /\ r.version # None
          /\ verified' = [verified EXCEPT ![h] = versions[r.version] = "APPROVED"]
          /\ pc' = [pc EXCEPT ![h] = "count"]
          /\ UNCHANGED <<stores, target, copy, history>>
      BY <2>12 DEF VerifyResume, Goto
    <3>2. TypeOK'
      BY <3>1 DEF IInv, TypeOK, Labels, stores, history
    <3>3. StoredSound' /\ \A g \in Handlers : CopyOf(g)'
      BY <3>1 DEF stores, history, IInv, StoredSound, CopyOf, Sound, Answered, Safe
    <3>4. \A g \in Handlers : ShapeOf(g)'
      BY <3>1 DEF stores, history, IInv, TypeOK, ShapeOf
    <3> QED BY <3>2, <3>3, <3>4 DEF IInv
  <2>13. CASE Ready(h)
    <3>1. pc[h] = "count" /\ UNCHANGED <<stores, history>>
      BY <2>13 DEF Ready
    <3>2. CASE ~Drop(h)
      <4>1. PICK jobVerified \in BOOLEAN, platform \in {"unknown", "allowed", "denied"} :
                /\ GateReasons(r, jobVerified, verified[h], platform, Cardinality(submitted)) = {}
                /\ Transition(h, [r EXCEPT !.gate = TRUE], "READY")
        BY <2>13, <3>2 DEF Ready
      <4> DEFINE gated == [r EXCEPT !.gate = TRUE]
      <4>2. gated \in Application
        BY <2>0, <3>1 DEF Application
      <4>3. Transition(h, gated, "READY")
        BY <4>1
      <4>4. CASE Drop(h)
        BY <3>2, <4>4
      <4>5. CASE ValidTransition(gated.status, "READY") /\ target' = target
        <5>2. /\ verified[h] /\ ~HasUnresolvedReview(r.answers)
              /\ r.duplicateOf = None
          BY <4>1 DEF GateReasons
        <5>3. r.version # None /\ versions[r.version] = "APPROVED"
          BY <3>1, <5>2 DEF IInv, ShapeOf
        <5>4. Answered(target[h], gated) /\ Safe(target[h], gated)
          BY <2>0, <3>1, <5>2, <5>3 DEF Safe, Answered, Application
        <5>5. Answered(target[h], gated)' /\ Safe(target[h], gated)'
          BY <2>0, <3>1, <4>2, <4>5, <5>4, <1>0, SafeSteady
             DEF OnlyLocals, Steady, Answered
        <5>6. "READY" \in Statuses
          BY DEF Statuses
        <5> HIDE DEF gated
        <5> QED BY <1>0, <3>1, <4>2, <4>3, <5>5, <5>6, TransitionInv
      <4> QED BY <4>3, <4>4, <4>5 DEF Transition, Return
    <3> QED BY <2>5, <3>1, <3>2
  <2> QED
    BY <1>4, <2>1, <2>2, <2>3, <2>5, <2>6, <2>7, <2>8, <2>10, <2>11, <2>12, <2>13, <2>14
    DEF Handle, Abort
<1> QED
  BY <1>1, <1>2, <1>3, <1>4 DEF Next

LEMMA InvInit == Init => IInv
<1> SUFFICES ASSUME Init PROVE IInv
  OBVIOUS
<1>1. TypeOK
  BY DEF Init, TypeOK, VersionStatuses, Labels
<1> QED BY <1>1 DEF Init, IInv, ShapeOf, StoredSound, CopyOf

-----------------------------------------------------------------------------
\* Whatever the handlers do and however they overlap, the stores only ever
\* hold well-formed applications: no zero Application of a refused Transition
\* is saved (application/state.go).
THEOREM TypeCorrect == Spec => []TypeOK
<1>1. IInv => TypeOK
  BY DEF IInv
<1> QED BY InvInit, InvNext, <1>1, PTL DEF Spec

\* Behind the safety gate an application has an approved resume, no open
\* review and human answers where they are required, for every number of
\* overlapping handlers (application/safety_gate.go).
THEOREM ClearedSafe == Spec => []ClearedIsSafe
<1>1. IInv => ClearedIsSafe
  BY DEF IInv, StoredSound, Sound, ClearedIsSafe
<1> QED BY InvInit, InvNext, <1>1, PTL DEF Spec

-----------------------------------------------------------------------------
(* Applications of one job that get behind the gate.                       *)

\* An application the duplicate check found none before.
IsFirst(r, j) == r # None /\ r.job = j /\ r.duplicateOf = None

\* The stored ones, and those that are still to be stored for the first time.
Firsts(j) == {a \in Apps : IsFirst(apps[a], j)}

Creating(j) == {h \in Handlers : apps[target[h]] = None /\ IsFirst(copy[h], j)}

\* Once one is stored no other is begun, so that they fit into the handlers.
FewFirsts ==
    \A j \in Jobs :
        Cardinality(Firsts(j)) + Cardinality(Creating(j)) <= Cardinality(Handlers)

\* What a handler holds is of the job it is stored under, and duplicates what
\* that does; a record not yet stored is held by the handler that made it.
Faithful(h) ==
    copy[h] # None =>
        /\ apps[target[h]] # None =>
              /\ copy[h].job = apps[target[h]].job
              /\ copy[h].duplicateOf = apps[target[h]].duplicateOf
        /\ apps[target[h]] = None => \A g \in Handlers : target[g] = target[h] => g = h

FirstInv == FewFirsts /\ \A h \in Handlers : Faithful(h)

\* An operation keeps the job and the duplicate of the record it works on, or
\* ends; the other handlers keep what they hold.
Keeps(h) ==
    /\ \/ copy'[h] = None /\ target'[h] = None
       \/ /\ target'[h] = target[h]
          /\ copy'[h].job = copy[h].job
          /\ copy'[h].duplicateOf = copy[h].duplicateOf
    /\ \A g \in Handlers \ {h} : copy'[g] = copy[g] /\ target'[g] = target[g]

LEMMA OperationKeeps ==
    ASSUME IInv, NEW h \in Handlers, Handle(h), ~CheckDuplicate(h),
           ~GetApplication(h), ~SaveApplication(h)
    PROVE  apps' = apps /\ Keeps(h)
<1>0. /\ copy \in [Handlers -> Application \cup {None}]
      /\ target \in [Handlers -> Apps \cup {None}]
      /\ pc[h] # "idle"
  BY DEF IInv, TypeOK, Handle, Qualify, StartPreparing, Cancel, AttachResume, Answer,
     ResolveReview, Answerable, VerifyResume, Ready, RecordOutcome, Abort
<1>1. copy[h] \in Application
  BY <1>0 DEF IInv, ShapeOf
<1>2. Drop(h) => Keeps(h)
  BY <1>0 DEF Drop, Keeps
<1>3. \A r : /\ Return(h, r)
             /\ r.job = copy[h].job /\ r.duplicateOf = copy[h].duplicateOf
             => Keeps(h)
  BY <1>0 DEF Return, Keeps
<1>4. \A r \in Application : \A to :
          /\ Transition(h, r, to)
          /\ r.job = copy[h].job /\ r.duplicateOf = copy[h].duplicateOf
          => Keeps(h)
  <2> SUFFICES ASSUME NEW r \in Application, NEW to, Transition(h, r, to),
                      r.job = copy[h].job, r.duplicateOf = copy[h].duplicateOf
               PROVE  Keeps(h)
    OBVIOUS
  <2> DEFINE moved == [r EXCEPT !.status = to]
  <2>1. moved.job = r.job /\ moved.duplicateOf = r.duplicateOf
    BY DEF Application
  <2>2. Return(h, moved) \/ Drop(h)
    BY DEF Transition
  <2> HIDE DEF moved
  <2> QED
    BY <1>2, <1>3, <2>1, <2>2
<1>5. CASE Qualify(h) \/ StartPreparing(h) \/ Cancel(h) \/ RecordOutcome(h)
  BY <1>1, <1>2, <1>4, <1>5
     DEF Qualify, StartPreparing, Cancel, RecordOutcome, stores
<1>6. CASE AttachResume(h)
  <2>1. Drop(h) \/ \E v \in Versions : Transition(h, [copy[h] EXCEPT !.version = v], "REVIEW")
    BY <1>6 DEF AttachResume
  <2>2. \A v \in Versions : /\ [copy[h] EXCEPT !.version = v] \in Application
                            /\ [copy[h] EXCEPT !.version = v].job = copy[h].job
                            /\ [copy[h] EXCEPT !.version = v].duplicateOf = copy[h].duplicateOf
    BY <1>1 DEF Application
  <2>3. Keeps(h)
    BY <1>2, <1>4, <2>1, <2>2
  <2> QED
    BY <1>6, <2>3 DEF AttachResume, stores
<1>7. CASE Answer(h) \/ ResolveReview(h)
  <2>1. PICK q \in Questions, s \in AnswerStatuses :
            Return(h, [copy[h] EXCEPT !.answers[q] = s])
    BY <1>7 DEF Answer, ResolveReview, Classify, AnswerStatuses
  <2> DEFINE r == [copy[h] EXCEPT !.answers[q] = s]
  <2>2. r.job = copy[h].job /\ r.duplicateOf = copy[h].duplicateOf
    BY <1>1 DEF Application
  <2> HIDE DEF r
  <2>3. Keeps(h)
    BY <1>3, <2>1, <2>2 DEF r
  <2> QED
    BY <1>7, <2>3 DEF Answer, ResolveReview, stores
<1>8. CASE VerifyResume(h)
  BY <1>8 DEF VerifyResume, Keeps, stores
<1>9. CASE Ready(h)
  <2>1. /\ [copy[h] EXCEPT !.gate = TRUE] \in Application
        /\ [copy[h] EXCEPT !.gate = TRUE].job = copy[h].job
        /\ [copy[h] EXCEPT !.gate = TRUE].duplicateOf = copy[h].duplicateOf
    BY <1>1 DEF Application
  <2>2. Transition(h, [copy[h] EXCEPT !.gate = TRUE], "READY") \/ Drop(h)
    BY <1>9 DEF Ready
  <2>3. Keeps(h)
    BY <1>2, <1>4, <2>1, <2>2
  <2> QED
    BY <1>9, <2>3 DEF Ready, stores
<1>10. CASE Abort(h)
  BY <1>2, <1>10 DEF Abort, stores
<1> QED
  BY <1>5, <1>6, <1>7, <1>8, <1>9, <1>10 DEF Handle

\* Nothing is begun when no handler newly holds an unstored record.
LEMMA FewerBegun ==
    ASSUME IInv, FirstInv,
           \A j \in Jobs : Firsts(j)' \subseteq Firsts(j),
           \A j \in Jobs : Creating(j)' \subseteq Creating(j)
    PROVE  FewFirsts'
<1> SUFFICES ASSUME NEW j \in Jobs
             PROVE  Cardinality(Firsts(j)') + Cardinality(Creating(j)') <= Cardinality(Handlers)
  BY DEF FewFirsts
<1>1. /\ IsFiniteSet(Firsts(j)) /\ Cardinality(Firsts(j)) \in Nat
      /\ IsFiniteSet(Creating(j)) /\ Cardinality(Creating(j)) \in Nat
      /\ Cardinality(Handlers) \in Nat
  BY ConstantsAssumption, FS_Subset, FS_CardinalityType DEF Firsts, Creating
<1>2. /\ Cardinality(Firsts(j)') \in Nat
      /\ Cardinality(Creating(j)') \in Nat
      /\ Cardinality(Firsts(j)') <= Cardinality(Firsts(j))
      /\ Cardinality(Creating(j)') <= Cardinality(Creating(j))
  BY <1>1, FS_Subset, FS_CardinalityType
<1>3. Cardinality(Firsts(j)) + Cardinality(Creating(j)) <= Cardinality(Handlers)
  BY DEF FirstInv, FewFirsts
<1> QED
  BY <1>1, <1>2, <1>3

\* A new record that duplicates none is the first of a job that has none stored.
LEMMA FirstCheckDuplicate ==
    ASSUME IInv, FirstInv, NEW h \in Handlers, CheckDuplicate(h)
    PROVE  FirstInv'
<1>0. /\ apps \in [Apps -> Application \cup {None}]
      /\ copy \in [Handlers -> Application \cup {None}]
      /\ target \in [Handlers -> Apps \cup {None}]
      /\ copy[h] = None
  BY DEF IInv, TypeOK, ShapeOf, CheckDuplicate
<1>1. apps' = apps
  BY DEF CheckDuplicate, stores
<1>2. PICK a \in Apps, job \in Jobs, found \in Apps \cup {None} :
          /\ apps[a] = None
          /\ \A g \in Handlers : target[g] # a
          /\ found = None => \A b \in Apps : apps[b] # None => apps[b].job # job
          /\ copy' = [copy EXCEPT ![h] =
                 [job |-> job, status |-> "DISCOVERED", version |-> None,
                  answers |-> [q \in Questions |-> "none"],
                  duplicateOf |-> found, gate |-> FALSE]]
          /\ target' = [target EXCEPT ![h] = a]
  BY DEF CheckDuplicate
<1>3. /\ copy'[h].job = job /\ copy'[h].duplicateOf = found /\ target'[h] = a
      /\ \A g \in Handlers \ {h} : copy'[g] = copy[g] /\ target'[g] = target[g]
  BY <1>0, <1>2
<1>4. \A g \in Handlers : Faithful(g)'
  BY <1>1, <1>2, <1>3 DEF FirstInv, Faithful
<1>5. \A j \in Jobs : Firsts(j)' = Firsts(j)
  BY <1>1 DEF Firsts
<1>6. ASSUME NEW j \in Jobs, found # None \/ j # job
      PROVE  Creating(j)' \subseteq Creating(j)
  BY <1>1, <1>3, <1>6 DEF Creating, IsFirst
<1>7. ASSUME found = None
      PROVE  Cardinality(Firsts(job)') + Cardinality(Creating(job)') <= Cardinality(Handlers)
  <2>1. Firsts(job)' = {}
    BY <1>1, <1>2, <1>7 DEF Firsts, IsFirst
  <2>2. Creating(job)' \in SUBSET Handlers
    BY DEF Creating
  <2>3. Cardinality(Creating(job)') <= Cardinality(Handlers) /\ Cardinality(Creating(job)') \in Nat
    BY <2>2, ConstantsAssumption, FS_Subset, FS_CardinalityType
  <2> QED
    BY <2>1, <2>3, FS_EmptySet
<1>8. CASE found # None
  BY <1>4, <1>5, <1>6, <1>8, FewerBegun DEF FirstInv
<1>9. CASE found = None
  <2> SUFFICES ASSUME NEW j \in Jobs
               PROVE  Cardinality(Firsts(j)') + Cardinality(Creating(j)') <= Cardinality(Handlers)
    BY <1>4 DEF FirstInv, FewFirsts
  <2>1. CASE j = job
    BY <1>7, <1>9, <2>1
  <2>2. CASE j # job
    <3>1. Firsts(j)' = Firsts(j) /\ Creating(j)' \in SUBSET Creating(j)
      BY <1>5, <1>6, <2>2
    <3>2. /\ IsFiniteSet(Firsts(j)) /\ Cardinality(Firsts(j)) \in Nat
          /\ IsFiniteSet(Creating(j)) /\ Cardinality(Creating(j)) \in Nat
          /\ Cardinality(Handlers) \in Nat
      BY ConstantsAssumption, FS_Subset, FS_CardinalityType DEF Firsts, Creating
    <3>3. Cardinality(Creating(j)') <= Cardinality(Creating(j)) /\ Cardinality(Creating(j)') \in Nat
      BY <3>1, <3>2, FS_Subset, FS_CardinalityType
    <3>4. Cardinality(Firsts(j)) + Cardinality(Creating(j)) <= Cardinality(Handlers)
      BY DEF FirstInv, FewFirsts
    <3> QED
      BY <3>1, <3>2, <3>3, <3>4
  <2> QED
    BY <2>1, <2>2
<1> QED
  BY <1>8, <1>9

\* A save turns a record that was being created into a stored one, at most.
LEMMA FirstSave ==
    ASSUME IInv, FirstInv, NEW h \in Handlers, SaveApplication(h)
    PROVE  FirstInv'
<1>0. /\ apps \in [Apps -> Application \cup {None}]
      /\ copy \in [Handlers -> Application \cup {None}]
      /\ target \in [Handlers -> Apps \cup {None}]
  BY DEF IInv, TypeOK
<1>1. /\ copy'[h] = None /\ target'[h] = None
      /\ \A g \in Handlers \ {h} : copy'[g] = copy[g] /\ target'[g] = target[g]
  BY <1>0 DEF SaveApplication, Drop
<1>2. target[h] \in Apps /\ copy[h] \in Application /\ copy[h] # None
  BY <1>0, ConstantsAssumption DEF SaveApplication, IInv, ShapeOf
<1>3. CASE apps' = apps
  <2>1. \A j \in Jobs : Firsts(j)' = Firsts(j) /\ Creating(j)' \subseteq Creating(j)
    BY <1>1, <1>3 DEF Firsts, Creating, IsFirst
  <2>2. \A g \in Handlers : Faithful(g)'
    <3> SUFFICES ASSUME NEW g \in Handlers PROVE Faithful(g)'
      OBVIOUS
    <3>1. CASE g = h
      BY <1>1, <3>1 DEF Faithful
    <3>2. CASE g # h
      <4>1. Faithful(g)
        BY DEF FirstInv
      <4>2. copy[g] # None => target[g] # None
        BY DEF IInv, ShapeOf
      <4> QED
        BY <1>1, <1>3, <3>2, <4>1, <4>2 DEF Faithful
    <3> QED
      BY <3>1, <3>2
  <2> QED
    BY <2>1, <2>2, FewerBegun DEF FirstInv
<1>4. CASE apps' = [apps EXCEPT ![target[h]] = copy[h]]
  <2>1. apps'[target[h]] = copy[h] /\ \A b \in Apps \ {target[h]} : apps'[b] = apps[b]
    BY <1>0, <1>2, <1>4
  <2>2. \A g \in Handlers : Faithful(g)'
    <3> SUFFICES ASSUME NEW g \in Handlers, g # h, copy[g] # None PROVE Faithful(g)'
      BY <1>1 DEF Faithful
    <3>1. Faithful(g) /\ Faithful(h) /\ target[g] \in Apps
      BY <1>0 DEF FirstInv, IInv, ShapeOf
    <3>2. copy'[g] = copy[g] /\ target'[g] = target[g]
      BY <1>1
    <3>3. CASE target[g] = target[h]
      <4>1. apps[target[h]] # None
        BY <1>2, <3>1, <3>3 DEF Faithful
      <4> QED
        BY <1>2, <2>1, <3>1, <3>2, <3>3, <4>1 DEF Faithful
    <3>4. CASE target[g] # target[h]
      <4>1. apps'[target'[g]] = apps[target[g]]
        BY <2>1, <3>1, <3>2, <3>4
      <4>2. \A f \in Handlers : target'[f] = target'[g] => target[f] = target[g]
        BY <1>0, <1>1, <3>1, <3>2, ConstantsAssumption
      <4> QED
        BY <3>1, <3>2, <4>1, <4>2 DEF Faithful
    <3> QED
      BY <3>3, <3>4
  <2>3. \A j \in Jobs : Creating(j)' \subseteq Creating(j) \ {h}
    <3> SUFFICES ASSUME NEW j \in Jobs, NEW g \in Creating(j)'
                 PROVE  g \in Creating(j) \ {h}
      OBVIOUS
    <3>1. g \in Handlers /\ apps'[target'[g]] = None /\ IsFirst(copy'[g], j)
      BY DEF Creating
    <3>2. g # h
      BY <1>1, <3>1 DEF IsFirst
    <3>3. copy[g] = copy'[g] /\ target[g] = target'[g] /\ target[g] \in Apps
      BY <1>0, <1>1, <3>1, <3>2 DEF IsFirst, IInv, ShapeOf
    <3>4. apps[target[g]] = None
      BY <1>2, <2>1, <3>1, <3>3
    <3> QED
      BY <3>1, <3>2, <3>3, <3>4 DEF Creating
  <2>4. CASE apps[target[h]] # None
    <3>1. \A j \in Jobs : Firsts(j)' \subseteq Firsts(j)
      BY <1>2, <2>1, <2>4 DEF Firsts, IsFirst, FirstInv, Faithful
    <3> QED
      BY <2>2, <2>3, <3>1, FewerBegun DEF FirstInv
  <2>5. CASE apps[target[h]] = None
    <3> SUFFICES ASSUME NEW j \in Jobs
                 PROVE  Cardinality(Firsts(j)') + Cardinality(Creating(j)') <= Cardinality(Handlers)
      BY <2>2 DEF FirstInv, FewFirsts
    <3>1. /\ IsFiniteSet(Firsts(j)) /\ Cardinality(Firsts(j)) \in Nat
          /\ IsFiniteSet(Creating(j)) /\ Cardinality(Creating(j)) \in Nat
          /\ Cardinality(Handlers) \in Nat
      BY ConstantsAssumption, FS_Subset, FS_CardinalityType DEF Firsts, Creating
    <3>2. /\ IsFiniteSet(Creating(j) \ {h})
          /\ Cardinality(Creating(j) \ {h}) =
               IF h \in Creating(j) THEN Cardinality(Creating(j)) - 1
                                    ELSE Cardinality(Creating(j))
      BY <3>1, FS_RemoveElement
    <3>3. Cardinality(Creating(j)') <= Cardinality(Creating(j) \ {h})
      BY <2>3, <3>2, FS_Subset
    <3>4. IsFiniteSet(Creating(j)') /\ Cardinality(Creating(j)') \in Nat
      BY <2>3, <3>2, FS_Subset, FS_CardinalityType
    <3>5. Cardinality(Firsts(j)) + Cardinality(Creating(j)) <= Cardinality(Handlers)
      BY DEF FirstInv, FewFirsts
    <3>6. CASE h \in Creating(j)
      <4>1. Firsts(j)' \subseteq Firsts(j) \cup {target[h]}
        BY <2>1 DEF Firsts
      <4>2. /\ IsFiniteSet(Firsts(j) \cup {target[h]})
            /\ Cardinality(Firsts(j) \cup {target[h]}) <= Cardinality(Firsts(j)) + 1
        BY <3>1, FS_AddElement
      <4>3. Cardinality(Firsts(j)') <= Cardinality(Firsts(j)) + 1
        <5>1. Cardinality(Firsts(j)') <= Cardinality(Firsts(j) \cup {target[h]})
          BY <4>1, <4>2, FS_Subset
        <5>2. /\ Cardinality(Firsts(j)') \in Nat
              /\ Cardinality(Firsts(j) \cup {target[h]}) \in Nat
          BY <4>1, <4>2, FS_Subset, FS_CardinalityType
        <5> QED
          BY <3>1, <4>2, <5>1, <5>2
      <4>4. Cardinality(Firsts(j)') \in Nat
        BY <4>1, <4>2, FS_Subset, FS_CardinalityType
      <4> QED
        BY <3>1, <3>2, <3>3, <3>4, <3>5, <3>6, <4>3, <4>4
    <3>7. CASE h \notin Creating(j)
      <4>1. ~IsFirst(copy[h], j)
        BY <2>5, <3>7 DEF Creating
      <4>2. Firsts(j)' \subseteq Firsts(j)
        BY <2>1, <4>1 DEF Firsts
      <4>3. Cardinality(Firsts(j)') <= Cardinality(Firsts(j)) /\ Cardinality(Firsts(j)') \in Nat
        BY <3>1, <4>2, FS_Subset, FS_CardinalityType
      <4> QED
        BY <3>1, <3>2, <3>3, <3>4, <3>5, <3>7, <4>3
    <3> QED
      BY <3>6, <3>7
  <2> QED
    BY <2>4, <2>5
<1> QED
  BY <1>3, <1>4 DEF SaveApplication

LEMMA FirstNext == IInv /\ FirstInv /\ [Next]_vars => FirstInv'
<1> SUFFICES ASSUME IInv, FirstInv, [Next]_vars PROVE FirstInv'
  OBVIOUS
<1>0. /\ apps \in [Apps -> Application \cup {None}]
      /\ copy \in [Handlers -> Application \cup {None}]
      /\ target \in [Handlers -> Apps \cup {None}]
  BY DEF IInv, TypeOK
<1>1. CASE UNCHANGED <<apps, copy, target>>
  <2>1. \A j \in Jobs : Firsts(j)' = Firsts(j) /\ Creating(j)' = Creating(j)
    BY <1>1 DEF Firsts, Creating
  <2> QED
    BY <1>1, <2>1 DEF FirstInv, FewFirsts, Faithful
<1>2. ASSUME NEW h \in Handlers, Handle(h) PROVE FirstInv'
  <2>1. CASE GetApplication(h)
    <3>1. PICK a \in Apps : apps[a] # None /\ copy' = [copy EXCEPT ![h] = apps[a]]
                            /\ target' = [target EXCEPT ![h] = a]
      BY <2>1 DEF GetApplication
    <3>2. /\ copy'[h] = apps[a] /\ target'[h] = a
          /\ \A g \in Handlers \ {h} : copy'[g] = copy[g] /\ target'[g] = target[g]
      BY <1>0, <3>1
    <3>3. apps' = apps
      BY <2>1 DEF GetApplication, stores
    <3>4. \A g \in Handlers : Faithful(g)'
      BY <3>1, <3>2, <3>3 DEF FirstInv, Faithful
    <3>5. \A j \in Jobs : Firsts(j)' = Firsts(j) /\ Creating(j)' \subseteq Creating(j)
      BY <3>1, <3>2, <3>3 DEF Firsts, Creating
    <3> QED
      BY <3>4, <3>5, FewerBegun DEF FirstInv
  <2>2. CASE ~CheckDuplicate(h) /\ ~GetApplication(h) /\ ~SaveApplication(h)
    <3>1. apps' = apps /\ Keeps(h)
      BY <1>2, <2>2, OperationKeeps
    <3>2. copy[h] # None
      BY <1>2, <2>2 DEF IInv, ShapeOf, Handle, Qualify, StartPreparing, Cancel,
         AttachResume, Answer, ResolveReview, Answerable, VerifyResume, Ready,
         RecordOutcome, Abort
    <3>3. \A g \in Handlers : copy[g] # None => target[g] # None
      BY DEF IInv, ShapeOf
    <3>4. \A g \in Handlers : Faithful(g)'
      BY <3>1, <3>2, <3>3 DEF FirstInv, Faithful, Keeps
    <3>5. \A j \in Jobs : Firsts(j)' = Firsts(j) /\ Creating(j)' \subseteq Creating(j)
      BY <3>1, <3>2 DEF Firsts, Creating, IsFirst, Keeps
    <3> QED
      BY <3>4, <3>5, FewerBegun DEF FirstInv
  <2> QED
    BY <2>1, <2>2, FirstCheckDuplicate, FirstSave
<1>3. ASSUME NEW v \in Versions, Generate(v) \/ Approve(v) \/ Reject(v)
      PROVE  UNCHANGED <<apps, copy, target>>
  BY <1>3 DEF Generate, Approve, Reject, DecideVersion
<1>4. CASE Midnight \/ UNCHANGED vars
  BY <1>1, <1>4 DEF Midnight, vars
<1> QED
  BY <1>1, <1>2, <1>3, <1>4 DEF Next

LEMMA FirstInit == Init => FirstInv
<1> SUFFICES ASSUME Init PROVE FirstInv
  OBVIOUS
<1>1. \A j \in Jobs : Firsts(j) = {} /\ Creating(j) = {}
  BY DEF Init, Firsts, Creating, IsFirst
<1>2. Cardinality(Handlers) \in Nat
  BY ConstantsAssumption, FS_CardinalityType
<1>3. FewFirsts
  <2>1. Cardinality({}) = 0
    BY FS_EmptySet
  <2> QED
    BY <1>1, <1>2, <2>1 DEF FewFirsts
<1> QED
  BY <1>3 DEF Init, FirstInv, Faithful

\* The applications of a job that are behind the gate.
ClearedFor(j) ==
    {a \in Apps : apps[a] # None /\ apps[a].status \in Cleared /\ apps[a].job = j}

\* Only what duplicates nothing passes the gate.
LEMMA ClearedAreFirst ==
    IInv => \A j \in Jobs : ClearedFor(j) \subseteq Firsts(j)
BY DEF IInv, StoredSound, Sound, Safe, ClearedFor, Firsts, IsFirst

\* Whatever overlaps, a job has no more applications behind the gate than there
\* are handlers: several may find no duplicate at once, but none once the first
\* of them is saved (CheckDuplicate, duplicate.go:10-16).
ClearedPerJobBounded ==
    \A j \in Jobs : Cardinality(ClearedFor(j)) <= Cardinality(Handlers)

\* The bound on what overlapping requests make of "one application per job"
\* (duplicate.go:10-16, safety_gate.go:62-64).
THEOREM PerJobBound == Spec => []ClearedPerJobBounded
<1>1. IInv /\ FirstInv => ClearedPerJobBounded
  <2> SUFFICES ASSUME IInv, FirstInv, NEW j \in Jobs
               PROVE  Cardinality(ClearedFor(j)) <= Cardinality(Handlers)
    BY DEF ClearedPerJobBounded
  <2>1. /\ IsFiniteSet(Firsts(j)) /\ Cardinality(Firsts(j)) \in Nat
        /\ IsFiniteSet(Creating(j)) /\ Cardinality(Creating(j)) \in Nat
        /\ Cardinality(Handlers) \in Nat
    BY ConstantsAssumption, FS_Subset, FS_CardinalityType DEF Firsts, Creating
  <2>2. ClearedFor(j) \in SUBSET Firsts(j)
    BY ClearedAreFirst
  <2>3. /\ Cardinality(ClearedFor(j)) <= Cardinality(Firsts(j))
        /\ Cardinality(ClearedFor(j)) \in Nat
    BY <2>1, <2>2, FS_Subset, FS_CardinalityType
  <2>4. Cardinality(Firsts(j)) + Cardinality(Creating(j)) <= Cardinality(Handlers)
    BY DEF FirstInv, FewFirsts
  <2> QED
    BY <2>1, <2>3, <2>4
<1> QED
  BY InvInit, InvNext, FirstInit, FirstNext, <1>1, PTL DEF Spec

\* The handlers take turns.
OneHandler == \A g, h \in Handlers : g = h

\* One application per job gets behind the gate, for handlers that take turns
\* and any number of applications (duplicate.go:11-20, safety_gate.go:78).
THEOREM OnePerJob == OneHandler => (Spec => []OneClearedPerJob)
<1> SUFFICES ASSUME OneHandler PROVE Spec => []OneClearedPerJob
  OBVIOUS
<1>1. TypeOK /\ ClearedPerJobBounded => OneClearedPerJob
  <2> SUFFICES ASSUME TypeOK, ClearedPerJobBounded, NEW a \in Apps, NEW b \in Apps,
                      apps[a] # None, apps[a].status \in Cleared,
                      apps[b] # None, apps[b].status \in Cleared,
                      apps[a].job = apps[b].job, a # b
               PROVE  FALSE
    BY DEF OneClearedPerJob
  <2> DEFINE j == apps[a].job
  <2>1. j \in Jobs /\ {a, b} \in SUBSET ClearedFor(j)
    BY DEF TypeOK, Application, ClearedFor
  <2>2. IsFiniteSet(ClearedFor(j)) /\ Cardinality(ClearedFor(j)) <= Cardinality(Handlers)
    BY <2>1, ConstantsAssumption, FS_Subset DEF ClearedFor, ClearedPerJobBounded
  <2>3. Cardinality(Handlers) \in {0, 1}
    <3>1. CASE Handlers = {}
      BY <3>1, FS_EmptySet
    <3>2. CASE Handlers # {}
      <4>1. \E h : Handlers = {h}
        BY <3>2 DEF OneHandler
      <4> QED
        BY <4>1, FS_Singleton
    <3> QED
      BY <3>1, <3>2
  <2>4. Cardinality({a, b}) = 2
    <3>1. IsFiniteSet({a}) /\ Cardinality({a}) = 1 /\ {a, b} = {a} \cup {b} /\ b \notin {a}
      BY FS_Singleton
    <3>2. Cardinality({a} \cup {b}) = 1 + 1
      BY <3>1, FS_AddElement
    <3> QED
      BY <3>1, <3>2
  <2>5. Cardinality({a, b}) <= Cardinality(ClearedFor(j)) /\ Cardinality(ClearedFor(j)) \in Nat
    BY <2>1, <2>2, FS_Subset, FS_CardinalityType
  <2> QED
    BY <2>2, <2>3, <2>4, <2>5
<1> QED
  BY TypeCorrect, PerJobBound, <1>1, PTL

-----------------------------------------------------------------------------
(* The daily limit is a daily budget, for handlers that do not overlap.    *)

\* A handler works on the record as it is stored, and saves one that moved from
\* there or was answered.
UpToDate(h) ==
    /\ pc[h] \in {"apply", "count"} => copy[h] = apps[target[h]]
    /\ pc[h] = "save" /\ apps[target[h]] = None => copy[h].status = "DISCOVERED"
    /\ pc[h] = "save" /\ apps[target[h]] # None =>
          \/ ValidTransition(apps[target[h]].status, copy[h].status)
          \/ /\ copy[h].status \in {"PREPARING", "REVIEW"}
             /\ copy[h].status = apps[target[h]].status

Counted == \A a \in submitted : apps[a] # None /\ apps[a].status = "SUBMITTED"

BudgetInv == Counted /\ \A h \in Handlers : UpToDate(h)

\* What the transitions say about the budget.
LEMMA BudgetTransitions ==
    \A from, to \in Statuses : ValidTransition(from, to) =>
        /\ from # "SUBMITTED"
        /\ to = "READY" => from = "REVIEW"
        /\ to = "SUBMITTED" => from \in Underway
        /\ to \in Underway => to = "READY" \/ from \in Underway
BY DEF ValidTransition, validTransitions, Statuses, Underway, Cleared

\* How an operation ends: with an error, before the next lookup, with a record
\* to save that is not READY, or with one that passed the gate.
Ends(h) ==
    \/ Drop(h)
    \/ pc'[h] = "count" /\ UNCHANGED <<target, copy>>
    \/ /\ pc'[h] = "save" /\ target' = target /\ copy'[h] \in Application
       /\ copy'[h].status # "READY"
       /\ \/ ValidTransition(copy[h].status, copy'[h].status)
          \/ /\ copy'[h].status = copy[h].status
             /\ copy[h].status \in {"PREPARING", "REVIEW"}
    \/ /\ pc'[h] = "save" /\ target' = target /\ copy'[h] \in Application
       /\ copy'[h].status = "READY"
       /\ ValidTransition(copy[h].status, "READY")
       /\ DailyApplicationLimit > 0 => Cardinality(submitted) < DailyApplicationLimit

LEMMA OperationEnds ==
    ASSUME IInv, NEW h \in Handlers, Handle(h), ~CheckDuplicate(h),
           ~GetApplication(h), ~SaveApplication(h)
    PROVE  /\ UNCHANGED <<apps, submitted>>
           /\ Ends(h)
           /\ pc[h] \in {"apply", "count"} \/ Drop(h)
<1>0. /\ copy \in [Handlers -> Application \cup {None}]
      /\ pc \in [Handlers -> Labels] /\ pc[h] # "idle"
  BY DEF IInv, TypeOK, Handle, Qualify, StartPreparing, Cancel, AttachResume, Answer,
     ResolveReview, Answerable, VerifyResume, Ready, RecordOutcome, Abort
<1>1. copy[h] \in Application /\ copy[h].status \in Statuses
  BY <1>0 DEF IInv, ShapeOf, Application
<1>2. Drop(h) => Ends(h)
  BY DEF Ends
<1>4. \A r \in Application : \A to \in Statuses \ {"READY"} :
          Transition(h, r, to) /\ r.status = copy[h].status => Ends(h)
  <2> SUFFICES ASSUME NEW r \in Application, NEW to \in Statuses \ {"READY"},
                      Transition(h, r, to), r.status = copy[h].status
               PROVE  Ends(h)
    OBVIOUS
  <2> DEFINE moved == [r EXCEPT !.status = to]
  <2>1. moved \in Application /\ moved.status = to
    BY DEF Application
  <2>2. (ValidTransition(r.status, to) /\ Return(h, moved)) \/ Drop(h)
    BY DEF Transition
  <2> HIDE DEF moved
  <2> QED
    BY <1>0, <1>2, <2>1, <2>2 DEF Return, Goto, Ends
<1>5. CASE Qualify(h) \/ StartPreparing(h) \/ Cancel(h)
  <2>1. {"QUALIFIED", "PREPARING", "CANCELLED"} \subseteq Statuses \ {"READY"}
    BY DEF Statuses
  <2>2. Ends(h)
    BY <1>1, <1>2, <1>4, <1>5, <2>1 DEF Qualify, StartPreparing, Cancel
  <2> QED
    BY <1>5, <2>2 DEF Qualify, StartPreparing, Cancel, stores
<1>6. CASE RecordOutcome(h)
  <2>1. \A status \in DOMAIN Reports : Reports[status] \subseteq Statuses \ {"READY"}
    BY DEF Reports, Statuses
  <2>2. Ends(h)
    BY <1>1, <1>4, <1>6, <2>1 DEF RecordOutcome
  <2> QED
    BY <1>6, <2>2 DEF RecordOutcome, stores
<1>7. CASE AttachResume(h)
  <2>1. Drop(h) \/ \E v \in Versions : Transition(h, [copy[h] EXCEPT !.version = v], "REVIEW")
    BY <1>7 DEF AttachResume
  <2>2. \A v \in Versions : /\ [copy[h] EXCEPT !.version = v] \in Application
                            /\ [copy[h] EXCEPT !.version = v].status = copy[h].status
    BY <1>1 DEF Application
  <2>3. "REVIEW" \in Statuses \ {"READY"}
    BY DEF Statuses
  <2>4. Ends(h)
    BY <1>2, <1>4, <2>1, <2>2, <2>3
  <2> QED
    BY <1>7, <2>4 DEF AttachResume, stores
<1>8. CASE Answer(h) \/ ResolveReview(h)
  <2>1. PICK q \in Questions, s \in AnswerStatuses :
            Return(h, [copy[h] EXCEPT !.answers[q] = s])
    BY <1>8 DEF Answer, ResolveReview, Classify, AnswerStatuses
  <2> DEFINE r == [copy[h] EXCEPT !.answers[q] = s]
  <2>2. r \in Application /\ r.status = copy[h].status
    BY <1>1 DEF Application
  <2>3. Return(h, r)
    BY <2>1
  <2> HIDE DEF r
  <2>4. copy[h].status \in {"PREPARING", "REVIEW"} /\ pc[h] = "apply"
    BY <1>8 DEF Answer, ResolveReview, Answerable
  <2>5. Ends(h)
    BY <1>0, <2>2, <2>3, <2>4 DEF Return, Goto, Ends
  <2> QED
    BY <1>8, <2>4, <2>5 DEF Answer, ResolveReview, stores
<1>9. CASE VerifyResume(h)
  BY <1>0, <1>9 DEF VerifyResume, Ends, Goto, stores
<1>10. CASE Ready(h)
  <2>1. UNCHANGED stores /\ pc[h] = "count"
    BY <1>10 DEF Ready
  <2>2. CASE Drop(h)
    BY <1>2, <2>1, <2>2 DEF stores
  <2>3. CASE ~Drop(h)
    <3>1. PICK jobVerified \in BOOLEAN, platform \in {"unknown", "allowed", "denied"} :
              /\ GateReasons(copy[h], jobVerified, verified[h], platform,
                             Cardinality(submitted)) = {}
              /\ Transition(h, [copy[h] EXCEPT !.gate = TRUE], "READY")
      BY <1>10, <2>3 DEF Ready
    <3>2. DailyApplicationLimit > 0 => ~(Cardinality(submitted) >= DailyApplicationLimit)
      BY <3>1 DEF GateReasons
    <3>3. Cardinality(submitted) \in Nat
      BY ConstantsAssumption, FS_Subset, FS_CardinalityType DEF IInv, TypeOK
    <3> DEFINE r == [copy[h] EXCEPT !.gate = TRUE]
               moved == [r EXCEPT !.status = "READY"]
    <3>4. r.status = copy[h].status /\ moved \in Application /\ moved.status = "READY"
      BY <1>1 DEF Application, Statuses
    <3>5. ValidTransition(r.status, "READY") /\ Return(h, moved)
      BY <2>3, <3>1 DEF Transition
    <3> HIDE DEF r, moved
    <3>6. Ends(h)
      BY <1>0, <3>2, <3>3, <3>4, <3>5, ConstantsAssumption DEF Return, Goto, Ends
    <3> QED
      BY <2>1, <3>6 DEF stores
  <2> QED
    BY <2>2, <2>3
<1>11. CASE Abort(h)
  BY <1>2, <1>11 DEF Abort, stores
<1> QED
  BY <1>5, <1>6, <1>7, <1>8, <1>9, <1>10, <1>11
     DEF Handle, Qualify, StartPreparing, Cancel, RecordOutcome, AttachResume, VerifyResume

\* Whether a is stored with a status behind the gate and before the end.
Under(a) == apps[a] # None /\ apps[a].status \in Underway

\* Whether h holds a record that passed the gate and is not stored.
Passed(h) == pc[h] = "save" /\ copy[h].status = "READY"

LEMMA AdmittedOne ==
    ASSUME OneHandler, IInv, NEW h \in Handlers
    PROVE  /\ Passed(h) => Admitted = {a \in Apps : Under(a)} \cup {target[h]}
           /\ ~Passed(h) => Admitted = {a \in Apps : Under(a)}
<1>1. Passed(h) => target[h] \in Apps
  BY DEF IInv, TypeOK, ShapeOf, Passed
<1> QED
  BY <1>1 DEF Admitted, Under, Passed, OneHandler

\* What a save may do to the record it replaces.
LEMMA SavedStatus ==
    ASSUME IInv, NEW h \in Handlers, UpToDate(h), pc[h] = "save"
    PROVE  /\ target[h] \in Apps /\ copy[h] \in Application /\ copy[h] # None
           /\ apps[target[h]] # None => apps[target[h]].status # "SUBMITTED"
           /\ copy[h].status = "READY" => ~Under(target[h])
           /\ copy[h].status = "SUBMITTED" => Under(target[h])
           /\ copy[h].status \in Underway =>
                 copy[h].status = "READY" \/ Under(target[h])
<1>1. target[h] \in Apps /\ copy[h] \in Application /\ copy[h] # None
  BY ConstantsAssumption DEF IInv, TypeOK, ShapeOf
<1>2. CASE apps[target[h]] = None
  BY <1>1, <1>2 DEF UpToDate, Under, Underway, Cleared
<1>3. CASE apps[target[h]] # None
  <2>1. apps[target[h]].status \in Statuses /\ copy[h].status \in Statuses
    BY <1>1, <1>3 DEF IInv, TypeOK, Application
  <2>2. CASE ValidTransition(apps[target[h]].status, copy[h].status)
    BY <1>1, <1>3, <2>1, <2>2, BudgetTransitions DEF Under, Underway, Cleared
  <2>3. CASE /\ copy[h].status \in {"PREPARING", "REVIEW"}
             /\ copy[h].status = apps[target[h]].status
    BY <1>1, <1>3, <2>3 DEF Under, Underway, Cleared
  <2> QED
    BY <1>3, <2>2, <2>3 DEF UpToDate
<1> QED
  BY <1>2, <1>3

LEMMA BudgetNext ==
    ASSUME OneHandler
    PROVE  IInv /\ BudgetInv /\ [Next]_vars => BudgetInv'
<1> SUFFICES ASSUME IInv, BudgetInv, [Next]_vars PROVE BudgetInv'
  OBVIOUS
<1>0. /\ apps \in [Apps -> Application \cup {None}]
      /\ copy \in [Handlers -> Application \cup {None}]
      /\ target \in [Handlers -> Apps \cup {None}]
      /\ pc \in [Handlers -> Labels]
      /\ submitted \subseteq Apps
  BY DEF IInv, TypeOK
<1>1. CASE UNCHANGED <<apps, copy, target, pc>> /\ submitted' \subseteq submitted
  BY <1>1 DEF BudgetInv, Counted, UpToDate
<1>2. ASSUME NEW h \in Handlers, Handle(h) PROVE BudgetInv'
  <2>0. SUFFICES Counted' /\ UpToDate(h)'
    BY DEF BudgetInv, OneHandler
  <2>00. UpToDate(h) /\ Counted
    BY DEF BudgetInv
  <2>1. CASE CheckDuplicate(h)
    <3>1. PICK a \in Apps, j \in Jobs, found \in Apps \cup {None} :
              /\ apps[a] = None
              /\ copy' = [copy EXCEPT ![h] =
                     [job |-> j, status |-> "DISCOVERED", version |-> None,
                      answers |-> [q \in Questions |-> "none"],
                      duplicateOf |-> found, gate |-> FALSE]]
              /\ target' = [target EXCEPT ![h] = a]
      BY <2>1 DEF CheckDuplicate
    <3>2. copy'[h].status = "DISCOVERED" /\ target'[h] = a /\ pc'[h] = "save"
      BY <1>0, <2>1, <3>1 DEF CheckDuplicate, Goto
    <3>3. UNCHANGED <<apps, submitted>>
      BY <2>1 DEF CheckDuplicate, stores
    <3> QED
      BY <2>00, <3>1, <3>2, <3>3 DEF Counted, UpToDate
  <2>2. CASE GetApplication(h)
    <3>1. copy'[h] = apps[target'[h]] /\ pc'[h] = "apply"
      BY <1>0, <2>2 DEF GetApplication, Goto
    <3>2. UNCHANGED <<apps, submitted>>
      BY <2>2 DEF GetApplication, stores
    <3> QED
      BY <2>00, <3>1, <3>2 DEF Counted, UpToDate
  <2>3. CASE SaveApplication(h)
    <3>1. pc'[h] = "idle"
      BY <1>0, <2>3 DEF SaveApplication, Drop, Goto
    <3>2. pc[h] = "save"
      BY <2>3 DEF SaveApplication
    <3>3. CASE UNCHANGED <<apps, submitted>>
      BY <2>00, <3>1, <3>3 DEF Counted, UpToDate
    <3>4. CASE /\ apps' = [apps EXCEPT ![target[h]] = copy[h]]
               /\ submitted' = IF copy[h].status = "SUBMITTED"
                               THEN submitted \cup {target[h]} ELSE submitted \ {target[h]}
      <4>1. Counted'
        BY <1>0, <2>00, <3>2, <3>4, SavedStatus DEF Counted
      <4> QED
        BY <3>1, <4>1 DEF UpToDate
    <3> QED
      BY <2>3, <3>3, <3>4 DEF SaveApplication
  <2>4. CASE ~CheckDuplicate(h) /\ ~GetApplication(h) /\ ~SaveApplication(h)
    <3>1. /\ UNCHANGED <<apps, submitted>> /\ Ends(h)
          /\ pc[h] \in {"apply", "count"} \/ Drop(h)
      BY <1>2, <2>4, OperationEnds
    <3>2. CASE Drop(h)
      <4>1. pc'[h] = "idle"
        BY <1>0, <3>2 DEF Drop, Goto
      <4> QED
        BY <2>00, <3>1, <4>1 DEF Counted, UpToDate
    <3>3. CASE ~Drop(h)
      <4>1. copy[h] = apps[target[h]] /\ copy[h] # None
        BY <2>00, <3>1, <3>3 DEF UpToDate, IInv, ShapeOf
      <4> QED
        BY <2>00, <3>1, <3>3, <4>1 DEF Counted, UpToDate, Ends
    <3> QED
      BY <3>2, <3>3
  <2> QED
    BY <2>1, <2>2, <2>3, <2>4
<1>3. ASSUME NEW v \in Versions, Generate(v) \/ Approve(v) \/ Reject(v)
      PROVE  UNCHANGED <<apps, copy, target, pc, submitted>>
  BY <1>3 DEF Generate, Approve, Reject, DecideVersion
<1>4. CASE Midnight \/ UNCHANGED vars
  BY <1>1, <1>4 DEF Midnight, vars
<1> QED
  BY <1>1, <1>2, <1>3, <1>4 DEF Next

LEMMA BudgetStep ==
    ASSUME OneHandler, DailyApplicationLimit > 0
    PROVE  IInv /\ IInv' /\ BudgetInv /\ [Next]_vars =>
               [Budget!Next]_<<Cardinality(submitted), Admitted>>
<1> SUFFICES ASSUME IInv, IInv', BudgetInv, [Next]_vars
             PROVE  [Budget!Next]_<<Cardinality(submitted), Admitted>>
  OBVIOUS
<1>0. /\ apps \in [Apps -> Application \cup {None}]
      /\ copy \in [Handlers -> Application \cup {None}]
      /\ target \in [Handlers -> Apps \cup {None}]
      /\ pc \in [Handlers -> Labels]
      /\ submitted \subseteq Apps
  BY DEF IInv, TypeOK
<1>1. CASE UNCHANGED <<apps, copy, target, pc, submitted>>
  BY <1>1 DEF Admitted
<1>2. ASSUME NEW h \in Handlers, Handle(h)
      PROVE  [Budget!Next]_<<Cardinality(submitted), Admitted>>
  <2>0. UpToDate(h) /\ Counted
    BY DEF BudgetInv
  <2>a. /\ Passed(h) => Admitted = {a \in Apps : Under(a)} \cup {target[h]}
        /\ ~Passed(h) => Admitted = {a \in Apps : Under(a)}
    BY AdmittedOne
  <2>b. /\ Passed(h)' => Admitted' = {a \in Apps : Under(a)'} \cup {target'[h]}
        /\ ~Passed(h)' => Admitted' = {a \in Apps : Under(a)'}
    <3>1. Passed(h)' => target'[h] \in Apps
      BY DEF IInv, TypeOK, ShapeOf, Passed
    <3> QED
      BY <3>1 DEF Admitted, Under, Passed, OneHandler
  <2>c. ASSUME NEW a \in Apps, a \in Admitted, Admitted' = Admitted \ {a},
               submitted' = submitted
        PROVE  Budget!Next
    BY <2>c DEF Budget!Next, Budget!Abandon
  <2>1. CASE CheckDuplicate(h) \/ GetApplication(h)
    <3>1. ~Passed(h)
      BY <2>1 DEF CheckDuplicate, GetApplication, Passed
    <3>2. ~Passed(h)'
      BY <1>0, <2>1 DEF CheckDuplicate, GetApplication, Passed, Goto
    <3>3. UNCHANGED <<apps, submitted>>
      BY <2>1 DEF CheckDuplicate, GetApplication, stores
    <3>4. UNCHANGED <<Cardinality(submitted), Admitted>>
      BY <2>a, <2>b, <3>1, <3>2, <3>3 DEF Under
    <3> QED
      BY <3>4
  <2>2. CASE SaveApplication(h)
    <3>1. pc'[h] = "idle" /\ pc[h] = "save"
      BY <1>0, <2>2 DEF SaveApplication, Drop, Goto
    <3>2. Admitted' = {a \in Apps : Under(a)'}
      BY <2>b, <3>1 DEF Passed
    <3>3. CASE UNCHANGED <<apps, submitted>>
      <4>1. CASE Passed(h)
        <5>1. Admitted' = Admitted \ {target[h]} /\ target[h] \in Admitted /\ target[h] \in Apps
          BY <2>0, <2>a, <3>1, <3>2, <3>3, <4>1, SavedStatus DEF Under, Passed
        <5> QED
          BY <2>c, <3>3, <5>1
      <4>2. CASE ~Passed(h)
        <5>1. Admitted' = Admitted
          BY <2>a, <3>2, <3>3, <4>2 DEF Under
        <5> QED
          BY <3>3, <5>1
      <4> QED
        BY <4>1, <4>2
    <3>4. CASE /\ apps' = [apps EXCEPT ![target[h]] = copy[h]]
               /\ submitted' = IF copy[h].status = "SUBMITTED"
                               THEN submitted \cup {target[h]} ELSE submitted \ {target[h]}
      <4>0. /\ target[h] \in Apps /\ copy[h] \in Application /\ copy[h] # None
            /\ apps[target[h]] # None => apps[target[h]].status # "SUBMITTED"
            /\ copy[h].status = "READY" => ~Under(target[h])
            /\ copy[h].status = "SUBMITTED" => Under(target[h])
            /\ copy[h].status \in Underway => copy[h].status = "READY" \/ Under(target[h])
        BY <2>0, <3>1, SavedStatus
      <4>1. target[h] \notin submitted
        BY <2>0, <4>0 DEF Counted
      <4>2. \A a \in Apps : Under(a)' <=>
                IF a = target[h] THEN copy[h].status \in Underway ELSE Under(a)
        BY <1>0, <3>4, <4>0 DEF Under
      <4>3. CASE copy[h].status = "SUBMITTED"
        <5>1. ~Passed(h) /\ Under(target[h]) /\ copy[h].status \notin Underway
          BY <4>0, <4>3 DEF Passed, Underway
        <5>2. target[h] \in Admitted /\ Admitted' = Admitted \ {target[h]}
          BY <2>a, <3>2, <4>0, <4>2, <5>1
        <5>3. IsFiniteSet(submitted)
          BY <1>0, ConstantsAssumption, FS_Subset
        <5>4. Cardinality(submitted') = Cardinality(submitted) + 1
          BY <3>4, <4>1, <4>3, <5>3, FS_AddElement
        <5> QED
          BY <4>0, <5>2, <5>4 DEF Budget!Next, Budget!Commit
      <4>4. CASE copy[h].status = "READY"
        <5>1. Passed(h) /\ copy[h].status \in Underway
          BY <3>1, <4>4 DEF Passed, Underway, Cleared
        <5>2. Admitted' = Admitted /\ submitted' = submitted
          BY <2>a, <3>2, <3>4, <4>0, <4>1, <4>2, <4>4, <5>1
        <5> QED
          BY <5>2
      <4>5. CASE copy[h].status \notin {"READY", "SUBMITTED"}
        <5>1. ~Passed(h) /\ submitted' = submitted
          BY <3>4, <4>1, <4>5 DEF Passed
        <5>2. CASE copy[h].status \in Underway
          <6>1. Admitted' = Admitted
            BY <2>a, <3>2, <4>0, <4>2, <4>5, <5>1, <5>2
          <6> QED
            BY <5>1, <6>1
        <5>3. CASE copy[h].status \notin Underway
          <6>1. Admitted' = Admitted \ {target[h]}
            BY <2>a, <3>2, <4>0, <4>2, <5>1, <5>3
          <6> QED
            BY <2>c, <4>0, <5>1, <6>1
        <5> QED
          BY <5>2, <5>3
      <4> QED
        BY <4>3, <4>4, <4>5
    <3> QED
      BY <2>2, <3>3, <3>4 DEF SaveApplication
  <2>3. CASE ~CheckDuplicate(h) /\ ~GetApplication(h) /\ ~SaveApplication(h)
    <3>1. /\ UNCHANGED <<apps, submitted>> /\ Ends(h)
          /\ pc[h] \in {"apply", "count"} \/ Drop(h)
      BY <1>2, <2>3, OperationEnds
    <3>2. \A a \in Apps : Under(a)' <=> Under(a)
      BY <3>1 DEF Under
    <3>3. CASE Drop(h)
      <4>1. ~Passed(h)'
        BY <1>0, <3>3 DEF Drop, Goto, Passed
      <4>2. CASE Passed(h)
        <5>1. Admitted' = Admitted \ {target[h]} /\ target[h] \in Admitted /\ target[h] \in Apps
          BY <2>0, <2>a, <2>b, <3>2, <4>1, <4>2, SavedStatus DEF Passed
        <5> QED
          BY <2>c, <3>1, <5>1
      <4>3. CASE ~Passed(h)
        <5>1. Admitted' = Admitted
          BY <2>a, <2>b, <3>2, <4>1, <4>3
        <5> QED
          BY <3>1, <5>1
      <4> QED
        BY <4>2, <4>3
    <3>4. CASE ~Drop(h)
      <4>1. ~Passed(h) /\ copy[h] = apps[target[h]] /\ copy[h] # None /\ target[h] \in Apps
        BY <1>0, <2>0, <3>1, <3>4 DEF UpToDate, IInv, ShapeOf, Passed
      <4>2. CASE Passed(h)'
        <5>1. /\ target'[h] = target[h]
              /\ ValidTransition(copy[h].status, "READY")
              /\ Cardinality(submitted) < DailyApplicationLimit
          BY <3>1, <3>4, <4>2 DEF Ends, Passed
        <5>2. copy[h].status = "REVIEW"
          BY <1>0, <4>1, <5>1, BudgetTransitions DEF Application, Statuses
        <5>3. ~Under(target[h])
          BY <4>1, <5>2 DEF Under, Underway, Cleared
        <5>4. target[h] \notin Admitted /\ Admitted' = Admitted \cup {target[h]}
          BY <2>a, <2>b, <3>2, <4>1, <4>2, <5>1, <5>3
        <5> QED
          BY <3>1, <4>1, <5>1, <5>4 DEF Budget!Next, Budget!Admit
      <4>3. CASE ~Passed(h)'
        <5>1. Admitted' = Admitted
          BY <2>a, <2>b, <3>2, <4>1, <4>3
        <5> QED
          BY <3>1, <5>1
      <4> QED
        BY <4>2, <4>3
    <3> QED
      BY <3>3, <3>4
  <2> QED
    BY <2>1, <2>2, <2>3
<1>3. ASSUME NEW v \in Versions, Generate(v) \/ Approve(v) \/ Reject(v)
      PROVE  UNCHANGED <<apps, copy, target, pc, submitted>>
  BY <1>3 DEF Generate, Approve, Reject, DecideVersion
<1>4. CASE Midnight
  <2>1. Cardinality(submitted') = 0 /\ Admitted' = Admitted
    BY <1>4, FS_EmptySet DEF Midnight, Admitted
  <2> QED
    BY <2>1 DEF Budget!Next, Budget!Midnight
<1>5. CASE UNCHANGED vars
  BY <1>1, <1>5 DEF vars
<1> QED
  BY <1>1, <1>2, <1>3, <1>4, <1>5 DEF Next

\* Handlers that take turns implement the daily budget with the gate's limit:
\* what passes was below it, and counts once (safety_gate.go:66, CountSubmittedSince).
THEOREM ImplementsBudget ==
    OneHandler /\ DailyApplicationLimit > 0 => (Spec => BudgetSpec)
<1> SUFFICES ASSUME OneHandler, DailyApplicationLimit > 0 PROVE Spec => BudgetSpec
  OBVIOUS
<1>1. Init => BudgetInv /\ Budget!Init
  BY FS_EmptySet DEF Init, BudgetInv, Counted, UpToDate, Budget!Init, Admitted
<1> QED
  BY <1>1, InvInit, InvNext, BudgetNext, BudgetStep, PTL DEF Spec, BudgetSpec, Budget!Spec
=============================================================================
