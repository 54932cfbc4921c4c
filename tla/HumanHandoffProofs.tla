-------------------------- MODULE HumanHandoffProofs --------------------------
(* The runner with the notification service implements the runner; what is   *)
(* proved of the runner holds of the two, and what the service adds is proved. *)
EXTENDS HumanHandoff, TLAPS

\* The runner with what is proved about it.
Proved == INSTANCE SingleCallerProofs WITH pc <- runnerPc

PcOK == pc \in [Workers -> Labels \cup {"send"}]

\* Definitions without the runner's program counter mean the same.
LEMMA SameDefinitions ==
    /\ Runner!SaveNext = SaveNext
    /\ Runner!Returned = Returned
    /\ Runner!Observable = Observable
    /\ \A s : Runner!IsExpired(s) <=> IsExpired(s)
    /\ \A t : Runner!Live(t) <=> Live(t)
    /\ \A i : Runner!FreshId(i) <=> FreshId(i)
    /\ \A since : Runner!StartedSince(since) = StartedSince(since)
    /\ \A S : Runner!Cardinality(S) = Cardinality(S)
<1>1. Runner!SaveNext = SaveNext /\ Runner!Returned = Returned
  BY DEF Runner!SaveNext, SaveNext, Runner!Returned, Returned
<1>2. Runner!PageStates = PageStates
  BY DEF Runner!PageStates, PageStates
<1>3. Runner!Observable = Observable
  BY <1>2 DEF Runner!Observable, Observable
<1>4. \A s : Runner!IsExpired(s) <=> IsExpired(s)
  BY DEF Runner!IsExpired, IsExpired
<1>5. \A t : Runner!Live(t) <=> Live(t)
  BY DEF Runner!Live, Live
<1>6. \A i : Runner!FreshId(i) <=> FreshId(i)
  BY DEF Runner!FreshId, FreshId
<1>7. \A since : Runner!StartedSince(since) = StartedSince(since)
  BY DEF Runner!StartedSince, StartedSince
<1>8. \A S : Runner!Cardinality(S) = Cardinality(S)
  BY DEF Runner!Cardinality, Cardinality
<1> QED
  BY <1>1, <1>3, <1>4, <1>5, <1>6, <1>7, <1>8

\* Where the runner stands, and where it goes.
LEMMA Position ==
    ASSUME PcOK, NEW w \in Workers
    PROVE  /\ pc[w] # "send" => runnerPc[w] = pc[w]
           /\ pc[w] = "send" => runnerPc[w] = "notify"
           /\ \A label \in Labels : Goto(w, label) => Runner!Goto(w, label)
<1>1. "send" \notin Labels
  BY DEF Labels, Returned, SaveNext
<1> SUFFICES ASSUME NEW label \in Labels, Goto(w, label)
             PROVE  Runner!Goto(w, label)
  BY DEF runnerPc
<1>2. runnerPc' = [runnerPc EXCEPT ![w] = label]
  BY <1>1 DEF PcOK, Goto, runnerPc
<1> QED
  BY <1>2 DEF Runner!Goto

LEMMA LabelsHold ==
    /\ Returned \subseteq Labels
    /\ DOMAIN SaveNext \subseteq Labels
    /\ \A label \in DOMAIN SaveNext : SaveNext[label] \in Labels
    /\ {"launch", "navigate", "fill", "detect", "checkpoint", "token",
        "notify", "revoke", "load", "resumeDetect", "click"} \subseteq Labels
  BY DEF Labels, Returned, SaveNext

LEMMA RunnerMoves ==
    ASSUME PcOK, NEW w \in Workers
    PROVE  /\ \A s : \A label \in Labels :
                 Becomes(w, s, label) => Runner!Becomes(w, s, label)
           /\ Fail(w) => Runner!Fail(w)
           /\ Expire(w) => Runner!Expire(w)
           /\ Pause(w) => Runner!Pause(w)
           /\ Error(w) => Runner!Error(w)
           /\ \A state : \A next \in Labels :
                 HandleState(w, state, next) => Runner!HandleState(w, state, next)
<1>1. \A label \in Labels : Goto(w, label) => Runner!Goto(w, label)
  BY Position
<1>2. {"saveFailed", "saveExpired", "savePaused", "error"} \subseteq Labels
  BY DEF Labels, SaveNext, Returned
<1>3. \A s : \A label \in Labels : Becomes(w, s, label) => Runner!Becomes(w, s, label)
  BY <1>1 DEF Becomes, Runner!Becomes
<1>4. /\ Fail(w) => Runner!Fail(w)
      /\ Expire(w) => Runner!Expire(w)
      /\ Pause(w) => Runner!Pause(w)
  BY <1>2, <1>3 DEF Fail, Runner!Fail, Expire, Runner!Expire, Pause, Runner!Pause
<1>5. Error(w) => Runner!Error(w)
  BY <1>1, <1>2 DEF Error, Runner!Error
<1>6. \A state : \A next \in Labels :
          HandleState(w, state, next) => Runner!HandleState(w, state, next)
  BY <1>1, <1>4 DEF HandleState, Runner!HandleState
<1> QED
  BY <1>3, <1>4, <1>5, <1>6

-----------------------------------------------------------------------------
(* The runner's own steps *)

LEMMA ProceedMaps ==
    ASSUME PcOK, NEW w \in Workers, pc[w] # "notify", Proceed(w)
    PROVE  Runner!Proceed(w)
<1> USE Position, RunnerMoves, SameDefinitions, LabelsHold
<1>1. ASSUME Launch(w) PROVE Runner!Launch(w)
  BY <1>1 DEF Launch, Runner!Launch, Runner!stores, stores, SaveNext
<1>2. ASSUME SaveSession(w) PROVE Runner!SaveSession(w)
  <2>1. pc[w] \in DOMAIN SaveNext /\ pc[w] # "send" /\ runnerPc[w] = pc[w]
    BY <1>2 DEF SaveSession, SaveNext
  <2> QED
    BY <1>2, <2>1 DEF SaveSession, Runner!SaveSession
<1>3. ASSUME Navigate(w) PROVE Runner!Navigate(w)
  BY <1>3 DEF Navigate, Runner!Navigate, Runner!stores, stores
<1>4. ASSUME Fill(w) PROVE Runner!Fill(w)
  BY <1>4 DEF Fill, Runner!Fill, Runner!stores, stores
<1>5. ASSUME DetectState(w) PROVE Runner!DetectState(w)
  BY <1>5 DEF DetectState, Runner!DetectState, Runner!stores, stores
<1>6. ASSUME SaveCheckpoint(w) PROVE Runner!SaveCheckpoint(w)
  BY <1>6 DEF SaveCheckpoint, Runner!SaveCheckpoint, SaveNext
<1>7. ASSUME SaveTokenHash(w) PROVE Runner!SaveTokenHash(w)
  BY <1>7 DEF SaveTokenHash, Runner!SaveTokenHash
<1>8. ASSUME Notify(w) PROVE FALSE
  BY <1>8 DEF Notify
<1>9. ASSUME ResumeRevoke(w) PROVE Runner!ResumeRevoke(w)
  BY <1>9 DEF ResumeRevoke, Runner!ResumeRevoke
<1>10. ASSUME ResumeLoad(w) PROVE Runner!ResumeLoad(w)
  BY <1>10 DEF ResumeLoad, Runner!ResumeLoad, Runner!stores, stores, SaveNext
<1>11. ASSUME ResumeDetect(w) PROVE Runner!ResumeDetect(w)
  BY <1>11 DEF ResumeDetect, Runner!ResumeDetect, Runner!stores, stores, SaveNext
<1>12. ASSUME Click(w) PROVE Runner!Click(w)
  BY <1>12 DEF Click, Runner!Click, Runner!stores, stores, SaveNext
<1> QED
  BY <1>1, <1>2, <1>3, <1>4, <1>5, <1>6, <1>7, <1>8, <1>9, <1>10, <1>11, <1>12
     DEF Proceed, Runner!Proceed

LEMMA InvokeMaps ==
    ASSUME PcOK, NEW w \in Workers, Invoke(w)
    PROVE  Runner!Invoke(w)
<1> USE Position, RunnerMoves, SameDefinitions, LabelsHold
<1>0. pc[w] \in Returned => pc[w] # "send"
  BY DEF Returned
<1>1. ASSUME StartCheck(w) PROVE Runner!StartCheck(w)
  <2>1. runnerPc[w] \in Returned
    BY <1>0, <1>1 DEF StartCheck
  <2>2. CASE Error(w)
    BY <1>1, <2>1, <2>2 DEF StartCheck, Runner!StartCheck, Runner!stores, stores
  <2>3. CASE ~Error(w)
    <3> DEFINE New(i) == [id |-> i, state |-> "STARTING", startedAt |-> now,
                          expiresAt |-> now + MaxSessionMinutes,
                          checkpointed |-> FALSE]
    <3>1. Goto(w, "launch") /\ Runner!Goto(w, "launch")
      BY <1>1, <2>3 DEF StartCheck
    <3>2. PICK i \in Ids : FreshId(i) /\ sess' = [sess EXCEPT ![w] = New(i)]
      BY <1>1, <2>3 DEF StartCheck
    <3>3. /\ Cardinality(StartedSince(StartOfDay[now])) < BrowserSessionsPerDay
          /\ UNCHANGED <<tok, now, stores, page, clicked>>
      BY <1>1, <2>3 DEF StartCheck
    <3> HIDE DEF New
    <3>4. \E j \in {k \in Ids : Runner!FreshId(k)} : sess' = [sess EXCEPT ![w] = New(j)]
      BY <3>2
    <3> QED
      BY <2>1, <3>1, <3>3, <3>4 DEF New, Runner!StartCheck, Runner!stores, stores
  <2> QED
    BY <2>2, <2>3
<1>2. ASSUME SubmitGate(w) PROVE Runner!SubmitGate(w)
  BY <1>2 DEF SubmitGate, Runner!SubmitGate, Runner!stores, stores, SaveNext
<1>3. ASSUME NEW t \in links, ResumeLookup(w, t) PROVE Runner!ResumeLookup(w, t)
  BY <1>0, <1>3 DEF ResumeLookup, Runner!ResumeLookup, Runner!stores, stores
<1> QED
  BY <1>1, <1>2, <1>3 DEF Invoke, Runner!Invoke

LEMMA TickAndCrashMap ==
    ASSUME PcOK, Tick \/ Crash PROVE Runner!Tick \/ Runner!Crash
<1>1. ASSUME Tick PROVE Runner!Tick
  BY <1>1 DEF Tick, Runner!Tick, stores, Runner!stores, locals, Runner!locals, runnerPc
<1>2. ASSUME Crash PROVE Runner!Crash
  <2>1. runnerPc' = [w \in Workers |-> "idle"]
    BY <1>2 DEF Crash, runnerPc
  <2> QED
    BY <1>2, <2>1 DEF Crash, Runner!Crash, stores, Runner!stores
<1> QED
  BY <1>1, <1>2

-----------------------------------------------------------------------------
(* The service's steps *)

\* A saved notification is not yet a step of the runner; one that is not saved,
\* or is sent, is its Notify.
LEMMA ServiceMaps ==
    ASSUME PcOK, NEW w \in Workers, SaveNotification(w) \/ Send(w)
    PROVE  Runner!Notify(w) \/ UNCHANGED Runner!vars
<1>1. "human_required" \in Labels /\ "send" \in Labels \cup {"send"}
  BY DEF Labels, Returned
<1>2. ASSUME NEW failed, Return(w, failed), pc[w] \in {"notify", "send"},
             links' \in {links, links \cup {tok[w]}},
             UNCHANGED <<now, sessions, checkpoints, tokens, redeemed, page, sess, clicked>>
      PROVE  Runner!Notify(w)
  BY <1>1, <1>2, Position DEF Return, Runner!Notify
<1>3. ASSUME SaveNotification(w), pc' = [pc EXCEPT ![w] = "send"], UNCHANGED tok
      PROVE  UNCHANGED Runner!vars
  <2>1. pc[w] = "notify"
    BY <1>3 DEF SaveNotification
  <2>2. runnerPc' = runnerPc
    BY <1>3, <2>1 DEF PcOK, runnerPc
  <2> QED
    BY <1>3, <2>2 DEF SaveNotification, Runner!vars, stores
<1>4. ASSUME Send(w) PROVE Runner!Notify(w)
  BY <1>2, <1>4 DEF Send
<1> QED
  BY <1>2, <1>3, <1>4 DEF SaveNotification, stores, Goto

-----------------------------------------------------------------------------
LEMMA PcInit == InitHandoff => PcOK
  BY DEF InitHandoff, Init, PcOK, Labels, Returned

\* The runner's own steps lead a call anywhere but to the service's step and to
\* a handoff, and to the notifier only with a new token.
LEMMA Goes ==
    ASSUME NEW w \in Workers, (pc[w] # "notify" /\ Proceed(w)) \/ Invoke(w)
    PROVE  \/ \E label \in Labels \ {"human_required", "notify"} :
                 pc' = [pc EXCEPT ![w] = label]
           \/ /\ SaveTokenHash(w) /\ ~Error(w)
              /\ pc' = [pc EXCEPT ![w] = "notify"]
<1> DEFINE Places == Labels \ {"human_required", "notify"}
           Went == \E label \in Places : pc' = [pc EXCEPT ![w] = label]
<1>1. /\ {"saveFailed", "saveExpired", "savePaused", "error", "saveRunning",
          "saveLaunchFailed", "saveCheckpointed", "saveResumed",
          "saveSubmitting", "saveCompleted"} \subseteq Places
      /\ \A label \in DOMAIN SaveNext : SaveNext[label] \in Places
      /\ {"launch", "navigate", "fill", "detect", "checkpoint", "token",
          "revoke", "load", "resumeDetect", "click"} \subseteq Places
  BY DEF Labels, Returned, SaveNext
<1>2. \A label \in Places : Goto(w, label) => Went
  BY DEF Goto
<1> HIDE DEF Places, Went
<1>3. /\ \A s : \A label \in Places : Becomes(w, s, label) => Went
      /\ Fail(w) \/ Expire(w) \/ Pause(w) \/ Error(w) => Went
      /\ \A state : \A next \in Places : HandleState(w, state, next) => Went
  BY <1>1, <1>2 DEF Becomes, Fail, Expire, Pause, Error, HandleState
<1> USE <1>1, <1>2, <1>3
<1>4. Launch(w) => Went
  BY DEF Launch
<1>5. SaveSession(w) => Went
  BY DEF SaveSession
<1>6. Navigate(w) => Went
  BY DEF Navigate
<1>7. Fill(w) => Went
  BY DEF Fill
<1>8. DetectState(w) => Went
  BY DEF DetectState
<1>9. SaveCheckpoint(w) => Went
  BY DEF SaveCheckpoint
<1>10. SaveTokenHash(w) => Error(w) \/ pc' = [pc EXCEPT ![w] = "notify"]
  BY DEF SaveTokenHash, Goto
<1>11. ResumeRevoke(w) => Went
  BY DEF ResumeRevoke
<1>12. ResumeLoad(w) => Went
  BY DEF ResumeLoad
<1>13. ResumeDetect(w) => Went
  BY DEF ResumeDetect
<1>14. Click(w) => Went
  BY DEF Click
<1>15. Invoke(w) => Went
  BY DEF Invoke, StartCheck, SubmitGate, ResumeLookup
<1>16. Went \/ (SaveTokenHash(w) /\ ~Error(w) /\ pc' = [pc EXCEPT ![w] = "notify"])
  BY <1>4, <1>5, <1>6, <1>7, <1>8, <1>9, <1>10, <1>11, <1>12, <1>13, <1>14, <1>15
     DEF Proceed, Notify
<1> QED
  BY <1>16 DEF Went, Places

\* The service adds one place to the runner's.
LEMMA PcStep == PcOK /\ [NextHandoff]_handoffVars => PcOK'
<1> SUFFICES ASSUME PcOK, [NextHandoff]_handoffVars PROVE PcOK'
  OBVIOUS
<1>1. {"notify", "human_required"} \subseteq Labels
  BY DEF Labels, Returned
<1>2. ASSUME NEW w \in Workers, (pc[w] # "notify" /\ Proceed(w)) \/ Invoke(w) PROVE PcOK'
  BY <1>1, <1>2, Goes DEF PcOK
<1>3. ASSUME NEW w \in Workers, SaveNotification(w) \/ Send(w) PROVE PcOK'
  BY <1>1, <1>3 DEF SaveNotification, Send, Return, Goto, PcOK
<1>4. ASSUME Tick \/ Crash \/ UNCHANGED handoffVars PROVE PcOK'
  BY <1>4 DEF Tick, Crash, locals, handoffVars, vars, PcOK, Labels, Returned
<1> QED
  BY <1>2, <1>3, <1>4 DEF NextHandoff, CrashHandoff, ProceedHandoff, InvokeHandoff

\* With the notification service as its notifier the runner does what it does
\* with any: a step of the service is a call of the notifier or none
\* (pauseForHuman, runner.go:232-240; notify, notification.go:97-110).
THEOREM HandoffImplementsRunner == HandoffSpec => RunnerSpec
<1>1. InitHandoff => Runner!Init
  <2>1. InitHandoff => runnerPc = [w \in Workers |-> "idle"]
    BY DEF InitHandoff, Init, runnerPc
  <2> QED
    BY <2>1 DEF InitHandoff, Init, Runner!Init
<1>2. ASSUME PcOK, [NextHandoff]_handoffVars
      PROVE  [Runner!Next]_(Runner!vars)
  <2>1. CASE UNCHANGED handoffVars
    <3>1. UNCHANGED vars /\ runnerPc' = runnerPc
      BY <2>1 DEF handoffVars, vars, runnerPc
    <3> QED
      BY <3>1 DEF vars, Runner!vars
  <2>2. CASE Tick \/ Crash
    BY <1>2, <2>2, TickAndCrashMap DEF Runner!Next
  <2>3. ASSUME NEW w \in Workers, ProceedHandoff(w)
        PROVE  [Runner!Next]_(Runner!vars)
    BY <1>2, <2>3, ServiceMaps, ProceedMaps
       DEF ProceedHandoff, Runner!Next, Runner!Proceed
  <2>4. ASSUME NEW w \in Workers, InvokeHandoff(w)
        PROVE  [Runner!Next]_(Runner!vars)
    BY <1>2, <2>4, InvokeMaps DEF InvokeHandoff, Runner!Next
  <2> QED
    BY <1>2, <2>1, <2>2, <2>3, <2>4 DEF NextHandoff, CrashHandoff
<1> QED
  BY <1>1, <1>2, PcInit, PcStep, PTL DEF HandoffSpec, RunnerSpec, Runner!Spec

-----------------------------------------------------------------------------
(* What is known of the runner holds of the two together *)

\* The runner that the proofs are about is the runner of RunnerSpec.
LEMMA SameRunner == Runner!Spec => Proved!Spec
<1>1. Runner!SaveNext = Proved!SaveNext
  BY DEF Runner!SaveNext, Proved!SaveNext
<1>2. Runner!Returned = Proved!Returned
  BY DEF Runner!Returned, Proved!Returned
<1>3. Runner!PageStates = Proved!PageStates
  BY DEF Runner!PageStates, Proved!PageStates
<1>4. Runner!stores = Proved!stores
  BY DEF Runner!stores, Proved!stores
<1>5. Runner!locals = Proved!locals
  BY DEF Runner!locals, Proved!locals
<1>6. Runner!vars = Proved!vars
  BY DEF Runner!vars, Proved!vars
<1>7. \A S : Runner!Cardinality(S) = Proved!Cardinality(S)
  BY DEF Runner!Cardinality, Proved!Cardinality
<1>8. Runner!Init <=> Proved!Init
  BY DEF Runner!Init, Proved!Init
<1>9. \A w, label : Runner!Goto(w, label) <=> Proved!Goto(w, label)
  BY DEF Runner!Goto, Proved!Goto
<1>10. \A w, s, label : Runner!Becomes(w, s, label) <=> Proved!Becomes(w, s, label)
  BY <1>9 DEF Runner!Becomes, Proved!Becomes
<1>11. \A w : Runner!Error(w) <=> Proved!Error(w)
  BY <1>9 DEF Runner!Error, Proved!Error
<1>12. \A w : Runner!Fail(w) <=> Proved!Fail(w)
  BY <1>10 DEF Runner!Fail, Proved!Fail
<1>13. \A w : Runner!Expire(w) <=> Proved!Expire(w)
  BY <1>10 DEF Runner!Expire, Proved!Expire
<1>14. \A w : Runner!Pause(w) <=> Proved!Pause(w)
  BY <1>10 DEF Runner!Pause, Proved!Pause
<1>15. \A s : Runner!IsExpired(s) <=> Proved!IsExpired(s)
  BY DEF Runner!IsExpired, Proved!IsExpired
<1>16. \A t : Runner!Live(t) <=> Proved!Live(t)
  BY DEF Runner!Live, Proved!Live
<1>17. \A i : Runner!FreshId(i) <=> Proved!FreshId(i)
  BY DEF Runner!FreshId, Proved!FreshId
<1>18. Runner!Observable = Proved!Observable
  BY <1>3 DEF Runner!Observable, Proved!Observable
<1>19. \A d : Runner!StartedSince(d) = Proved!StartedSince(d)
  BY DEF Runner!StartedSince, Proved!StartedSince
<1>20. \A w, s, n : Runner!HandleState(w, s, n) <=> Proved!HandleState(w, s, n)
  BY <1>12, <1>14, <1>9 DEF Runner!HandleState, Proved!HandleState
<1>21. \A w : Runner!Launch(w) <=> Proved!Launch(w)
  BY <1>10 DEF Runner!Launch, Proved!Launch, Runner!stores, Proved!stores
<1>22. \A w : Runner!SaveSession(w) <=> Proved!SaveSession(w)
  BY <1>1, <1>9, <1>11 DEF Runner!SaveSession, Proved!SaveSession
<1>23. \A w : Runner!Navigate(w) <=> Proved!Navigate(w)
  BY <1>15, <1>13, <1>12, <1>20, <1>18
     DEF Runner!Navigate, Proved!Navigate, Runner!stores, Proved!stores
<1>24. \A w : Runner!Fill(w) <=> Proved!Fill(w)
  BY <1>12, <1>9 DEF Runner!Fill, Proved!Fill, Runner!stores, Proved!stores
<1>25. \A w : Runner!DetectState(w) <=> Proved!DetectState(w)
  BY <1>12, <1>20, <1>18
     DEF Runner!DetectState, Proved!DetectState, Runner!stores, Proved!stores
<1>26. \A w : Runner!SaveCheckpoint(w) <=> Proved!SaveCheckpoint(w)
  BY <1>9, <1>11 DEF Runner!SaveCheckpoint, Proved!SaveCheckpoint
<1>27. \A w : Runner!SaveTokenHash(w) <=> Proved!SaveTokenHash(w)
  BY <1>11, <1>9 DEF Runner!SaveTokenHash, Proved!SaveTokenHash
<1>28. \A w : Runner!Notify(w) <=> Proved!Notify(w)
  BY <1>9 DEF Runner!Notify, Proved!Notify
<1>29. \A w : Runner!ResumeRevoke(w) <=> Proved!ResumeRevoke(w)
  BY <1>9, <1>11 DEF Runner!ResumeRevoke, Proved!ResumeRevoke
<1>30. \A w : Runner!ResumeLoad(w) <=> Proved!ResumeLoad(w)
  BY <1>11, <1>15, <1>9
     DEF Runner!ResumeLoad, Proved!ResumeLoad, Runner!stores, Proved!stores
<1>31. \A w : Runner!ResumeDetect(w) <=> Proved!ResumeDetect(w)
  BY <1>12, <1>10, <1>14, <1>18
     DEF Runner!ResumeDetect, Proved!ResumeDetect, Runner!stores, Proved!stores
<1>32. \A w : Runner!Click(w) <=> Proved!Click(w)
  BY <1>14, <1>10, <1>18
     DEF Runner!Click, Proved!Click, Runner!stores, Proved!stores
<1>33. \A w : Runner!StartCheck(w) <=> Proved!StartCheck(w)
  BY <1>2, <1>11, <1>7, <1>19, <1>17, <1>9
     DEF Runner!StartCheck, Proved!StartCheck, Runner!stores, Proved!stores
<1>34. \A w : Runner!SubmitGate(w) <=> Proved!SubmitGate(w)
  BY <1>11, <1>15, <1>13, <1>10
     DEF Runner!SubmitGate, Proved!SubmitGate, Runner!stores, Proved!stores
<1>35. \A w, t : Runner!ResumeLookup(w, t) <=> Proved!ResumeLookup(w, t)
  BY <1>2, <1>11, <1>16, <1>9
     DEF Runner!ResumeLookup, Proved!ResumeLookup, Runner!stores, Proved!stores
<1>36. Runner!Tick <=> Proved!Tick
  BY
     DEF Runner!Tick, Proved!Tick, Runner!stores, Proved!stores, Runner!locals, Proved!locals
<1>37. Runner!Crash <=> Proved!Crash
  BY DEF Runner!Crash, Proved!Crash, Runner!stores, Proved!stores
<1>38. \A w : Runner!Proceed(w) <=> Proved!Proceed(w)
  BY <1>21, <1>22, <1>23, <1>24, <1>25, <1>26, <1>27, <1>28, <1>29, <1>30, <1>31, <1>32
     DEF Runner!Proceed, Proved!Proceed
<1>39. \A w : Runner!Invoke(w) <=> Proved!Invoke(w)
  BY <1>33, <1>34, <1>35 DEF Runner!Invoke, Proved!Invoke
<1>40. Runner!Next <=> Proved!Next
  BY <1>36, <1>37, <1>38, <1>39 DEF Runner!Next, Proved!Next
<1>41. [Runner!Next]_(Runner!vars) => [Proved!Next]_(Proved!vars)
  BY <1>40 DEF Runner!vars, Proved!vars
<1> QED
  BY <1>8, <1>41, PTL DEF Runner!Spec, Proved!Spec

\* What the constants are assumed to be holds under either name.
LEMMA SameConstants == Proved!ConstantsAssumption /\ Proved!StartOfDayAssumption
<1>1. Proved!Time = Time
  BY DEF Proved!Time, Time
<1>2. Proved!Session = Session /\ Proved!TokenRecord = TokenRecord
  BY <1>1 DEF Proved!Session, Session, Proved!SessionStates, SessionStates,
     Proved!TokenRecord, TokenRecord
<1>3. \A S : Proved!IsFiniteSet(S) <=> IsFiniteSet(S)
  BY DEF Proved!IsFiniteSet, IsFiniteSet
<1>4. Proved!ConstantsAssumption
  BY <1>2, <1>3, ConstantsAssumption DEF Proved!ConstantsAssumption
<1>5. Proved!StartOfDayAssumption
  BY <1>1, StartOfDayAssumption DEF Proved!StartOfDayAssumption
<1> QED
  BY <1>4, <1>5

\* Its records, labels and copies are well formed, with one place more.
LEMMA HandoffBasic == HandoffSpec => [](PcOK /\ Proved!Basic)
<1>1. Proved!Spec => []Proved!Basic
  BY SameConstants, Proved!BasicInvariant, PTL
<1> QED
  BY <1>1, HandoffImplementsRunner, SameRunner, PcInit, PcStep, PTL
     DEF HandoffSpec, RunnerSpec

\* A caller that waits its turn clicks again only after a human redeemed a link,
\* also when notifications fail half way (runner.go:294-346).
THEOREM HandoffNothingRetried ==
    (\A v, w \in Workers : v = w) => (HandoffSpec => []NoAutomaticRetry)
<1> SUFFICES ASSUME \A v, w \in Workers : v = w
             PROVE  HandoffSpec => []NoAutomaticRetry
  OBVIOUS
<1>1. Proved!Spec => []Proved!NoAutomaticRetry
  BY SameConstants, Proved!NothingRetried, PTL DEF Proved!OneCaller
<1>2. Proved!NoAutomaticRetry => NoAutomaticRetry
  BY DEF Proved!NoAutomaticRetry, NoAutomaticRetry, runnerPc
<1> QED
  BY <1>1, <1>2, HandoffImplementsRunner, SameRunner, PTL DEF RunnerSpec

\* A link that still works leads to a session that waits for a human, also when
\* it was recorded and not sent (runner.go:219-230, notification.go:97-110).
THEOREM HandoffLinksArePaused ==
    (\A v, w \in Workers : v = w) => (HandoffSpec => []LiveLinkIsPaused)
<1> SUFFICES ASSUME \A v, w \in Workers : v = w
             PROVE  HandoffSpec => []LiveLinkIsPaused
  OBVIOUS
<1>1. Proved!Spec => []Proved!LiveLinkIsPaused
  BY SameConstants, Proved!LiveLinksArePaused, PTL DEF Proved!OneCaller
<1>2. Proved!LiveLinkIsPaused => LiveLinkIsPaused
  BY DEF Proved!LiveLinkIsPaused, LiveLinkIsPaused, Proved!Live, Live
<1> QED
  BY <1>1, <1>2, HandoffImplementsRunner, SameRunner, PTL DEF RunnerSpec

\* A finished session stays as it is, whatever links the service recorded or
\* sent, for one caller that submits each result once.
THEOREM HandoffTerminalStays ==
    (\A v, w \in Workers : v = w) => (HandoffSpec => TerminalIsFinal)
<1> SUFFICES ASSUME \A v, w \in Workers : v = w
             PROVE  HandoffSpec => TerminalIsFinal
  OBVIOUS
<1>1. Proved!Spec => Proved!TerminalIsFinal
  BY SameConstants, Proved!TerminalStays, PTL DEF Proved!OneCaller
<1>2. [\A i \in Ids :
          sessions[i] # None /\ sessions[i].state \in Proved!Terminal
              => sessions'[i] = sessions[i]]_sessions =>
      [\A i \in Ids :
          sessions[i] # None /\ sessions[i].state \in Terminal
              => sessions'[i] = sessions[i]]_sessions
  BY DEF Terminal, Proved!Terminal
<1> QED
  BY <1>1, <1>2, HandoffImplementsRunner, SameRunner, PTL
     DEF RunnerSpec, Proved!TerminalIsFinal, TerminalIsFinal

-----------------------------------------------------------------------------
(* What the service adds *)

\* A link is on its way only after its notification was saved and leads to the
\* session of its call; what was returned as clean was sent.
Handed ==
    /\ links \subseteq notices
    /\ \A w \in Workers : pc[w] = "send" => tok[w] \in notices
    /\ \A w \in Workers : pc[w] \in {"notify", "send"} =>
          /\ tok[w] \in Tokens
          /\ tokens[tok[w]] # None
          /\ tokens[tok[w]].session = sess[w].id
    /\ CleanHandoffIsSent

\* What the proofs below need to know of the runner's state.
Formed ==
    /\ PcOK
    /\ now \in Time
    /\ \A w \in Workers : pc[w] = "token" => sess[w] # None
    /\ tokens \in [Tokens -> TokenRecord \cup {None}]
    /\ links \subseteq Tokens
    /\ \A t \in links : tokens[t] # None
    /\ sess \in [Workers -> Session \cup {None}]
    /\ tok \in [Workers -> Tokens \cup {None}]

LEMMA FormedInvariant == HandoffSpec => []Formed
<1>1. PcOK /\ Proved!Basic => Formed
  <2> SUFFICES ASSUME PcOK, Proved!Basic PROVE Formed
    OBVIOUS
  <2>1. \A w \in Workers : pc[w] = "token" => sess[w] # None
    BY DEF Proved!Basic, Proved!Shape, Proved!CarriesSession, runnerPc
  <2>2. /\ Proved!Time = Time /\ Proved!TokenRecord = TokenRecord
        /\ Proved!SessionStates = SessionStates
    BY DEF Proved!Time, Time, Proved!TokenRecord, TokenRecord,
       Proved!SessionStates, SessionStates
  <2>3. Proved!Session = Session
    BY <2>2 DEF Proved!Session, Session
  <2> QED
    BY <2>1, <2>2, <2>3 DEF Proved!Basic, Proved!TypeOK, Proved!Shape, Formed
<1> QED
  BY <1>1, HandoffBasic, PTL

\* The tokens that were issued stay, each with its session.
Issued ==
    \A t \in Tokens : tokens[t] # None =>
        tokens'[t] # None /\ tokens'[t].session = tokens[t].session

\* A step of one call leaves the other calls alone.
Alone(w) ==
    \A v \in Workers \ {w} : sess'[v] = sess[v] /\ tok'[v] = tok[v]

LEMMA RunnerLeaves ==
    ASSUME Formed, NEW w \in Workers, (pc[w] # "notify" /\ Proceed(w)) \/ Invoke(w)
    PROVE  links' = links /\ Issued /\ Alone(w)
<1> USE DEF Formed
<1>1. links' = links
  BY DEF Proceed, Invoke, Launch, SaveSession, Navigate, Fill, DetectState,
     SaveCheckpoint, SaveTokenHash, Notify, ResumeRevoke, ResumeLoad,
     ResumeDetect, Click, StartCheck, SubmitGate, ResumeLookup, stores
<1>2. Issued
  <2>1. CASE SaveTokenHash(w)
    BY <2>1 DEF SaveTokenHash, Issued
  <2>2. CASE ResumeRevoke(w)
    <3> DEFINE Revoked(t) == [tokens[t] EXCEPT !.revoked = TRUE]
    <3>1. \A t \in Tokens : tokens'[t] \in {tokens[t], Revoked(t)}
      BY <2>2 DEF ResumeRevoke
    <3>2. \A t \in Tokens : tokens[t] # None =>
              /\ Revoked(t) \in TokenRecord
              /\ Revoked(t).session = tokens[t].session
      BY DEF TokenRecord
    <3> HIDE DEF Revoked
    <3> QED
      BY <3>1, <3>2, ConstantsAssumption DEF Issued
  <2>3. CASE ~SaveTokenHash(w) /\ ~ResumeRevoke(w)
    <3>1. tokens' = tokens
      BY <2>3 DEF Proceed, Invoke, Launch, SaveSession, Navigate, Fill,
         DetectState, SaveCheckpoint, Notify, ResumeLoad, ResumeDetect, Click,
         StartCheck, SubmitGate, ResumeLookup, stores
    <3> QED
      BY <3>1 DEF Issued
  <2> QED
    BY <2>1, <2>2, <2>3
<1>3. Alone(w)
  <2>1. /\ \A s, label : Becomes(w, s, label) =>
              \A v \in Workers \ {w} : sess'[v] = sess[v]
        /\ Error(w) => Alone(w)
    BY DEF Becomes, Error, Alone
  <2>2. /\ \A s, next : HandleState(w, s, next) =>
              \A v \in Workers \ {w} : sess'[v] = sess[v]
        /\ Fail(w) \/ Expire(w) \/ Pause(w) =>
              \A v \in Workers \ {w} : sess'[v] = sess[v]
    BY <2>1 DEF HandleState, Fail, Expire, Pause
  <2> QED
    BY <2>1, <2>2
       DEF Alone, Proceed, Invoke, Launch, SaveSession, Navigate, Fill, DetectState,
       SaveCheckpoint, SaveTokenHash, Notify, ResumeRevoke, ResumeLoad,
       ResumeDetect, Click, StartCheck, SubmitGate, ResumeLookup
<1> QED
  BY <1>1, <1>2, <1>3

LEMMA HandedRunner ==
    ASSUME Formed, Handed, NEW w \in Workers,
           (pc[w] # "notify" /\ Proceed(w)) \/ Invoke(w),
           notices' = notices, notifyErr' \in {notifyErr, notifyErr \ {w}}
    PROVE  Handed'
<1>1. links' = links /\ Issued /\ Alone(w)
  BY RunnerLeaves
<1>2. \A v \in Workers \ {w} : pc'[v] = pc[v]
  BY Goes DEF Formed, PcOK
<1>3. pc'[w] \notin {"send", "human_required"}
  <2>1. "send" \notin Labels
    BY DEF Labels, Returned, SaveNext
  <2> QED
    BY <2>1, Goes DEF Formed, PcOK
<1>4. ASSUME pc'[w] = "notify"
      PROVE  /\ tok'[w] \in Tokens
             /\ tokens'[tok'[w]] # None
             /\ tokens'[tok'[w]].session = sess'[w].id
  <2>1. SaveTokenHash(w) /\ ~Error(w)
    BY <1>4, Goes DEF Formed, PcOK
  <2> QED
    <3> DEFINE New == [session |-> sess[w].id, revoked |-> FALSE,
                       expiresAt |-> now + RecoveryTTL]
    <3>1. PICK t \in Tokens : /\ tokens' = [tokens EXCEPT ![t] = New]
                             /\ tok' = [tok EXCEPT ![w] = t]
                             /\ UNCHANGED sess
      BY <2>1 DEF SaveTokenHash
    <3>2. tok'[w] = t /\ tokens'[t] = New /\ sess'[w] = sess[w]
      BY <3>1 DEF Formed
    <3>3. New.session = sess[w].id
      OBVIOUS
    <3>4. New # None
      <4>1. sess[w] \in Session
        BY <2>1 DEF SaveTokenHash, Formed
      <4>2. sess[w].id \in Ids
        BY <4>1 DEF Session
      <4>3. now + RecoveryTTL \in Nat
        BY ConstantsAssumption DEF Formed, Time
      <4>4. New \in TokenRecord
        BY <4>2, <4>3 DEF TokenRecord
      <4> HIDE DEF New
      <4> QED
        BY <4>4, ConstantsAssumption
    <3> HIDE DEF New
    <3> QED
      BY <3>2, <3>3, <3>4
<1>5. \A v \in Workers : pc'[v] \in {"notify", "send"} =>
          /\ tok'[v] \in Tokens
          /\ tokens'[tok'[v]] # None
          /\ tokens'[tok'[v]].session = sess'[v].id
  BY <1>1, <1>2, <1>3, <1>4 DEF Handed, Alone, Issued
<1>6. \A v \in Workers : pc'[v] = "send" => tok'[v] \in notices'
  BY <1>1, <1>2, <1>3 DEF Handed, Alone
<1>7. CleanHandoffIsSent'
  <2> SUFFICES ASSUME NEW v \in Workers, pc'[v] = "human_required", v \notin notifyErr'
               PROVE  \E t \in links' \cap notices' : tokens'[t].session = sess'[v].id
    BY DEF CleanHandoffIsSent
  <2>1. v # w
    BY <1>3
  <2>2. PICK t \in links \cap notices : tokens[t].session = sess[v].id
    BY <1>2, <2>1 DEF Handed, CleanHandoffIsSent
  <2>3. tokens'[t].session = sess'[v].id
    BY <1>1, <2>1, <2>2 DEF Issued, Alone, Formed
  <2> QED
    BY <1>1, <2>2, <2>3
<1> QED
  BY <1>1, <1>5, <1>6, <1>7 DEF Handed

LEMMA HandedService ==
    ASSUME Formed, Handed, NEW w \in Workers, SaveNotification(w) \/ Send(w)
    PROVE  Handed'
<1>1. UNCHANGED <<tokens, sess>>
  BY DEF SaveNotification, Send, stores
<1>2. /\ links \subseteq links' /\ links' \subseteq links \cup {tok[w]}
      /\ notices \subseteq notices'
      /\ links' # links => tok[w] \in notices
  BY DEF SaveNotification, Send, stores, Handed
<1>3. \A v \in Workers \ {w} : pc'[v] = pc[v] /\ tok'[v] = tok[v] /\ (v \in notifyErr' <=> v \in notifyErr)
  BY DEF SaveNotification, Send, Return, Goto, Formed, PcOK
<1>4. \/ pc'[w] = "send" /\ tok'[w] = tok[w] /\ tok[w] \in notices' /\ pc[w] = "notify"
      \/ /\ pc'[w] = "human_required"
         /\ w \notin notifyErr' => tok[w] \in links' \cap notices' /\ pc[w] = "send"
  BY DEF SaveNotification, Send, Return, Goto, Formed, PcOK, Handed
<1>5. CleanHandoffIsSent'
  <2> SUFFICES ASSUME NEW v \in Workers, pc'[v] = "human_required", v \notin notifyErr'
               PROVE  \E t \in links' \cap notices' : tokens'[t].session = sess'[v].id
    BY DEF CleanHandoffIsSent
  <2>1. CASE v = w
    BY <1>1, <1>4, <2>1 DEF Handed
  <2>2. CASE v # w
    BY <1>1, <1>2, <1>3, <2>2 DEF Handed, CleanHandoffIsSent
  <2> QED
    BY <2>1, <2>2
<1>6. \A v \in Workers : pc'[v] \in {"notify", "send"} =>
          /\ tok'[v] \in Tokens
          /\ tokens'[tok'[v]] # None
          /\ tokens'[tok'[v]].session = sess'[v].id
  BY <1>1, <1>3, <1>4 DEF Handed
<1>7. \A v \in Workers : pc'[v] = "send" => tok'[v] \in notices'
  BY <1>2, <1>3, <1>4 DEF Handed
<1>8. links' \subseteq notices'
  BY <1>2 DEF Handed
<1> QED
  BY <1>5, <1>6, <1>7, <1>8 DEF Handed

LEMMA HandedStep == Formed /\ Handed /\ [NextHandoff]_handoffVars => Handed'
<1> SUFFICES ASSUME Formed, Handed, [NextHandoff]_handoffVars PROVE Handed'
  OBVIOUS
<1>1. ASSUME NEW w \in Workers, ProceedHandoff(w) \/ InvokeHandoff(w)
      PROVE  Handed'
  BY <1>1, HandedRunner, HandedService DEF ProceedHandoff, InvokeHandoff
<1>2. CASE (Tick /\ UNCHANGED <<notices, notifyErr>>) \/ UNCHANGED handoffVars
  BY <1>2 DEF Tick, stores, locals, handoffVars, vars, Handed, CleanHandoffIsSent
<1>3. CASE CrashHandoff
  BY <1>3 DEF CrashHandoff, Crash, stores, Handed, CleanHandoffIsSent
<1> QED
  BY <1>1, <1>2, <1>3 DEF NextHandoff

LEMMA HandedInvariant == HandoffSpec => []Handed
<1>1. InitHandoff => Handed
  BY DEF InitHandoff, Init, Handed, CleanHandoffIsSent
<1> QED
  BY <1>1, HandedStep, FormedInvariant, PTL DEF HandoffSpec

\* Whatever fails between the two stores, no user has a link that is not on
\* record (notify, notification.go:97-110).
THEOREM DeliveredRecorded == HandoffSpec => []DeliveredIsRecorded
<1>1. Handed => DeliveredIsRecorded
  BY DEF Handed, DeliveredIsRecorded
<1> QED
  BY <1>1, HandedInvariant, PTL

\* For any number of callers: human_required without an error means that a link
\* to the returned session was sent (pauseForHuman, runner.go:232-240).
THEOREM CleanHandoffSent == HandoffSpec => []CleanHandoffIsSent
<1>1. Handed => CleanHandoffIsSent
  BY DEF Handed
<1> QED
  BY <1>1, HandedInvariant, PTL
=============================================================================
