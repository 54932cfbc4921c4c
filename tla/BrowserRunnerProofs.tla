------------------------- MODULE BrowserRunnerProofs -------------------------
(* Proofs about the browser runner, for every number of workers, sessions   *)
(* and tokens and every limit.                                              *)
EXTENDS BrowserRunner, FiniteSetTheorems, TLAPS

\* Where a worker carries a Session value, and where it carries a token.
CarriesSession ==
    PreSaved \cup DOMAIN SaveNext \cup
    {"navigate", "fill", "detect", "checkpoint", "token", "notify",
     "resumeDetect", "click", "ready_for_review"}

\* A running call has the values its next step reads.
Shape ==
    /\ \A w \in Workers : pc[w] \in CarriesSession => sess[w] # None
    /\ \A w \in Workers : pc[w] \in {"revoke", "load", "notify"} =>
            tok[w] # None /\ tokens[tok[w]] # None
    /\ \A t \in links : tokens[t] # None

\* Records are stored under their ID, and none comes from the future.
StoreOK ==
    /\ \A i \in Ids : sessions[i] # None =>
            /\ sessions[i].id = i
            /\ sessions[i].startedAt <= now
    /\ \A t \in Tokens : tokens[t] # None => sessions[tokens[t].session] # None

\* A session that was ever saved keeps its start time in every local copy; one
\* that was not belongs to the worker that is starting it and to no other.
CopiesOK ==
    \A w \in Workers : sess[w] # None =>
        /\ sess[w].startedAt <= now
        /\ pc[w] \notin PreSaved =>
              /\ sessions[sess[w].id] # None
              /\ sessions[sess[w].id].startedAt = sess[w].startedAt
        /\ pc[w] \in PreSaved =>
              /\ sessions[sess[w].id] = None
              /\ \A v \in Workers : sess[v] # None /\ sess[v].id = sess[w].id => v = w

\* COMPLETED and checkpointed tell the truth, in the store and in the copies.
Truthful(s) ==
    /\ s.state = "COMPLETED" => clicked[s.id] = "confirmed"
    /\ s.checkpointed => s.id \in checkpoints

TruthOK ==
    /\ \A i \in Ids : sessions[i] # None => Truthful(sessions[i])
    /\ \A w \in Workers : sess[w] # None => Truthful(sess[w])

\* The workers that are about to add a session to the given day.
PendingOn(day) ==
    {w \in Workers : pc[w] \in PreSaved /\ StartOfDay[sess[w].startedAt] = day}

CapOK ==
    \A day \in Time :
        Cardinality(StartedOn(day)) + Cardinality(PendingOn(day))
            <= BrowserSessionsPerDay + Cardinality(Workers) - 1

Basic == TypeOK /\ Shape /\ StoreOK /\ CopiesOK

\* The inductive invariant.
IInv == Basic /\ TruthOK /\ CapOK

-----------------------------------------------------------------------------

\* The places where a worker carries no token.
PlainLabels == Labels \ {"revoke", "load", "notify"}

\* The labels are strings that differ from one another.
LEMMA LabelFacts ==
    /\ DOMAIN SaveNext = {"saveRunning", "saveLaunchFailed", "saveFailed",
         "saveExpired", "savePaused", "saveResumed", "saveCheckpointed",
         "saveSubmitting", "saveCompleted"}
    /\ \A l \in DOMAIN SaveNext : SaveNext[l] \in PlainLabels
    /\ Labels = PlainLabels \cup {"revoke", "load", "notify"}
    /\ CarriesSession \subseteq PlainLabels \cup {"notify"}
    /\ Returned \subseteq PlainLabels
    /\ PlainLabels \cap {"revoke", "load", "notify"} = {}
BY DEF SaveNext, Labels, PlainLabels, Returned, CarriesSession, PreSaved

\* The initial state has no records and no copies.
LEMMA BasicInit == Init => Basic
BY ConstantsAssumption DEF Init, Basic, TypeOK, Shape, StoreOK, CopiesOK, Time, Labels, Returned, CarriesSession, PreSaved, SaveNext, Clicks


\* Goto moves one worker and no other.
LEMMA GotoStep ==
    ASSUME TypeOK, NEW w \in Workers, NEW label \in Labels, Goto(w, label)
    PROVE  /\ pc' \in [Workers -> Labels]
           /\ pc'[w] = label
           /\ \A v \in Workers \ {w} : pc'[v] = pc[v]
BY DEF TypeOK, Goto

\* Becomes changes the state of one local session and nothing else of it.
LEMMA BecomesStep ==
    ASSUME TypeOK, NEW w \in Workers, sess[w] # None,
           NEW state \in SessionStates, NEW label \in Labels,
           Becomes(w, state, label)
    PROVE  /\ pc' \in [Workers -> Labels]
           /\ pc'[w] = label
           /\ \A v \in Workers \ {w} : pc'[v] = pc[v]
           /\ sess' \in [Workers -> Session \cup {None}]
           /\ sess'[w] \in Session
           /\ sess'[w].id = sess[w].id
           /\ sess'[w].startedAt = sess[w].startedAt
           /\ sess'[w].state = state
           /\ sess'[w].checkpointed = sess[w].checkpointed
           /\ \A v \in Workers \ {w} : sess'[v] = sess[v]
<1>1. sess[w] \in Session
  BY DEF TypeOK
<1>2. [sess[w] EXCEPT !.state = state] \in Session
  BY <1>1 DEF Session
<1>3. sess'[w] = [sess[w] EXCEPT !.state = state]
  BY DEF Becomes, TypeOK
<1>4. /\ sess'[w].id = sess[w].id
      /\ sess'[w].startedAt = sess[w].startedAt
      /\ sess'[w].state = state
      /\ sess'[w].checkpointed = sess[w].checkpointed
  BY <1>1, <1>3 DEF Session
<1> QED
  BY <1>1, <1>2, <1>3, <1>4, GotoStep DEF Becomes, TypeOK

\* An error return drops the session and the token of one worker.
LEMMA ErrorStep ==
    ASSUME TypeOK, NEW w \in Workers, Error(w)
    PROVE  /\ pc' \in [Workers -> Labels]
           /\ pc'[w] = "error"
           /\ \A v \in Workers \ {w} : pc'[v] = pc[v]
           /\ sess' \in [Workers -> Session \cup {None}]
           /\ sess'[w] = None
           /\ \A v \in Workers \ {w} : sess'[v] = sess[v]
           /\ tok' \in [Workers -> Tokens \cup {None}]
           /\ tok'[w] = None
           /\ \A v \in Workers \ {w} : tok'[v] = tok[v]
BY GotoStep DEF TypeOK, Error, Goto, Labels, Returned

\* A step of one worker leaves the others where they are, and itself with the
\* session and the token its place needs.
Moved(w) ==
    /\ pc' \in [Workers -> Labels]
    /\ sess' \in [Workers -> Session \cup {None}]
    /\ tok' \in [Workers -> Tokens \cup {None}]
    /\ \A v \in Workers \ {w} : pc'[v] = pc[v] /\ sess'[v] = sess[v] /\ tok'[v] = tok[v]
    /\ pc'[w] \in CarriesSession => sess'[w] # None
    /\ pc'[w] \in {"revoke", "load", "notify"} => tok'[w] # None
    /\ \/ pc'[w] \in PlainLabels
       \/ SaveTokenHash(w) \/ ResumeRevoke(w) \/ \E t \in links : ResumeLookup(w, t)

\* Becomes keeps the worker supplied with its session.
LEMMA MovedBecomes ==
    ASSUME TypeOK, NEW w \in Workers, sess[w] # None,
           NEW state \in SessionStates, NEW label \in PlainLabels,
           Becomes(w, state, label), tok' = tok
    PROVE  Moved(w)
<1>1. label \in Labels /\ label \notin {"revoke", "load", "notify"}
  BY DEF PlainLabels
<1>2. sess'[w] # None
  BY <1>1, BecomesStep, ConstantsAssumption
<1> QED
  BY <1>1, <1>2, BecomesStep DEF Moved, TypeOK

\* An error return needs no session.
LEMMA MovedError ==
    ASSUME TypeOK, NEW w \in Workers, Error(w)
    PROVE  Moved(w)
BY ErrorStep, LabelFacts DEF Moved, CarriesSession, PreSaved, Returned

\* A plain move keeps the session and the token.
LEMMA MovedGoto ==
    ASSUME TypeOK, NEW w \in Workers, sess[w] # None,
           NEW label \in PlainLabels, Goto(w, label), sess' = sess, tok' = tok
    PROVE  Moved(w)
BY GotoStep DEF Moved, TypeOK, PlainLabels

\* fail, expire, pauseForHuman and handleNonNormalState keep the session.
LEMMA MovedRouted ==
    ASSUME TypeOK, NEW w \in Workers, sess[w] # None, tok' = tok,
           \/ Fail(w) \/ Expire(w) \/ Pause(w)
           \/ \E state \in PageStates, next \in PlainLabels : HandleState(w, state, next)
    PROVE  Moved(w)
<1>1. {"saveFailed", "saveExpired", "savePaused"} \subseteq PlainLabels
  BY DEF PlainLabels, Labels, SaveNext
<1>2. {"FAILED", "EXPIRED", "HUMAN_REQUIRED"} \subseteq SessionStates
  BY DEF SessionStates
<1>3. ASSUME Fail(w) \/ Expire(w) \/ Pause(w) PROVE Moved(w)
  BY <1>1, <1>2, <1>3, MovedBecomes DEF Fail, Expire, Pause
<1>4. ASSUME NEW state \in PageStates, NEW next \in PlainLabels,
             HandleState(w, state, next)
      PROVE  Moved(w)
  BY <1>3, <1>4, MovedGoto DEF HandleState
<1> QED
  BY <1>3, <1>4

\* Every step of a worker is local to it and supplies its next step.
LEMMA LocalStep ==
    ASSUME Basic, NEW w \in Workers, Proceed(w) \/ Invoke(w)
    PROVE  Moved(w)
<1> USE DEF Basic
<1>a. pc[w] \in CarriesSession => sess[w] # None
  BY DEF Shape
<1>b. Observable \subseteq PageStates
  BY DEF Observable
<1>c. {"saveRunning", "saveLaunchFailed", "fill", "detect", "checkpoint",
       "saveCheckpointed", "saveResumed", "saveSubmitting", "saveCompleted",
       "human_required", "resumeDetect", "saveExpired", "launch"} \subseteq PlainLabels
  BY DEF PlainLabels, Labels, SaveNext, Returned
<1>d. {"RUNNING", "FAILED", "RESUMED", "COMPLETED", "STARTING"} \subseteq SessionStates
  BY DEF SessionStates
<1>1. CASE Launch(w)
  <2>1. sess[w] # None
    BY <1>1, <1>a DEF Launch, CarriesSession, PreSaved
  <2> QED
    BY <1>1, <2>1, <1>c, <1>d, MovedBecomes DEF Launch
<1>2. CASE SaveSession(w)
  <2>1. sess[w] # None
    BY <1>2, <1>a DEF SaveSession, CarriesSession
  <2> QED
    BY <1>2, <2>1, LabelFacts, MovedGoto, MovedError DEF SaveSession
<1>3. CASE Navigate(w)
  <2>1. sess[w] # None /\ tok' = tok
    BY <1>3, <1>a DEF Navigate, CarriesSession
  <2> QED
    BY <1>3, <2>1, <1>b, <1>c, MovedRouted DEF Navigate
<1>4. CASE Fill(w)
  <2>1. sess[w] # None /\ tok' = tok
    BY <1>4, <1>a DEF Fill, CarriesSession
  <2> QED
    BY <1>4, <2>1, <1>c, MovedRouted, MovedGoto DEF Fill
<1>5. CASE DetectState(w)
  <2>1. sess[w] # None /\ tok' = tok
    BY <1>5, <1>a DEF DetectState, CarriesSession
  <2> QED
    BY <1>5, <2>1, <1>b, <1>c, MovedRouted DEF DetectState
<1>6. CASE SaveCheckpoint(w)
  <2>1. sess[w] # None
    BY <1>6, <1>a DEF SaveCheckpoint, CarriesSession
  <2>2. ASSUME ~Error(w) PROVE Moved(w)
    <3>1. sess' = [sess EXCEPT ![w].checkpointed = TRUE] /\ tok' = tok
          /\ Goto(w, "saveCheckpointed")
      BY <1>6, <2>2 DEF SaveCheckpoint
    <3>2. sess[w] \in Session
      BY <2>1 DEF TypeOK
    <3>3. [sess[w] EXCEPT !.checkpointed = TRUE] \in Session
      BY <3>2 DEF Session
    <3>4. [sess[w] EXCEPT !.checkpointed = TRUE] # None
      BY <3>3, ConstantsAssumption
    <3> QED
      BY <3>1, <3>2, <3>3, <3>4, <1>c, GotoStep DEF Moved, TypeOK, PlainLabels
  <2> QED
    BY <2>2, MovedError
<1>7. CASE SaveTokenHash(w)
  <2>1. sess[w] # None
    BY <1>7, <1>a DEF SaveTokenHash, CarriesSession
  <2>2. ASSUME NEW t \in Tokens, Goto(w, "notify"),
               tok' = [tok EXCEPT ![w] = t], sess' = sess
        PROVE  Moved(w)
    <3>1. "notify" \in Labels
      BY DEF Labels
    <3>2. t # None
      BY ConstantsAssumption
    <3> QED
      BY <1>7, <2>1, <2>2, <3>1, <3>2, GotoStep DEF Moved, TypeOK
  <2> QED
    BY <1>7, <2>2, MovedError DEF SaveTokenHash
<1>8. CASE Notify(w)
  <2>1. sess[w] # None
    BY <1>8, <1>a DEF Notify, CarriesSession
  <2> QED
    BY <1>8, <2>1, <1>c, GotoStep DEF Notify, Moved, TypeOK, PlainLabels
<1>9. CASE ResumeRevoke(w)
  <2>1. tok[w] # None
    BY <1>9 DEF ResumeRevoke, Shape
  <2>2. "load" \in Labels /\ "load" \notin CarriesSession
    BY DEF Labels, CarriesSession, PreSaved, SaveNext
  <2> QED
    BY <1>9, <2>1, <2>2, GotoStep, MovedError DEF ResumeRevoke, Moved, TypeOK
<1>10. CASE ResumeLoad(w)
  <2> DEFINE s == sessions[tokens[tok[w]].session]
             s2 == IF IsExpired(s) THEN [s EXCEPT !.state = "EXPIRED"] ELSE s
  <2>1. s \in Session
    BY <1>10 DEF ResumeLoad, Shape, StoreOK, TypeOK, TokenRecord
  <2>2. s2 \in Session
    BY <2>1 DEF Session, SessionStates
  <2>3. s2 # None
    BY <2>2, ConstantsAssumption
  <2>4. ASSUME NEW label \in PlainLabels, Goto(w, label),
               sess' = [sess EXCEPT ![w] = s2], tok' = [tok EXCEPT ![w] = None]
        PROVE  Moved(w)
    BY <2>2, <2>3, <2>4, GotoStep DEF Moved, TypeOK, PlainLabels
  <2> HIDE DEF s
  <2>5. Error(w) \/ /\ sess' = [sess EXCEPT ![w] = s2]
                    /\ tok' = [tok EXCEPT ![w] = None]
                    /\ Goto(w, IF IsExpired(s) THEN "saveExpired" ELSE "resumeDetect")
    BY <1>10 DEF ResumeLoad, s
  <2> QED
    BY <2>4, <2>5, <1>c, MovedError
<1>11. CASE ResumeDetect(w)
  <2>1. sess[w] # None /\ tok' = tok
    BY <1>11, <1>a DEF ResumeDetect, CarriesSession
  <2> QED
    BY <1>11, <2>1, <1>c, <1>d, MovedRouted, MovedBecomes DEF ResumeDetect
<1>12. CASE Click(w)
  <2>1. sess[w] # None /\ tok' = tok
    BY <1>12, <1>a DEF Click, CarriesSession
  <2> QED
    BY <1>12, <2>1, <1>c, <1>d, MovedRouted, MovedBecomes DEF Click
<1>13. CASE StartCheck(w)
  <2>1. ASSUME NEW i \in Ids, Goto(w, "launch"), tok' = tok,
               sess' = [sess EXCEPT ![w] =
                           [id |-> i, state |-> "STARTING", startedAt |-> now,
                            expiresAt |-> now + MaxSessionMinutes,
                            checkpointed |-> FALSE]]
        PROVE  Moved(w)
    <3>1. [id |-> i, state |-> "STARTING", startedAt |-> now,
           expiresAt |-> now + MaxSessionMinutes, checkpointed |-> FALSE] \in Session
      BY <1>d, ConstantsAssumption DEF Session, TypeOK, Time
    <3> QED
      BY <2>1, <3>1, <1>c, ConstantsAssumption, GotoStep DEF Moved, TypeOK, PlainLabels
  <2> QED
    BY <1>13, <2>1, MovedError DEF StartCheck
<1>14. CASE SubmitGate(w)
  <2>1. sess[w] # None
    BY <1>14, <1>a DEF SubmitGate, CarriesSession
  <2> QED
    BY <1>14, <2>1, <1>c, <1>d, MovedRouted, MovedBecomes, MovedError DEF SubmitGate
<1>15. ASSUME NEW t \in links, ResumeLookup(w, t) PROVE Moved(w)
  <2>1. t \in Tokens /\ t # None
    BY ConstantsAssumption DEF TypeOK
  <2>2. "revoke" \in Labels /\ "revoke" \notin CarriesSession
    BY DEF Labels, CarriesSession, PreSaved, SaveNext
  <2> QED
    BY <1>15, <2>1, <2>2, GotoStep, MovedError DEF ResumeLookup, Moved, TypeOK
<1> QED
  BY <1>1, <1>2, <1>3, <1>4, <1>5, <1>6, <1>7, <1>8, <1>9, <1>10, <1>11,
     <1>12, <1>13, <1>14, <1>15 DEF Proceed, Invoke

-----------------------------------------------------------------------------
(* What a step of one worker does to the sessions and to its copy *)

Stored(w) == sess[w] # None /\ sessions' = [sessions EXCEPT ![sess[w].id] = sess[w]]

Same(s, t) == s.id = t.id /\ s.startedAt = t.startedAt

CopyDropped(w) ==
    sess'[w] = None /\ pc'[w] \notin PreSaved /\ (sessions' = sessions \/ Stored(w))

CopySaved(w) == Stored(w) /\ sess' = sess /\ pc'[w] \notin PreSaved

CopyKept(w) ==
    /\ sessions' = sessions
    /\ sess[w] # None /\ sess'[w] # None
    /\ Same(sess'[w], sess[w])
    /\ pc'[w] \in PreSaved <=> pc[w] \in PreSaved

CopyLoaded(w) ==
    /\ sessions' = sessions
    /\ sess'[w] # None
    /\ sessions[sess'[w].id] # None
    /\ Same(sess'[w], sessions[sess'[w].id])
    /\ pc'[w] \notin PreSaved

CopyStarted(w) ==
    /\ sessions' = sessions
    /\ sess'[w] # None /\ FreshId(sess'[w].id)
    /\ sess'[w].startedAt = now
    /\ pc'[w] = "launch"
    /\ Cardinality(StartedSince(StartOfDay[now])) < BrowserSessionsPerDay

Effect(w) ==
    /\ now' = now
    /\ \/ CopyDropped(w) \/ CopySaved(w) \/ CopyKept(w)
       \/ CopyLoaded(w) \/ CopyStarted(w)

\* Becomes keeps the identity and the start time of the copy.
LEMMA KeptBecomes ==
    ASSUME TypeOK, NEW w \in Workers, sess[w] # None, sessions' = sessions,
           NEW state \in SessionStates, NEW label \in Labels,
           Becomes(w, state, label), label \in PreSaved <=> pc[w] \in PreSaved
    PROVE  CopyKept(w)
<1>1. sess'[w] # None /\ pc'[w] = label
  BY BecomesStep, ConstantsAssumption
<1> QED
  BY <1>1, BecomesStep DEF CopyKept, Same

\* So do fail, expire, pauseForHuman and handleNonNormalState.
LEMMA KeptRouted ==
    ASSUME TypeOK, NEW w \in Workers, sess[w] # None, sessions' = sessions,
           pc[w] \notin PreSaved,
           \/ Fail(w) \/ Expire(w) \/ Pause(w)
           \/ \E state \in PageStates, next \in Labels \ PreSaved : HandleState(w, state, next)
    PROVE  CopyKept(w)
<1>1. {"saveFailed", "saveExpired", "savePaused"} \subseteq Labels \ PreSaved
  BY DEF Labels, SaveNext, PreSaved
<1>2. {"FAILED", "EXPIRED", "HUMAN_REQUIRED"} \subseteq SessionStates
  BY DEF SessionStates
<1>3. ASSUME Fail(w) \/ Expire(w) \/ Pause(w) PROVE CopyKept(w)
  BY <1>1, <1>2, <1>3, KeptBecomes DEF Fail, Expire, Pause
<1>4. ASSUME NEW state \in PageStates, NEW next \in Labels \ PreSaved,
             HandleState(w, state, next)
      PROVE  CopyKept(w)
  BY <1>3, <1>4, GotoStep DEF HandleState, CopyKept, Same
<1> QED
  BY <1>3, <1>4

\* An error return drops the copy.
LEMMA DroppedError ==
    ASSUME TypeOK, NEW w \in Workers, Error(w), sessions' = sessions \/ Stored(w)
    PROVE  CopyDropped(w)
BY ErrorStep DEF CopyDropped, PreSaved

\* Every step of a worker drops, saves, keeps, loads or starts its session.
LEMMA EffectStep ==
    ASSUME Basic, NEW w \in Workers, Proceed(w) \/ Invoke(w)
    PROVE  Effect(w)
<1> USE DEF Basic, stores
<1>a. pc[w] \in CarriesSession => sess[w] # None
  BY DEF Shape
<1>b. Observable \subseteq PageStates
  BY DEF Observable
<1>c. {"fill", "detect", "checkpoint", "saveCheckpointed", "saveResumed",
       "saveSubmitting", "saveCompleted", "human_required", "resumeDetect",
       "saveExpired", "load", "notify", "revoke"} \subseteq Labels \ PreSaved
  BY DEF Labels, SaveNext, Returned, PreSaved
<1>d. {"RUNNING", "FAILED", "RESUMED", "COMPLETED", "STARTING"} \subseteq SessionStates
  BY DEF SessionStates
<1>e. \A l \in DOMAIN SaveNext : SaveNext[l] \in Labels \ PreSaved
  BY DEF SaveNext, Labels, Returned, PreSaved
<1>f. PreSaved \subseteq Labels
  BY DEF PreSaved, Labels, SaveNext
<1>1. CASE Launch(w)
  <2>1. sess[w] # None
    BY <1>1, <1>a DEF Launch, CarriesSession, PreSaved
  <2>2. {"launch", "saveRunning", "saveLaunchFailed"} \subseteq PreSaved
    BY DEF PreSaved
  <2>3. sessions' = sessions /\ now' = now /\ pc[w] \in PreSaved
    BY <1>1, <2>2 DEF Launch
  <2>4. ASSUME NEW state \in SessionStates, NEW label \in PreSaved,
               Becomes(w, state, label)
        PROVE  CopyKept(w)
    <3>1. label \in Labels
      BY <1>f
    <3> QED
      BY <2>1, <2>3, <2>4, <3>1, KeptBecomes
  <2> QED
    BY <1>1, <2>2, <2>3, <2>4, <1>d DEF Launch, Effect
<1>2. CASE SaveSession(w)
  <2>1. sess[w] # None
    BY <1>2, <1>a DEF SaveSession, CarriesSession
  <2>2. ASSUME ~Error(w) PROVE CopySaved(w)
    BY <1>2, <2>1, <2>2, <1>e, GotoStep DEF SaveSession, CopySaved, Stored
  <2>3. ASSUME Error(w) PROVE CopyDropped(w)
    BY <1>2, <2>1, <2>3, DroppedError DEF SaveSession, Stored
  <2> QED
    BY <1>2, <2>2, <2>3 DEF Effect, SaveSession
<1>3. CASE Navigate(w)
  <2>1. sess[w] # None /\ pc[w] \notin PreSaved
    BY <1>3, <1>a DEF Navigate, CarriesSession, PreSaved
  <2> QED
    BY <1>3, <2>1, <1>b, <1>c, KeptRouted DEF Navigate, Effect
<1>4. CASE Fill(w)
  <2>1. sess[w] # None /\ pc[w] \notin PreSaved
    BY <1>4, <1>a DEF Fill, CarriesSession, PreSaved
  <2>2. ASSUME Goto(w, "detect"), sess' = sess, sessions' = sessions PROVE CopyKept(w)
    BY <2>1, <2>2, <1>c, GotoStep DEF CopyKept, Same
  <2> QED
    BY <1>4, <2>1, <2>2, KeptRouted DEF Fill, Effect
<1>5. CASE DetectState(w)
  <2>1. sess[w] # None /\ pc[w] \notin PreSaved
    BY <1>5, <1>a DEF DetectState, CarriesSession, PreSaved
  <2> QED
    BY <1>5, <2>1, <1>b, <1>c, KeptRouted DEF DetectState, Effect
<1>6. CASE SaveCheckpoint(w)
  <2>1. sess[w] # None /\ pc[w] \notin PreSaved
    BY <1>6, <1>a DEF SaveCheckpoint, CarriesSession, PreSaved
  <2>2. ASSUME ~Error(w) PROVE CopyKept(w)
    <3>1. /\ sess' = [sess EXCEPT ![w].checkpointed = TRUE]
          /\ Goto(w, "saveCheckpointed") /\ sessions' = sessions
      BY <1>6, <2>2 DEF SaveCheckpoint
    <3>2. sess[w] \in Session
      BY <2>1 DEF TypeOK
    <3>3. sess'[w] = [sess[w] EXCEPT !.checkpointed = TRUE]
      BY <3>1 DEF TypeOK
    <3>4. /\ sess'[w] \in Session
          /\ sess'[w].id = sess[w].id /\ sess'[w].startedAt = sess[w].startedAt
      BY <3>2, <3>3 DEF Session
    <3> QED
      BY <3>1, <3>4, <2>1, <1>c, GotoStep, ConstantsAssumption DEF CopyKept, Same
  <2> QED
    BY <1>6, <2>2, DroppedError DEF SaveCheckpoint, Effect
<1>7. CASE SaveTokenHash(w)
  <2>1. sess[w] # None /\ pc[w] \notin PreSaved
    BY <1>7, <1>a DEF SaveTokenHash, CarriesSession, PreSaved
  <2>2. ASSUME Goto(w, "notify"), sess' = sess, sessions' = sessions PROVE CopyKept(w)
    BY <2>1, <2>2, <1>c, GotoStep DEF CopyKept, Same
  <2> QED
    BY <1>7, <2>2, DroppedError DEF SaveTokenHash, Effect
<1>8. CASE Notify(w)
  <2>1. sess[w] # None /\ pc[w] \notin PreSaved
    BY <1>8, <1>a DEF Notify, CarriesSession, PreSaved
  <2> QED
    BY <1>8, <2>1, <1>c, GotoStep DEF Notify, Effect, CopyKept, Same
<1>9. CASE ResumeRevoke(w)
  <2>1. ASSUME Goto(w, "load"), sess' = sess, sessions' = sessions
        PROVE  CopyKept(w) \/ CopyDropped(w)
    <3>1. pc[w] \notin PreSaved /\ pc'[w] \notin PreSaved
      BY <1>9, <2>1, <1>c, GotoStep DEF ResumeRevoke, PreSaved
    <3> QED
      BY <2>1, <3>1 DEF CopyKept, CopyDropped, Same
  <2> QED
    BY <1>9, <2>1, DroppedError DEF ResumeRevoke, Effect
<1>10. CASE ResumeLoad(w)
  <2> DEFINE s == sessions[tokens[tok[w]].session]
             s2 == IF IsExpired(s) THEN [s EXCEPT !.state = "EXPIRED"] ELSE s
  <2>1. s \in Session /\ sessions[s.id] = s
    BY <1>10 DEF ResumeLoad, Shape, StoreOK, TypeOK, TokenRecord
  <2>2. s2 \in Session /\ s2.id = s.id /\ s2.startedAt = s.startedAt
    BY <2>1 DEF Session, SessionStates
  <2>3. s2 # None /\ s # None
    BY <2>1, <2>2, ConstantsAssumption
  <2>4. ASSUME NEW label \in Labels \ PreSaved, Goto(w, label), sessions' = sessions,
               sess' = [sess EXCEPT ![w] = s2]
        PROVE  CopyLoaded(w)
    <3>1. sess'[w] = s2 /\ pc'[w] \notin PreSaved
      BY <2>4, GotoStep DEF TypeOK
    <3> HIDE DEF s, s2
    <3> QED
      BY <3>1, <2>1, <2>2, <2>3, <2>4 DEF CopyLoaded, Same
  <2> HIDE DEF s
  <2>5. /\ now' = now /\ sessions' = sessions
        /\ Error(w) \/ /\ sess' = [sess EXCEPT ![w] = s2]
                       /\ Goto(w, IF IsExpired(s) THEN "saveExpired" ELSE "resumeDetect")
    BY <1>10 DEF ResumeLoad, s
  <2> QED
    BY <2>4, <2>5, <1>c, DroppedError DEF Effect
<1>11. CASE ResumeDetect(w)
  <2>1. sess[w] # None /\ pc[w] \notin PreSaved
    BY <1>11, <1>a DEF ResumeDetect, CarriesSession, PreSaved
  <2> QED
    BY <1>11, <2>1, <1>c, <1>d, KeptRouted, KeptBecomes DEF ResumeDetect, Effect
<1>12. CASE Click(w)
  <2>1. sess[w] # None /\ pc[w] \notin PreSaved
    BY <1>12, <1>a DEF Click, CarriesSession, PreSaved
  <2> QED
    BY <1>12, <2>1, <1>c, <1>d, KeptRouted, KeptBecomes DEF Click, Effect
<1>13. CASE StartCheck(w)
  <2>1. ASSUME NEW i \in Ids, FreshId(i), Goto(w, "launch"),
               sess' = [sess EXCEPT ![w] =
                           [id |-> i, state |-> "STARTING", startedAt |-> now,
                            expiresAt |-> now + MaxSessionMinutes,
                            checkpointed |-> FALSE]]
        PROVE  sess'[w] # None /\ FreshId(sess'[w].id) /\ sess'[w].startedAt = now
    <3>1. [id |-> i, state |-> "STARTING", startedAt |-> now,
           expiresAt |-> now + MaxSessionMinutes, checkpointed |-> FALSE] \in Session
      BY <1>d, ConstantsAssumption DEF Session, TypeOK, Time
    <3> QED
      BY <2>1, <3>1, ConstantsAssumption DEF TypeOK
  <2>2. "launch" \in Labels
    BY <1>f DEF PreSaved
  <2> QED
    BY <1>13, <2>1, <2>2, DroppedError, GotoStep DEF StartCheck, Effect, CopyStarted
<1>14. CASE SubmitGate(w)
  <2>1. sess[w] # None /\ pc[w] \notin PreSaved
    BY <1>14, <1>a DEF SubmitGate, CarriesSession, PreSaved
  <2> QED
    BY <1>14, <2>1, <1>c, <1>d, KeptRouted, KeptBecomes, DroppedError
       DEF SubmitGate, Effect
<1>15. ASSUME NEW t \in links, ResumeLookup(w, t) PROVE Effect(w)
  <2>1. ASSUME Goto(w, "revoke"), sess' = [sess EXCEPT ![w] = None], sessions' = sessions
        PROVE  CopyDropped(w)
    BY <2>1, <1>c, GotoStep DEF CopyDropped, TypeOK
  <2> QED
    BY <1>15, <2>1, DroppedError DEF ResumeLookup, Effect
<1> QED
  BY <1>1, <1>2, <1>3, <1>4, <1>5, <1>6, <1>7, <1>8, <1>9, <1>10, <1>11,
     <1>12, <1>13, <1>14, <1>15 DEF Proceed, Invoke

-----------------------------------------------------------------------------
(* What it does to the other stores *)

StoresTyped ==
    /\ sessions \in [Ids -> Session \cup {None}]
    /\ checkpoints \subseteq Ids
    /\ tokens \in [Tokens -> TokenRecord \cup {None}]
    /\ links \subseteq Tokens
    /\ page \in Ids \cup {None}
    /\ clicked \in [Ids -> Clicks]
    /\ redeemed \in [Tokens -> Nat]

TokensKept(w) ==
    /\ \A t \in Tokens : tokens[t] # None => tokens'[t] # None
    /\ \A t \in Tokens : tokens'[t] # None => sessions[tokens'[t].session] # None
    /\ \A t \in links' : tokens'[t] # None
    /\ pc'[w] \in {"revoke", "load", "notify"} => tokens'[tok'[w]] # None

\* Every step of a worker leaves the stores well typed and keeps their rows.
LEMMA StoresStep ==
    ASSUME Basic, NEW w \in Workers, Proceed(w) \/ Invoke(w)
    PROVE  StoresTyped' /\ TokensKept(w)
<1> USE DEF Basic
<1>a. pc[w] \in CarriesSession => sess[w] # None /\ sess[w] \in Session /\ sess[w].id \in Ids
  BY DEF Shape, TypeOK, Session
<1>b. {"launch", "navigate", "fill", "detect", "checkpoint", "token", "notify",
       "resumeDetect", "click", "ready_for_review"} \subseteq CarriesSession
  BY DEF CarriesSession, PreSaved
<1>c. pc'[w] \in {"revoke", "load", "notify"} =>
         SaveTokenHash(w) \/ ResumeRevoke(w) \/ \E t \in links : ResumeLookup(w, t)
  <2>1. Moved(w)
    BY LocalStep
  <2> QED
    BY <2>1 DEF Moved, PlainLabels
<1>d. ASSUME tokens' = tokens, links' = links,
             ~(SaveTokenHash(w) \/ ResumeRevoke(w) \/ \E t \in links : ResumeLookup(w, t))
      PROVE  TokensKept(w)
  BY <1>c, <1>d DEF TokensKept, Shape, StoreOK
<1>e. Clicks = {"none", "uncertain", "confirmed"}
  BY DEF Clicks
<1>1. CASE SaveTokenHash(w)
  <2>1. sess[w] \in Session /\ sess[w].id \in Ids /\ sessions[sess[w].id] # None
    BY <1>1, <1>a, <1>b DEF SaveTokenHash, CopiesOK, PreSaved
  <2>2. ASSUME NEW t \in Tokens, tokens[t] = None,
               tokens' = [tokens EXCEPT ![t] =
                            [session |-> sess[w].id, revoked |-> FALSE,
                             expiresAt |-> now + RecoveryTTL]],
               tok' = [tok EXCEPT ![w] = t], links' = links
        PROVE  tokens' \in [Tokens -> TokenRecord \cup {None}] /\ TokensKept(w)
    <3> DEFINE r == [session |-> sess[w].id, revoked |-> FALSE,
                     expiresAt |-> now + RecoveryTTL]
    <3>0. now + RecoveryTTL \in Nat
      BY ConstantsAssumption DEF TypeOK, Time
    <3>1. r \in TokenRecord /\ r.session = sess[w].id
      BY <2>1, <3>0 DEF TokenRecord
    <3>3. r # None
      BY <3>1, ConstantsAssumption
    <3>2. tokens'[t] = r /\ tok'[w] = t /\ \A u \in Tokens \ {t} : tokens'[u] = tokens[u]
      BY <2>2 DEF TypeOK
    <3> HIDE DEF r
    <3> QED
      BY <2>1, <2>2, <3>1, <3>2, <3>3 DEF TokensKept, TypeOK, Shape, StoreOK
  <2>3. ASSUME Error(w), tokens' = tokens, links' = links
        PROVE  TokensKept(w)
    BY <2>3, ErrorStep DEF TokensKept, Shape, StoreOK
  <2> QED
    BY <1>1, <2>2, <2>3 DEF SaveTokenHash, StoresTyped, TypeOK
<1>2. CASE ResumeRevoke(w)
  <2>1. tok[w] \in Tokens /\ tokens[tok[w]] # None
    BY <1>2 DEF ResumeRevoke, Shape, TypeOK
  <2> DEFINE r == [tokens[tok[w]] EXCEPT !.revoked = TRUE]
             revoked == [tokens EXCEPT ![tok[w]].revoked = TRUE]
  <2>2. tokens[tok[w]] \in TokenRecord
    BY <2>1 DEF TypeOK
  <2>3. r \in TokenRecord /\ r.session = tokens[tok[w]].session
    BY <2>2 DEF TokenRecord
  <2>4. revoked = [tokens EXCEPT ![tok[w]] = r]
    OBVIOUS
  <2>5. r # None
    BY <2>3, ConstantsAssumption
  <2> HIDE DEF r, revoked
  <2>6. revoked \in [Tokens -> TokenRecord \cup {None}]
        /\ \A t \in Tokens : tokens[t] # None =>
              revoked[t] # None /\ revoked[t].session = tokens[t].session
        /\ \A u \in Tokens : revoked[u] # None => tokens[u] # None
    BY <2>1, <2>3, <2>4, <2>5 DEF TypeOK
  <2>7. tokens' = tokens \/ tokens' = revoked
    BY <1>2 DEF ResumeRevoke, revoked
  <2>11. links' = links /\ (Error(w) \/ tok' = tok)
    BY <1>2 DEF ResumeRevoke
  <2>8. TokensKept(w)
    BY <2>1, <2>6, <2>7, <2>11, ErrorStep DEF TokensKept, Shape, StoreOK, TypeOK
  <2>9. clicked' \in [Ids -> Clicks]
    BY <1>2, <1>e DEF ResumeRevoke, TypeOK
  <2>10. redeemed' \in [Tokens -> Nat]
    BY <1>2, <2>1 DEF ResumeRevoke, TypeOK
  <2> QED
    BY <1>2, <2>6, <2>7, <2>8, <2>9, <2>10, <2>11 DEF ResumeRevoke, StoresTyped, TypeOK
<1>3. ASSUME NEW t \in links, ResumeLookup(w, t) PROVE StoresTyped' /\ TokensKept(w)
  <2>1. /\ UNCHANGED stores /\ UNCHANGED <<page, clicked>>
        /\ Error(w) \/ tok' = [tok EXCEPT ![w] = t]
    BY <1>3 DEF ResumeLookup
  <2>2. tok'[w] = t \/ pc'[w] = "error"
    BY <2>1, ErrorStep DEF TypeOK
  <2> QED
    BY <2>1, <2>2 DEF StoresTyped, TokensKept, TypeOK, Shape, StoreOK, stores
<1>4. CASE Notify(w)
  <2>1. tok[w] \in Tokens /\ tokens[tok[w]] # None
    BY <1>4 DEF Notify, Shape, TypeOK
  <2>2. pc'[w] = "human_required"
    BY <1>4 DEF Notify, Goto, TypeOK
  <2> QED
    BY <1>4, <2>1, <2>2 DEF Notify, StoresTyped, TokensKept, TypeOK, Shape, StoreOK
<1>5. CASE SaveSession(w)
  <2>1. sess[w] \in Session /\ sess[w].id \in Ids
    BY <1>5, <1>a DEF SaveSession, CarriesSession
  <2>2. sessions' \in [Ids -> Session \cup {None}]
    BY <1>5, <2>1 DEF SaveSession, TypeOK
  <2>3. tokens' = tokens /\ links' = links
    BY <1>5 DEF SaveSession
  <2>4. pc'[w] \in PlainLabels
    BY <1>5, LabelFacts, ErrorStep DEF SaveSession, Goto, TypeOK, Returned
  <2>5. TokensKept(w)
    BY <2>3, <2>4, LabelFacts DEF TokensKept, Shape, StoreOK
  <2> QED
    BY <1>5, <2>2, <2>5 DEF SaveSession, StoresTyped, TypeOK
<1>6. CASE SaveCheckpoint(w)
  <2>1. sess[w].id \in Ids /\ tokens' = tokens /\ links' = links
    BY <1>6, <1>a, <1>b DEF SaveCheckpoint
  <2>2. pc'[w] = "saveCheckpointed" \/ pc'[w] = "error"
    BY <1>6, ErrorStep DEF SaveCheckpoint, Goto, TypeOK
  <2> QED
    BY <1>6, <2>1, <2>2 DEF SaveCheckpoint, StoresTyped, TokensKept, TypeOK, Shape, StoreOK
<1> DEFINE Others == ~(SaveTokenHash(w) \/ ResumeRevoke(w)
                          \/ \E t \in links : ResumeLookup(w, t))
<1>7. ASSUME Others, UNCHANGED stores, page' \in Ids \cup {None}, clicked' \in [Ids -> Clicks]
      PROVE  StoresTyped' /\ TokensKept(w)
  BY <1>d, <1>7 DEF StoresTyped, TypeOK, stores
<1>8. ASSUME Others, Launch(w) \/ Navigate(w) PROVE StoresTyped' /\ TokensKept(w)
  <2>1. sess[w].id \in Ids
    BY <1>8, <1>a, <1>b DEF Launch, Navigate
  <2>2. UNCHANGED stores /\ clicked' = clicked /\ page' \in {page, sess[w].id}
    BY <1>8 DEF Launch, Navigate
  <2> QED
    BY <1>7, <1>8, <2>1, <2>2 DEF TypeOK
<1>9. ASSUME Others, Click(w) PROVE StoresTyped' /\ TokensKept(w)
  <2>1. clicked' \in [Ids -> Clicks]
    BY <1>9, <1>e DEF Click, TypeOK
  <2> QED
    BY <1>7, <1>9, <2>1 DEF Click, TypeOK
<1>10. ASSUME Others,
              \/ Fill(w) \/ DetectState(w) \/ ResumeLoad(w) \/ ResumeDetect(w)
              \/ StartCheck(w) \/ SubmitGate(w)
       PROVE  StoresTyped' /\ TokensKept(w)
  <2>1. UNCHANGED stores /\ UNCHANGED <<page, clicked>>
    BY <1>10 DEF Fill, DetectState, ResumeLoad, ResumeDetect, StartCheck, SubmitGate
  <2> QED
    BY <1>7, <1>10, <2>1 DEF TypeOK
<1> QED
  BY <1>1, <1>2, <1>3, <1>4, <1>5, <1>6, <1>8, <1>9, <1>10 DEF Proceed, Invoke

-----------------------------------------------------------------------------
(* The first layer of the invariant *)

\* A step writes at most the row of the session its worker holds.
LEMMA SessionsGrow ==
    ASSUME Basic, NEW w \in Workers, Effect(w)
    PROVE  \A i \in Ids :
             \/ sessions'[i] = sessions[i]
             \/ /\ sess[w] # None /\ i = sess[w].id /\ sessions'[i] = sess[w]
                /\ \/ pc'[w] \notin PreSaved /\ sess'[w] = sess[w]
                   \/ pc'[w] \notin PreSaved /\ sess'[w] = None
BY DEF Basic, TypeOK, Effect, CopyDropped, CopySaved, CopyKept, CopyLoaded,
       CopyStarted, Stored

\* Every step of a worker preserves the first layer.
LEMMA BasicStep ==
    ASSUME Basic, NEW w \in Workers, Proceed(w) \/ Invoke(w)
    PROVE  Basic'
<1>1. Moved(w) /\ Effect(w) /\ StoresTyped' /\ TokensKept(w)
  BY LocalStep, EffectStep, StoresStep
<1>2. TypeOK'
  BY <1>1 DEF Basic, TypeOK, Moved, Effect, StoresTyped
<1>3. Shape'
  BY <1>1, LabelFacts DEF Basic, TypeOK, Shape, Moved, TokensKept, StoresTyped
<1>4. \A i \in Ids : sessions[i] # None => sessions'[i] # None
  BY <1>1, SessionsGrow
<1>5. StoreOK'
  <2>1. \A i \in Ids : sessions'[i] # None =>
           sessions'[i].id = i /\ sessions'[i].startedAt <= now'
    BY <1>1, SessionsGrow DEF Basic, StoreOK, CopiesOK, Effect
  <2>2. \A t \in Tokens : tokens'[t] # None => tokens'[t].session \in Ids
    BY <1>2, ConstantsAssumption DEF TypeOK, TokenRecord
  <2> QED
    BY <1>1, <1>4, <2>1, <2>2 DEF StoreOK, TokensKept
<1>6. CopiesOK'
  <2>1. ASSUME NEW v \in Workers, sess[v] # None PROVE sess[v] \in Session /\ sess[v].id \in Ids
    BY <2>1 DEF Basic, TypeOK, Session
  <2>2. ASSUME NEW v \in Workers, sess'[v] # None PROVE sess'[v].id \in Ids
    BY <2>2, <1>2 DEF TypeOK, Session
  <2>3. ASSUME NEW v \in Workers, v # w, sess'[v] # None
        PROVE  /\ sess'[v].startedAt <= now'
               /\ pc'[v] \notin PreSaved =>
                     /\ sessions'[sess'[v].id] # None
                     /\ sessions'[sess'[v].id].startedAt = sess'[v].startedAt
               /\ pc'[v] \in PreSaved => sessions'[sess'[v].id] = None
    <3>1. sess'[v] = sess[v] /\ pc'[v] = pc[v] /\ now' = now
      BY <1>1, <2>3 DEF Moved, Effect
    <3> QED
      BY <1>1, <2>1, <2>3, <3>1, SessionsGrow DEF Basic, CopiesOK
  <2>4. ASSUME sess'[w] # None
        PROVE  /\ sess'[w].startedAt <= now'
               /\ pc'[w] \notin PreSaved =>
                     /\ sessions'[sess'[w].id] # None
                     /\ sessions'[sess'[w].id].startedAt = sess'[w].startedAt
               /\ pc'[w] \in PreSaved => sessions'[sess'[w].id] = None
    <3>1. CASE CopySaved(w)
      BY <1>1, <2>1, <2>4, <3>1 DEF CopySaved, Stored, Effect, Basic, CopiesOK, TypeOK
    <3>2. CASE CopyKept(w)
      BY <1>1, <2>4, <3>2 DEF CopyKept, Same, Effect, Basic, CopiesOK
    <3>3. CASE CopyLoaded(w)
      BY <1>1, <2>2, <2>4, <3>3 DEF CopyLoaded, Same, Effect, Basic, StoreOK
    <3>4. CASE CopyStarted(w)
      BY <1>1, <2>4, <3>4 DEF CopyStarted, FreshId, Effect, PreSaved, Basic, TypeOK, Time
    <3> QED
      BY <1>1, <2>4, <3>1, <3>2, <3>3, <3>4 DEF Effect, CopyDropped
  <2>5. ASSUME NEW u \in Workers, NEW v \in Workers, sess'[u] # None, sess'[v] # None,
               pc'[u] \in PreSaved, sess'[v].id = sess'[u].id
        PROVE  v = u
    <3>1. ASSUME u # w, v # w PROVE v = u
      BY <1>1, <2>5, <3>1 DEF Moved, Basic, CopiesOK
    <3>2. CASE CopyKept(w)
      BY <1>1, <2>5, <3>1, <3>2 DEF CopyKept, Same, Moved, Basic, CopiesOK
    <3>3. CASE CopyStarted(w)
      BY <1>1, <2>5, <3>1, <3>3 DEF CopyStarted, FreshId, Moved
    <3>4. CASE CopySaved(w) \/ CopyLoaded(w)
      <4>1. pc'[w] \notin PreSaved /\ sess'[w] # None => sessions'[sess'[w].id] # None
        BY <2>4
      <4> QED
        BY <2>3, <2>4, <2>5, <3>1, <3>4, <4>1 DEF CopySaved, CopyLoaded
    <3> QED
      BY <1>1, <2>5, <3>1, <3>2, <3>3, <3>4 DEF Effect, CopyDropped
  <2> QED
    BY <2>3, <2>4, <2>5 DEF CopiesOK
<1> QED
  BY <1>2, <1>3, <1>5, <1>6 DEF Basic

\* Every step preserves the first layer.
LEMMA BasicNext == Basic /\ [Next]_vars => Basic'
<1> SUFFICES ASSUME Basic, [Next]_vars PROVE Basic'
  OBVIOUS
<1>1. CASE Tick
  BY <1>1, ConstantsAssumption
     DEF Tick, Basic, TypeOK, Shape, StoreOK, CopiesOK, stores, locals, Time, Session
<1>2. CASE Crash
  <2>1. {"idle"} \subseteq Labels \ ({"revoke", "load", "notify"} \cup CarriesSession \cup PreSaved)
    BY LabelFacts DEF Labels, Returned, CarriesSession, PreSaved
  <2> QED
    BY <1>2, <2>1 DEF Crash, Basic, TypeOK, Shape, StoreOK, CopiesOK, stores
<1>3. CASE UNCHANGED vars
  BY <1>3 DEF vars, Basic, TypeOK, Shape, StoreOK, CopiesOK
<1> QED
  BY <1>1, <1>2, <1>3, BasicStep DEF Next

\* Every record, label and history variable keeps its type, whatever the
\* workers' calls do and wherever the process stops.
THEOREM TypeCorrect == Spec => []TypeOK
<1>1. Spec => []Basic
  BY BasicInit, BasicNext, PTL DEF Spec
<1>2. Basic => TypeOK
  BY DEF Basic
<1> QED
  BY <1>1, <1>2, PTL

-----------------------------------------------------------------------------
(* The daily limit *)

\* Every step of a worker preserves the bound on saved and pending sessions.
LEMMA CapStep ==
    ASSUME Basic, CapOK, NEW w \in Workers, Proceed(w) \/ Invoke(w)
    PROVE  CapOK'
<1>1. Moved(w) /\ Effect(w) /\ Basic'
  BY LocalStep, EffectStep, BasicStep
<1> SUFFICES ASSUME NEW day \in Time
             PROVE  Cardinality(StartedOn(day)') + Cardinality(PendingOn(day)')
                       <= BrowserSessionsPerDay + Cardinality(Workers) - 1
  BY DEF CapOK
<1> DEFINE B == BrowserSessionsPerDay + Cardinality(Workers) - 1
<1>2. B \in Int
  BY ConstantsAssumption, FS_CardinalityType
<1>3. Cardinality(StartedOn(day)) + Cardinality(PendingOn(day)) <= B
  BY DEF CapOK
<1>4. /\ IsFiniteSet(StartedOn(day)) /\ IsFiniteSet(StartedOn(day)')
      /\ IsFiniteSet(PendingOn(day)) /\ IsFiniteSet(PendingOn(day)')
      /\ Cardinality(PendingOn(day)') <= Cardinality(Workers)
  <2>1. /\ StartedOn(day) \in SUBSET Ids /\ StartedOn(day)' \in SUBSET Ids
        /\ PendingOn(day) \in SUBSET Workers /\ PendingOn(day)' \in SUBSET Workers
    BY DEF StartedOn, PendingOn
  <2> QED
    BY <2>1, ConstantsAssumption, FS_Subset
<1>5. /\ Cardinality(StartedOn(day)) \in Nat /\ Cardinality(StartedOn(day)') \in Nat
      /\ Cardinality(PendingOn(day)) \in Nat /\ Cardinality(PendingOn(day)') \in Nat
  BY <1>4, FS_CardinalityType
<1>6. ASSUME StartedOn(day)' \in SUBSET StartedOn(day), PendingOn(day)' \in SUBSET PendingOn(day)
      PROVE  Cardinality(StartedOn(day)') + Cardinality(PendingOn(day)') <= B
  <2>1. /\ Cardinality(StartedOn(day)') <= Cardinality(StartedOn(day))
        /\ Cardinality(PendingOn(day)') <= Cardinality(PendingOn(day))
    BY <1>4, <1>6, FS_Subset
  <2> HIDE DEF B
  <2> QED
    BY <1>2, <1>3, <1>5, <2>1
\* The session that is saved for the first time was pending until now.
<1>7. ASSUME Stored(w), pc'[w] \notin PreSaved
      PROVE  Cardinality(StartedOn(day)') + Cardinality(PendingOn(day)') <= B
  <2>1. PendingOn(day)' \in SUBSET PendingOn(day)
    BY <1>1, <1>7 DEF PendingOn, Moved
  <2>2. sess[w] # None /\ sess[w].id \in Ids
    BY <1>7 DEF Stored, Basic, TypeOK, Session
  <2>3. CASE pc[w] \notin PreSaved
    <3>1. StartedOn(day)' \in SUBSET StartedOn(day)
      BY <1>7, <2>2, <2>3 DEF StartedOn, Stored, Basic, TypeOK, CopiesOK
    <3> QED
      BY <1>6, <2>1, <3>1
  <2>4. CASE pc[w] \in PreSaved /\ StartOfDay[sess[w].startedAt] # day
    <3>1. StartedOn(day)' \in SUBSET StartedOn(day)
      BY <1>7, <2>2, <2>4 DEF StartedOn, Stored, Basic, TypeOK
    <3> QED
      BY <1>6, <2>1, <3>1
  <2>5. CASE pc[w] \in PreSaved /\ StartOfDay[sess[w].startedAt] = day
    <3>1. StartedOn(day)' \in SUBSET (StartedOn(day) \cup {sess[w].id})
      BY <1>7, <2>2 DEF StartedOn, Stored, Basic, TypeOK
    <3>2. Cardinality(StartedOn(day)') <= Cardinality(StartedOn(day)) + 1
      <4>1. /\ IsFiniteSet(StartedOn(day) \cup {sess[w].id})
            /\ Cardinality(StartedOn(day) \cup {sess[w].id}) <= Cardinality(StartedOn(day)) + 1
        <5>1. /\ IsFiniteSet(StartedOn(day) \cup {sess[w].id})
              /\ Cardinality(StartedOn(day) \cup {sess[w].id}) =
                    IF sess[w].id \in StartedOn(day)
                    THEN Cardinality(StartedOn(day)) ELSE Cardinality(StartedOn(day)) + 1
          BY <1>4, FS_AddElement
        <5> QED
          BY <1>5, <5>1
      <4>2. Cardinality(StartedOn(day)') <= Cardinality(StartedOn(day) \cup {sess[w].id})
        BY <3>1, <4>1, FS_Subset
      <4>3. Cardinality(StartedOn(day) \cup {sess[w].id}) \in Nat
        BY <4>1, FS_CardinalityType
      <4> QED
        BY <1>5, <4>1, <4>2, <4>3
    <3>3. w \in PendingOn(day) /\ PendingOn(day)' \in SUBSET (PendingOn(day) \ {w})
      BY <1>7, <2>1, <2>5 DEF PendingOn
    <3>4. Cardinality(PendingOn(day)') <= Cardinality(PendingOn(day)) - 1
      <4>1. /\ IsFiniteSet(PendingOn(day) \ {w})
            /\ Cardinality(PendingOn(day) \ {w}) = Cardinality(PendingOn(day)) - 1
        BY <1>4, <3>3, FS_RemoveElement
      <4> QED
        BY <3>3, <4>1, FS_Subset
    <3> HIDE DEF B
    <3> QED
      BY <1>2, <1>3, <1>5, <3>2, <3>4
  <2> QED
    BY <2>3, <2>4, <2>5
\* A Start that passes the check found room for one more session today.
<1>8. CASE CopyStarted(w)
  <2>1. StartedOn(day)' \in SUBSET StartedOn(day)
    BY <1>8 DEF CopyStarted, StartedOn
  <2>2. CASE StartOfDay[now] = day
    <3>1. StartedOn(day) \in SUBSET StartedSince(StartOfDay[now])
      BY <2>2, StartOfDayAssumption DEF StartedOn, StartedSince, Basic, TypeOK, Session
    <3>2. StartedSince(StartOfDay[now]) \in SUBSET Ids
      BY DEF StartedSince
    <3>3. IsFiniteSet(StartedSince(StartOfDay[now]))
      BY <3>2, ConstantsAssumption, FS_Subset
    <3>4. /\ Cardinality(StartedSince(StartOfDay[now])) \in Nat
          /\ Cardinality(StartedOn(day)) <= Cardinality(StartedSince(StartOfDay[now]))
      BY <3>1, <3>3, FS_Subset, FS_CardinalityType
    <3>5. Cardinality(StartedOn(day)') <= Cardinality(StartedOn(day))
      BY <1>4, <2>1, FS_Subset
    <3>6. Cardinality(StartedSince(StartOfDay[now])) < BrowserSessionsPerDay
      BY <1>8 DEF CopyStarted
    <3>7. Cardinality(Workers) \in Nat /\ BrowserSessionsPerDay \in Nat
      BY ConstantsAssumption, FS_CardinalityType
    <3> QED
      BY <1>4, <1>5, <3>4, <3>5, <3>6, <3>7
  <2>3. CASE StartOfDay[now] # day
    <3>1. PendingOn(day)' \in SUBSET PendingOn(day)
      BY <1>1, <1>8, <2>3 DEF CopyStarted, PendingOn, Moved
    <3> QED
      BY <1>6, <2>1, <3>1
  <2> QED
    BY <2>2, <2>3
<1>9. CASE sessions' = sessions /\ ~CopyStarted(w)
  <2>1. StartedOn(day)' \in SUBSET StartedOn(day)
    BY <1>9 DEF StartedOn
  <2>2. pc'[w] \in PreSaved => /\ pc[w] \in PreSaved
                               /\ sess'[w].startedAt = sess[w].startedAt
    BY <1>1, <1>9 DEF Effect, CopyDropped, CopySaved, CopyKept, CopyLoaded, Same
  <2>3. PendingOn(day)' \in SUBSET PendingOn(day)
    BY <1>1, <2>2 DEF PendingOn, Moved
  <2> QED
    BY <1>6, <2>1, <2>3
<1> QED
  BY <1>1, <1>7, <1>8, <1>9 DEF Effect, CopyDropped, CopySaved, CopyKept, CopyLoaded

\* Every step preserves the bound on saved and pending sessions.
LEMMA CapNext == Basic /\ CapOK /\ [Next]_vars => CapOK'
<1> SUFFICES ASSUME Basic, CapOK, [Next]_vars PROVE CapOK'
  OBVIOUS
<1>1. CASE Tick \/ UNCHANGED vars
  BY <1>1 DEF Tick, vars, stores, locals, CapOK, StartedOn, PendingOn
<1>2. CASE Crash
  <2> SUFFICES ASSUME NEW day \in Time
               PROVE  Cardinality(StartedOn(day)') + Cardinality(PendingOn(day)')
                         <= BrowserSessionsPerDay + Cardinality(Workers) - 1
    BY DEF CapOK
  <2>1. StartedOn(day)' = StartedOn(day) /\ PendingOn(day)' = {}
    BY <1>2 DEF Crash, stores, StartedOn, PendingOn, PreSaved
  <2>2. StartedOn(day) \in SUBSET Ids /\ PendingOn(day) \in SUBSET Workers
    BY DEF StartedOn, PendingOn
  <2>3. /\ Cardinality(StartedOn(day)) \in Nat /\ Cardinality(PendingOn(day)) \in Nat
        /\ Cardinality(Workers) \in Nat
    BY <2>2, ConstantsAssumption, FS_Subset, FS_CardinalityType
  <2> QED
    BY <2>1, <2>3, ConstantsAssumption, FS_EmptySet DEF CapOK
<1> QED
  BY <1>1, <1>2, CapStep DEF Next

\* No session is saved or pending initially.
LEMMA CapInit == Init => CapOK
<1> SUFFICES ASSUME Init PROVE CapOK
  OBVIOUS
<1>1. \A day \in Time : StartedOn(day) = {} /\ PendingOn(day) = {}
  BY DEF Init, StartedOn, PendingOn, PreSaved
<1>2. Cardinality(Workers) \in Nat /\ Cardinality(Workers) # 0
  BY ConstantsAssumption, FS_CardinalityType, FS_EmptySet
<1>3. Cardinality({}) = 0
  BY FS_EmptySet
<1>4. 0 + 0 <= BrowserSessionsPerDay + Cardinality(Workers) - 1
  BY <1>2, ConstantsAssumption
<1> QED
  BY <1>1, <1>3, <1>4 DEF CapOK

\* The daily limit is exceeded by at most one session per other worker.
THEOREM DailyOverrun == Spec => []DailyOverrunBounded
<1>1. Basic /\ CapOK => DailyOverrunBounded
  <2> SUFFICES ASSUME Basic, CapOK, NEW day \in Time
               PROVE  Cardinality(StartedOn(day))
                         <= BrowserSessionsPerDay + Cardinality(Workers) - 1
    BY DEF DailyOverrunBounded
  <2>1. StartedOn(day) \in SUBSET Ids /\ PendingOn(day) \in SUBSET Workers
    BY DEF StartedOn, PendingOn
  <2>2. /\ Cardinality(StartedOn(day)) \in Nat /\ Cardinality(PendingOn(day)) \in Nat
        /\ Cardinality(Workers) \in Nat
    BY <2>1, ConstantsAssumption, FS_Subset, FS_CardinalityType
  <2> QED
    BY <2>2, ConstantsAssumption DEF CapOK
<1> QED
  BY <1>1, BasicInit, BasicNext, CapInit, CapNext, PTL DEF Spec

-----------------------------------------------------------------------------
(* The daily limit implements the daily budget *)

\* A step that saves a session is a commit of the worker that started it if the
\* session counts today, and gives its admission up if it does not.
LEMMA SaveIsCommit ==
    ASSUME Basic, NEW w \in Workers, Moved(w), Stored(w), now' = now,
           pc[w] \in PreSaved, pc'[w] \notin PreSaved
    PROVE  Budget!Commit(w) \/ Budget!Abandon(w)
<1> DEFINE S == StartedSince(StartOfDay[now])
<1> DEFINE i == sess[w].id
<1>1. w \in Admitted /\ Admitted' = Admitted \ {w}
  BY DEF Admitted, Moved
<1>2. /\ sess[w] # None /\ i \in Ids /\ sessions[i] = None
      /\ sessions' = [sessions EXCEPT ![i] = sess[w]]
  BY DEF Stored, Basic, TypeOK, Session, CopiesOK
<1>3. i \notin S /\ S \subseteq Ids
  BY <1>2 DEF StartedSince
<1>4. IsFiniteSet(S)
  BY <1>3, ConstantsAssumption, FS_Subset
<1>5. CASE sess[w].startedAt >= StartOfDay[now]
  <2>1. StartedSince(StartOfDay[now])' = S \cup {i}
    BY <1>2, <1>5 DEF StartedSince, Basic, TypeOK
  <2>2. Cardinality(S \cup {i}) = Cardinality(S) + 1
    BY <1>3, <1>4, FS_AddElement
  <2>3. CountedToday' = CountedToday + 1
    BY <2>1, <2>2 DEF CountedToday
  <2> QED
    BY <1>1, <2>3 DEF Budget!Commit
<1>6. CASE ~(sess[w].startedAt >= StartOfDay[now])
  <2>1. StartedSince(StartOfDay[now])' = S
    BY <1>2, <1>6 DEF StartedSince, Basic, TypeOK
  <2>2. CountedToday' = CountedToday
    BY <2>1 DEF CountedToday
  <2> QED
    BY <1>1, <2>2 DEF Budget!Abandon
<1> QED
  BY <1>5, <1>6

\* A session that is saved again counts as it did before.
LEMMA SavedAgain ==
    ASSUME Basic, NEW w \in Workers, now' = now, sessions' = sessions \/ Stored(w),
           Stored(w) => pc[w] \notin PreSaved
    PROVE  CountedToday' = CountedToday
<1>1. StartedSince(StartOfDay[now])' = StartedSince(StartOfDay[now])
  <2>1. CASE sessions' = sessions
    BY <2>1 DEF StartedSince
  <2>2. CASE Stored(w)
    <3>1. /\ sess[w] # None /\ sess[w].id \in Ids /\ sessions[sess[w].id] # None
          /\ sessions[sess[w].id].startedAt = sess[w].startedAt
      BY <2>2 DEF Stored, Basic, TypeOK, Session, CopiesOK
    <3> QED
      BY <2>2, <3>1 DEF Stored, StartedSince, Basic, TypeOK
  <2> QED
    BY <2>1, <2>2
<1> QED
  BY <1>1 DEF CountedToday

\* The clock moves within a day, or to a day on which nothing was started.
LEMMA TickIsMidnight ==
    ASSUME Basic, Tick
    PROVE  Budget!Midnight \/ UNCHANGED <<CountedToday, Admitted>>
<1>1. Admitted' = Admitted /\ sessions' = sessions
  BY DEF Tick, locals, stores, Admitted
<1>2. now \in Time /\ now' \in Time /\ now' = now + 1 /\ now \in Nat
  BY ConstantsAssumption DEF Tick, Basic, TypeOK, Time
<1>3. /\ StartOfDay[now'] \in Nat /\ StartOfDay[now'] <= now'
      /\ \A s \in StartOfDay[now']..now' : StartOfDay[s] = StartOfDay[now']
  BY <1>2, StartOfDayAssumption DEF Time
<1>4. CASE StartOfDay[now'] <= now
  <2>1. now \in StartOfDay[now']..now'
    BY <1>2, <1>3, <1>4
  <2>2. StartOfDay[now'] = StartOfDay[now]
    BY <1>3, <2>1
  <2>3. StartedSince(StartOfDay[now])' = StartedSince(StartOfDay[now])
    BY <1>1, <2>2 DEF StartedSince
  <2> QED
    BY <1>1, <2>3 DEF CountedToday
<1>5. CASE StartOfDay[now'] > now
  <2>1. \A i \in Ids : sessions[i] # None =>
           sessions[i].startedAt \in Nat /\ sessions[i].startedAt <= now
    BY DEF Basic, TypeOK, StoreOK, Session, Time
  <2>2. \A i \in Ids : sessions[i] # None => ~(sessions[i].startedAt >= StartOfDay[now'])
    BY <1>2, <1>3, <1>5, <2>1
  <2>3. StartedSince(StartOfDay[now])' = {}
    BY <1>1, <2>2 DEF StartedSince
  <2>4. CountedToday' = 0
    BY <2>3, FS_EmptySet DEF CountedToday
  <2> QED
    BY <1>1, <2>4 DEF Budget!Midnight
<1> QED
  BY <1>2, <1>3, <1>4, <1>5

\* A call starts only after the former one has returned.
LEMMA StartsOnly ==
    ASSUME Basic, NEW w \in Workers, Proceed(w) \/ Invoke(w), pc'[w] = "launch"
    PROVE  pc[w] \in Returned
<1> SUFFICES ASSUME ~StartCheck(w) PROVE FALSE
  BY DEF StartCheck
<1>1. \A l \in DOMAIN SaveNext : SaveNext[l] # "launch"
  BY DEF SaveNext
<1> QED
  BY <1>1, GotoStep DEF Proceed, Invoke, Launch, SaveSession, Navigate, Fill, DetectState,
     SaveCheckpoint, SaveTokenHash, Notify, ResumeRevoke, ResumeLoad, ResumeDetect, Click,
     SubmitGate, ResumeLookup, HandleState, Becomes, Fail, Expire, Pause, Error, Goto, Basic, TypeOK

\* Every step of the runner is a step of the budget, or none.
LEMMA BudgetStep == Basic /\ [Next]_vars => [Budget!Next]_<<CountedToday, Admitted>>
<1> SUFFICES ASSUME Basic, [Next]_vars
             PROVE  Budget!Next \/ UNCHANGED <<CountedToday, Admitted>>
  OBVIOUS
<1>1. CASE UNCHANGED vars
  BY <1>1 DEF vars, CountedToday, StartedSince, Admitted
<1>2. CASE Tick
  BY <1>2, TickIsMidnight DEF Budget!Next
<1>3. CASE Crash
  <2>1. Admitted' = {}
    BY <1>3 DEF Crash, Admitted, PreSaved
  <2>2. CountedToday' = CountedToday
    BY <1>3 DEF Crash, stores, CountedToday, StartedSince
  <2> QED
    BY <2>1, <2>2 DEF Budget!Next, Budget!Crash
<1>4. ASSUME NEW w \in Workers, Proceed(w) \/ Invoke(w)
      PROVE  Budget!Next \/ UNCHANGED <<CountedToday, Admitted>>
  <2>1. Moved(w) /\ Effect(w) /\ now' = now
    BY <1>4, LocalStep, EffectStep DEF Effect
  <2>2. Admitted' = IF pc'[w] \in PreSaved THEN Admitted \cup {w} ELSE Admitted \ {w}
    BY <2>1 DEF Admitted, Moved
  <2>3. CASE CopyStarted(w)
    <3>1. pc[w] \notin PreSaved
      BY <1>4, <2>3, StartsOnly DEF CopyStarted, Returned, PreSaved
    <3>2. CountedToday' = CountedToday /\ CountedToday < BrowserSessionsPerDay
      BY <2>1, <2>3 DEF CopyStarted, CountedToday, StartedSince
    <3>3. w \notin Admitted /\ Admitted' = Admitted \cup {w}
      BY <2>2, <2>3, <3>1 DEF CopyStarted, PreSaved, Admitted
    <3> QED
      BY <3>2, <3>3 DEF Budget!Next, Budget!Admit
  <2>4. CASE CopyKept(w)
    <3>1. Admitted' = Admitted
      BY <2>2, <2>4 DEF CopyKept, Admitted
    <3>2. CountedToday' = CountedToday
      BY <2>1, <2>4 DEF CopyKept, CountedToday, StartedSince
    <3> QED
      BY <3>1, <3>2
  <2>5. CASE CopyDropped(w) \/ CopySaved(w) \/ CopyLoaded(w)
    <3>1. pc'[w] \notin PreSaved /\ (sessions' = sessions \/ Stored(w))
      BY <2>5 DEF CopyDropped, CopySaved, CopyLoaded
    <3>2. CASE Stored(w) /\ pc[w] \in PreSaved
      BY <2>1, <3>1, <3>2, SaveIsCommit DEF Budget!Next
    <3>3. CASE ~Stored(w) \/ pc[w] \notin PreSaved
      <4>1. CountedToday' = CountedToday
        BY <2>1, <3>1, <3>3, SavedAgain
      <4>2. CASE w \in Admitted
        BY <2>2, <3>1, <4>1, <4>2 DEF Budget!Next, Budget!Abandon
      <4>3. CASE w \notin Admitted
        BY <2>2, <3>1, <4>1, <4>3
      <4> QED
        BY <4>2, <4>3
    <3> QED
      BY <3>2, <3>3
  <2> QED
    BY <2>1, <2>3, <2>4, <2>5 DEF Effect
<1> QED
  BY <1>1, <1>2, <1>3, <1>4 DEF Next

\* The limit on browser sessions implements the daily budget: no Start is
\* admitted but below the limit, and each admission is counted at most once, on
\* the day it was made (runner.go:96-125).
THEOREM ImplementsBudget == Spec => BudgetSpec
<1>1. Init => Budget!Init
  <2> SUFFICES ASSUME Init PROVE Budget!Init
    OBVIOUS
  <2>1. StartedSince(StartOfDay[now]) = {} /\ Admitted = {}
    BY DEF Init, StartedSince, Admitted, PreSaved
  <2> QED
    BY <2>1, FS_EmptySet DEF Budget!Init, CountedToday
<1> QED
  BY <1>1, BasicInit, BasicNext, BudgetStep, PTL DEF Spec, BudgetSpec, Budget!Spec

-----------------------------------------------------------------------------
(* Redemptions of one token *)

\* The calls that found the token valid and have not revoked it yet.
Redeeming(t) == {w \in Workers : pc[w] = "revoke" /\ tok[w] = t}

Unrevoked(t) == tokens[t] = None \/ ~tokens[t].revoked

\* Each of the calls under way may still redeem the token, and none may join
\* them once one has.
RedeemOK ==
    \A t \in Tokens :
        /\ Unrevoked(t) => redeemed[t] = 0
        /\ redeemed[t] + Cardinality(Redeeming(t)) <= Cardinality(Workers)

\* The sizes of the sets of workers.
LEMMA RedeemingSize ==
    ASSUME NEW S \in SUBSET Workers
    PROVE  /\ IsFiniteSet(S) /\ Cardinality(S) \in Nat /\ Cardinality(Workers) \in Nat
           /\ Cardinality(S) <= Cardinality(Workers)
           /\ \A R \in SUBSET S : Cardinality(R) <= Cardinality(S)
           /\ \A w \in S : Cardinality(S \ {w}) = Cardinality(S) - 1
<1>1. IsFiniteSet(S) /\ IsFiniteSet(Workers)
  BY ConstantsAssumption, FS_Subset
<1>2. \A w \in S : Cardinality(S \ {w}) = Cardinality(S) - 1
  BY <1>1, FS_RemoveElement
<1> QED
  BY <1>1, <1>2, FS_Subset, FS_CardinalityType

\* A step that redeems nothing and lets no call join.
LEMMA RedeemQuiet ==
    ASSUME Basic, RedeemOK, redeemed' = redeemed,
           \A t \in Tokens : Unrevoked(t)' => Unrevoked(t),
           \A t \in Tokens : Redeeming(t)' \subseteq Redeeming(t)
    PROVE  RedeemOK'
<1> SUFFICES ASSUME NEW t \in Tokens
             PROVE  /\ Unrevoked(t)' => redeemed'[t] = 0
                    /\ redeemed'[t] + Cardinality(Redeeming(t)') <= Cardinality(Workers)
  BY DEF RedeemOK
<1>1. Redeeming(t) \in SUBSET Workers /\ Redeeming(t)' \in SUBSET Redeeming(t)
  BY DEF Redeeming
<1>2. Cardinality(Redeeming(t)') <= Cardinality(Redeeming(t))
  BY <1>1, RedeemingSize
<1>3. /\ Cardinality(Redeeming(t)') \in Nat /\ Cardinality(Redeeming(t)) \in Nat
      /\ Cardinality(Workers) \in Nat
  BY <1>1, RedeemingSize
<1>4. redeemed[t] \in Nat /\ redeemed[t] + Cardinality(Redeeming(t)) <= Cardinality(Workers)
  BY DEF Basic, TypeOK, RedeemOK
<1>5. redeemed'[t] + Cardinality(Redeeming(t)') <= Cardinality(Workers)
  BY <1>2, <1>3, <1>4
<1> QED
  BY <1>5 DEF RedeemOK

\* A worker that does not look a token up is not among those that redeem it
\* unless it was before.
LEMMA NobodyJoins ==
    ASSUME Basic, NEW w \in Workers, Moved(w), pc'[w] # "revoke"
    PROVE  \A t \in Tokens : Redeeming(t)' = Redeeming(t) \ {w}
BY DEF Moved, Redeeming

\* Every step of a worker preserves the bound.
LEMMA RedeemStep ==
    ASSUME Basic, RedeemOK, NEW w \in Workers, Proceed(w) \/ Invoke(w)
    PROVE  RedeemOK'
<1>1. Moved(w)
  BY LocalStep
<1>2. ASSUME NEW t \in links, ResumeLookup(w, t), pc'[w] = "revoke" PROVE RedeemOK'
  <2>1. /\ pc[w] \in Returned /\ Live(t) /\ tok' = [tok EXCEPT ![w] = t] /\ t \in Tokens
        /\ tokens' = tokens /\ redeemed' = redeemed
    BY <1>2 DEF ResumeLookup, Error, Goto, stores, Basic, TypeOK
  <2>2. redeemed[t] = 0
    BY <2>1 DEF Live, RedeemOK, Unrevoked
  <2>3. \A u \in Tokens : u # t => Redeeming(u)' = Redeeming(u)
    BY <1>1, <2>1 DEF Moved, Redeeming, Basic, TypeOK, Returned
  <2>4. Redeeming(t)' \in SUBSET Workers
    BY DEF Redeeming
  <2>5. redeemed[t] + Cardinality(Redeeming(t)') <= Cardinality(Workers)
    BY <2>2, <2>4, RedeemingSize
  <2> QED
    BY <2>1, <2>3, <2>5 DEF RedeemOK, Unrevoked
<1>3. ASSUME ResumeRevoke(w), pc'[w] = "load" PROVE RedeemOK'
  <2>0. tok[w] \in Tokens
    BY <1>3 DEF ResumeRevoke, Basic, TypeOK, Shape
  <2> PICK t \in Tokens : t = tok[w]
    BY <2>0
  <2>1. /\ pc[w] = "revoke" /\ tok[w] = t /\ tokens[t] # None
        /\ tokens' = [tokens EXCEPT ![t].revoked = TRUE]
        /\ redeemed' = [redeemed EXCEPT ![t] = @ + 1]
    BY <1>3 DEF ResumeRevoke, Error, Goto, Basic, TypeOK, Shape
  <2>2. \A u \in Tokens : Redeeming(u)' = Redeeming(u) \ {w}
    BY <1>1, <1>3, NobodyJoins
  <2>3. w \in Redeeming(t) /\ Redeeming(t) \in SUBSET Workers
    BY <2>1 DEF Redeeming
  <2>4. Cardinality(Redeeming(t)') = Cardinality(Redeeming(t)) - 1
    BY <2>1, <2>2, <2>3, RedeemingSize
  <2>5. redeemed'[t] = redeemed[t] + 1 /\ redeemed[t] \in Nat
    BY <2>1 DEF Basic, TypeOK
  <2>6. ~Unrevoked(t)'
    <3>1. tokens[t] \in TokenRecord
      BY <2>1 DEF Basic, TypeOK
    <3>2. tokens'[t] = [tokens[t] EXCEPT !.revoked = TRUE]
      BY <2>1 DEF Basic, TypeOK
    <3>3. tokens'[t] \in TokenRecord /\ tokens'[t].revoked
      BY <3>1, <3>2 DEF TokenRecord
    <3> QED
      BY <3>3, ConstantsAssumption DEF Unrevoked
  <2>7. redeemed'[t] + Cardinality(Redeeming(t)') <= Cardinality(Workers)
    <3>1. Cardinality(Redeeming(t)) \in Nat /\ Cardinality(Workers) \in Nat
      BY <2>3, RedeemingSize
    <3>2. redeemed[t] + Cardinality(Redeeming(t)) <= Cardinality(Workers)
      BY <2>1 DEF RedeemOK
    <3> QED
      BY <2>4, <2>5, <3>1, <3>2
  <2>8. ASSUME NEW u \in Tokens, u # t
        PROVE  /\ redeemed'[u] = redeemed[u]
               /\ Unrevoked(u)' = Unrevoked(u)
               /\ Redeeming(u)' = Redeeming(u)
    <3>1. w \notin Redeeming(u)
      BY <2>8 DEF Redeeming
    <3> QED
      BY <2>1, <2>2, <2>8, <3>1 DEF Basic, TypeOK, Unrevoked
  <2>9. \A u \in Tokens :
           /\ Unrevoked(u)' => redeemed'[u] = 0
           /\ redeemed'[u] + Cardinality(Redeeming(u)') <= Cardinality(Workers)
    BY <2>6, <2>7, <2>8 DEF RedeemOK
  <2> QED
    BY <2>9 DEF RedeemOK
<1>4. ASSUME redeemed' = redeemed, pc'[w] # "revoke",
             \A t \in Tokens : Unrevoked(t)' => Unrevoked(t)
      PROVE  RedeemOK'
  BY <1>1, <1>4, NobodyJoins, RedeemQuiet
<1>5. CASE SaveTokenHash(w)
  <2>1. pc'[w] # "revoke" /\ redeemed' = redeemed
    BY <1>5, GotoStep, ErrorStep DEF SaveTokenHash, Basic, Labels
  <2>2. \A t \in Tokens : Unrevoked(t)' => Unrevoked(t)
    BY <1>5 DEF SaveTokenHash, Unrevoked, Basic, TypeOK
  <2> QED
    BY <1>4, <2>1, <2>2
<1>6. ASSUME ResumeRevoke(w), pc'[w] # "load" PROVE RedeemOK'
  <2>1. /\ Error(w) /\ redeemed' = redeemed
        /\ tokens' \in {tokens, [tokens EXCEPT ![tok[w]].revoked = TRUE]}
    BY <1>6, GotoStep DEF ResumeRevoke, Basic, Labels
  <2>2. pc'[w] # "revoke"
    BY <2>1, ErrorStep DEF Basic
  <2>3. \A t \in Tokens : Unrevoked(t)' => Unrevoked(t)
    <3>1. CASE tokens' = tokens
      BY <3>1 DEF Unrevoked
    <3>2. CASE tokens' = [tokens EXCEPT ![tok[w]].revoked = TRUE]
      <4>1. tok[w] \in Tokens /\ tokens[tok[w]] \in TokenRecord
        BY <1>6 DEF ResumeRevoke, Basic, TypeOK, Shape
      <4>2. \A t \in Tokens : t # tok[w] => tokens'[t] = tokens[t]
        BY <3>2, <4>1 DEF Basic, TypeOK
      <4>3. tokens'[tok[w]] = [tokens[tok[w]] EXCEPT !.revoked = TRUE]
        BY <3>2, <4>1 DEF Basic, TypeOK
      <4>4. tokens'[tok[w]] \in TokenRecord /\ tokens'[tok[w]].revoked
        BY <4>1, <4>3 DEF TokenRecord
      <4>5. \A t \in Tokens : t = tok[w] => tokens'[t] # None /\ tokens'[t].revoked
        BY <4>4, ConstantsAssumption
      <4> QED
        BY <4>2, <4>5 DEF Unrevoked
    <3> QED
      BY <2>1, <3>1, <3>2
  <2> QED
    BY <1>4, <2>1, <2>2, <2>3
<1>7. CASE tokens' = tokens /\ redeemed' = redeemed /\ pc'[w] # "revoke"
  BY <1>4, <1>7 DEF Unrevoked
<1>8. pc'[w] \in PlainLabels \/ SaveTokenHash(w) \/ ResumeRevoke(w)
         \/ \E t \in links : ResumeLookup(w, t)
  BY <1>1 DEF Moved
<1>9. ~SaveTokenHash(w) /\ ~ResumeRevoke(w) => tokens' = tokens /\ redeemed' = redeemed
  BY DEF Proceed, Invoke, Launch, SaveSession, Navigate, Fill, DetectState, SaveCheckpoint,
         Notify, ResumeLoad, ResumeDetect, Click, StartCheck, SubmitGate, ResumeLookup, stores
<1> QED
  BY <1>2, <1>3, <1>5, <1>6, <1>7, <1>8, <1>9, LabelFacts DEF PlainLabels

\* Every step preserves the bound.
LEMMA RedeemNext == Basic /\ RedeemOK /\ [Next]_vars => RedeemOK'
<1> SUFFICES ASSUME Basic, RedeemOK, [Next]_vars PROVE RedeemOK'
  OBVIOUS
<1>1. CASE Tick \/ Crash \/ UNCHANGED vars
  <2>1. /\ redeemed' = redeemed /\ tokens' = tokens
        /\ \A t \in Tokens : Redeeming(t)' \subseteq Redeeming(t)
    BY <1>1 DEF Tick, Crash, vars, stores, locals, Redeeming
  <2> QED
    BY <2>1, RedeemQuiet DEF Unrevoked
<1> QED
  BY <1>1, RedeemStep DEF Next

\* However often a link is followed, and whatever fails, its token is redeemed by
\* no more calls than there are workers (recovery.go:66-82).
THEOREM RedemptionBound == Spec => []RedemptionsBounded
<1>1. Init => RedeemOK
  <2> SUFFICES ASSUME Init PROVE RedeemOK
    OBVIOUS
  <2>1. \A t \in Tokens : redeemed[t] = 0 /\ Redeeming(t) = {}
    BY DEF Init, Redeeming
  <2>2. Cardinality({}) = 0 /\ Cardinality(Workers) \in Nat
    BY FS_EmptySet, RedeemingSize
  <2> QED
    BY <2>1, <2>2 DEF RedeemOK
<1>2. Basic /\ RedeemOK => RedemptionsBounded
  <2> SUFFICES ASSUME Basic, RedeemOK, NEW t \in Tokens
               PROVE  redeemed[t] <= Cardinality(Workers)
    BY DEF RedemptionsBounded
  <2>1. Redeeming(t) \in SUBSET Workers
    BY DEF Redeeming
  <2>2. Cardinality(Redeeming(t)) \in Nat /\ Cardinality(Workers) \in Nat
    BY <2>1, RedeemingSize
  <2> QED
    BY <2>2 DEF RedeemOK, Basic, TypeOK
<1> QED
  BY <1>1, <1>2, BasicInit, BasicNext, RedeemNext, PTL DEF Spec

-----------------------------------------------------------------------------
(* Completed sessions and checkpoints *)

HistoryGrows ==
    /\ checkpoints \subseteq checkpoints'
    /\ \A i \in Ids : clicked[i] = "confirmed" => clicked'[i] = "confirmed"

\* What a worker's new copy says was already true, or is true from this step.
CopyTruthful(w) ==
    sess'[w] # None =>
        /\ sess'[w].state = "COMPLETED" => clicked'[sess'[w].id] = "confirmed"
        /\ sess'[w].checkpointed => sess'[w].id \in checkpoints'

\* A copy that becomes anything but COMPLETED stays truthful.
LEMMA TruthBecomes ==
    ASSUME Basic, TruthOK, NEW w \in Workers, sess[w] # None, HistoryGrows,
           NEW state \in SessionStates \ {"COMPLETED"}, NEW label \in Labels,
           Becomes(w, state, label)
    PROVE  CopyTruthful(w)
<1>1. sess'[w].id \in Ids
  BY BecomesStep DEF Basic, Session
<1> QED
  BY <1>1, BecomesStep DEF Basic, TruthOK, Truthful, CopyTruthful, HistoryGrows

\* fail, expire, pauseForHuman and handleNonNormalState keep a copy truthful.
LEMMA TruthRouted ==
    ASSUME Basic, TruthOK, NEW w \in Workers, sess[w] # None, HistoryGrows,
           \/ Fail(w) \/ Expire(w) \/ Pause(w) \/ sess' = sess
           \/ \E state \in PageStates, next \in Labels : HandleState(w, state, next)
    PROVE  CopyTruthful(w)
<1>1. {"saveFailed", "saveExpired", "savePaused"} \subseteq Labels
  BY DEF Labels, SaveNext
<1>2. {"FAILED", "EXPIRED", "HUMAN_REQUIRED"} \subseteq SessionStates \ {"COMPLETED"}
  BY DEF SessionStates
<1>3. ASSUME Fail(w) \/ Expire(w) \/ Pause(w) PROVE CopyTruthful(w)
  BY <1>1, <1>2, <1>3, TruthBecomes DEF Fail, Expire, Pause
<1>4. ASSUME sess' = sess PROVE CopyTruthful(w)
  BY <1>4 DEF Basic, TypeOK, Session, TruthOK, Truthful, CopyTruthful, HistoryGrows
<1> QED
  BY <1>3, <1>4 DEF HandleState

\* Checkpoints are never deleted and a confirmation is never forgotten.
LEMMA HistoryStep ==
    ASSUME Basic, NEW w \in Workers, Proceed(w) \/ Invoke(w)
    PROVE  HistoryGrows
<1>1. CASE Click(w)
  BY <1>1 DEF Click, stores, HistoryGrows, Basic, TypeOK
<1>2. CASE ResumeRevoke(w)
  BY <1>2 DEF ResumeRevoke, HistoryGrows, Basic, TypeOK
<1>3. CASE SaveCheckpoint(w)
  BY <1>3 DEF SaveCheckpoint, HistoryGrows
<1>4. ASSUME ~(Click(w) \/ ResumeRevoke(w) \/ SaveCheckpoint(w))
      PROVE  checkpoints' = checkpoints /\ clicked' = clicked
  BY <1>4 DEF Proceed, Invoke, Launch, SaveSession, Navigate, Fill, DetectState,
     SaveTokenHash, Notify, ResumeLoad, ResumeDetect, StartCheck, SubmitGate,
     ResumeLookup, stores
<1> QED
  BY <1>1, <1>2, <1>3, <1>4 DEF HistoryGrows

\* The copy a step leaves with its worker is truthful.
LEMMA TruthStep ==
    ASSUME Basic, TruthOK, NEW w \in Workers, Proceed(w) \/ Invoke(w)
    PROVE  CopyTruthful(w)
<1>h. HistoryGrows
  BY HistoryStep
<1>a. pc[w] \in CarriesSession => sess[w] # None
  BY DEF Basic, Shape
<1>b. Observable \subseteq PageStates
  BY DEF Observable
<1>c. {"saveRunning", "saveLaunchFailed", "fill", "saveResumed", "saveSubmitting",
       "saveCompleted", "checkpoint"} \subseteq Labels
  BY DEF Labels, SaveNext
<1>d. {"RUNNING", "FAILED", "RESUMED"} \subseteq SessionStates \ {"COMPLETED"}
  BY DEF SessionStates
<1>e. Error(w) => CopyTruthful(w)
  BY ErrorStep DEF Basic, CopyTruthful
<1>f. {"launch", "navigate", "detect", "fill", "resumeDetect", "ready_for_review",
       "click", "checkpoint"} \subseteq CarriesSession
  BY DEF CarriesSession, PreSaved
<1>g. sess' = sess => CopyTruthful(w)
  BY <1>h DEF Basic, TypeOK, Session, TruthOK, Truthful, CopyTruthful, HistoryGrows
<1>1. CASE Launch(w)
  BY <1>1, <1>a, <1>c, <1>d, <1>f, <1>h, TruthBecomes DEF Launch
<1>2. CASE SaveSession(w) \/ SaveTokenHash(w) \/ Notify(w) \/ ResumeRevoke(w)
  BY <1>2, <1>e, <1>g DEF SaveSession, SaveTokenHash, Notify, ResumeRevoke
<1>3. CASE Navigate(w) \/ DetectState(w) \/ Fill(w)
  BY <1>3, <1>a, <1>b, <1>c, <1>f, <1>h, TruthRouted DEF Navigate, DetectState, Fill
<1>4. CASE SaveCheckpoint(w)
  <2>1. sess[w] # None /\ sess[w] \in Session
    BY <1>4, <1>a, <1>f DEF SaveCheckpoint, Basic, TypeOK
  <2>2. ASSUME ~Error(w) PROVE CopyTruthful(w)
    <3>1. /\ sess' = [sess EXCEPT ![w].checkpointed = TRUE]
          /\ checkpoints' = checkpoints \cup {sess[w].id}
          /\ clicked' = clicked
      BY <1>4, <2>2 DEF SaveCheckpoint
    <3>2. sess'[w] = [sess[w] EXCEPT !.checkpointed = TRUE]
      BY <3>1 DEF Basic, TypeOK
    <3>3. sess'[w].id = sess[w].id /\ sess'[w].state = sess[w].state
      BY <2>1, <3>2 DEF Session
    <3> QED
      BY <2>1, <3>1, <3>3 DEF CopyTruthful, TruthOK, Truthful
  <2> QED
    BY <1>e, <2>2
<1>5. CASE ResumeLoad(w)
  <2> DEFINE s == sessions[tokens[tok[w]].session]
             s2 == IF IsExpired(s) THEN [s EXCEPT !.state = "EXPIRED"] ELSE s
  <2>1. s \in Session /\ s # None /\ sessions[s.id] = s /\ s.id \in Ids
    BY <1>5 DEF ResumeLoad, Basic, Shape, StoreOK, TypeOK, TokenRecord, Session
  <2>2. s2.id = s.id /\ s2.checkpointed = s.checkpointed /\ s2.state \in {s.state, "EXPIRED"}
    BY <2>1 DEF Session
  <2>3. Error(w) \/ sess' = [sess EXCEPT ![w] = s2]
    BY <1>5 DEF ResumeLoad
  <2>4. checkpoints' = checkpoints /\ clicked' = clicked
    BY <1>5 DEF ResumeLoad, stores
  <2>5. Truthful(s)
    BY <2>1 DEF TruthOK
  <2> HIDE DEF s, s2
  <2>6. ASSUME sess' = [sess EXCEPT ![w] = s2] PROVE CopyTruthful(w)
    <3>1. sess'[w] = s2
      BY <2>6 DEF Basic, TypeOK
    <3> QED
      BY <2>2, <2>4, <2>5, <3>1 DEF CopyTruthful, Truthful
  <2> QED
    BY <2>3, <2>6, <1>e
<1>6. CASE ResumeDetect(w)
  BY <1>6, <1>a, <1>c, <1>d, <1>f, <1>h, TruthBecomes, TruthRouted DEF ResumeDetect
<1>7. CASE Click(w)
  <2>1. sess[w] # None /\ sess[w].id \in Ids
    BY <1>7, <1>a, <1>f DEF Click, Basic, TypeOK, Session
  <2>2. ASSUME Becomes(w, "COMPLETED", "saveCompleted"),
               clicked' = [clicked EXCEPT ![sess[w].id] = "confirmed"]
        PROVE  CopyTruthful(w)
    <3>1. "COMPLETED" \in SessionStates
      BY DEF SessionStates
    <3> QED
      BY <1>c, <1>h, <2>1, <2>2, <3>1, BecomesStep
         DEF Basic, TypeOK, CopyTruthful, TruthOK, Truthful, HistoryGrows
  <2> QED
    BY <1>7, <1>h, <2>1, <2>2, TruthRouted DEF Click
<1>8. CASE StartCheck(w)
  <2>1. ASSUME NEW i \in Ids,
               sess' = [sess EXCEPT ![w] =
                           [id |-> i, state |-> "STARTING", startedAt |-> now,
                            expiresAt |-> now + MaxSessionMinutes,
                            checkpointed |-> FALSE]]
        PROVE  CopyTruthful(w)
    BY <2>1 DEF CopyTruthful, Basic, TypeOK
  <2> QED
    BY <1>8, <1>e, <2>1 DEF StartCheck
<1>9. CASE SubmitGate(w)
  BY <1>9, <1>a, <1>c, <1>d, <1>e, <1>f, <1>h, TruthBecomes, TruthRouted DEF SubmitGate
<1>10. ASSUME NEW t \in links, ResumeLookup(w, t) PROVE CopyTruthful(w)
  BY <1>10, <1>e DEF ResumeLookup, CopyTruthful, Basic, TypeOK
<1> QED
  BY <1>1, <1>2, <1>3, <1>4, <1>5, <1>6, <1>7, <1>8, <1>9, <1>10 DEF Proceed, Invoke

\* Every step preserves the truth of records and copies.
LEMMA TruthNext == Basic /\ TruthOK /\ [Next]_vars => TruthOK'
<1> SUFFICES ASSUME Basic, TruthOK, [Next]_vars PROVE TruthOK'
  OBVIOUS
<1>1. CASE Tick \/ Crash \/ UNCHANGED vars
  BY <1>1 DEF Tick, Crash, vars, stores, locals, TruthOK, Truthful
<1>2. ASSUME NEW w \in Workers, Proceed(w) \/ Invoke(w) PROVE TruthOK'
  <2>1. Moved(w) /\ Effect(w) /\ HistoryGrows /\ CopyTruthful(w)
    BY <1>2, LocalStep, EffectStep, HistoryStep, TruthStep
  <2>2. ASSUME NEW i \in Ids, sessions'[i] # None PROVE Truthful(sessions[i])'
    <3>1. \/ sessions'[i] = sessions[i]
          \/ sess[w] # None /\ i = sess[w].id /\ sessions'[i] = sess[w]
      BY <2>1, SessionsGrow
    <3>2. PICK s : s # None /\ s = sessions'[i] /\ Truthful(s) /\ s.id = i
      BY <2>2, <3>1 DEF Basic, StoreOK, TruthOK
    <3> QED
      BY <2>1, <3>2 DEF Truthful, HistoryGrows
  <2>3. ASSUME NEW v \in Workers, sess'[v] # None PROVE Truthful(sess[v])'
    <3>1. CASE v = w
      BY <2>1, <2>3, <3>1 DEF CopyTruthful, Truthful
    <3>2. CASE v # w
      <4>1. sess'[v] = sess[v] /\ sess[v].id \in Ids
        BY <2>1, <2>3, <3>2 DEF Moved, Basic, TypeOK, Session
      <4> QED
        BY <2>1, <2>3, <4>1 DEF Truthful, TruthOK, HistoryGrows
    <3> QED
      BY <3>1, <3>2
  <2> QED
    BY <2>2, <2>3 DEF TruthOK
<1> QED
  BY <1>1, <1>2 DEF Next

\* Records and copies are truthful in every reachable state.
LEMMA TruthInvariant == Spec => [](Basic /\ TruthOK)
<1>1. Init => TruthOK
  BY DEF Init, TruthOK
<1> QED
  BY <1>1, BasicInit, BasicNext, TruthNext, PTL DEF Spec

\* No path of handoffs and retries completes a session without the driver's
\* confirmation.
THEOREM CompletedConfirmed == Spec => []CompletedIsConfirmed
<1>1. Basic /\ TruthOK => CompletedIsConfirmed
  BY DEF Basic, StoreOK, TruthOK, Truthful, CompletedIsConfirmed
<1> QED
  BY <1>1, TruthInvariant, PTL

\* A record that names a last checkpoint is backed by a stored checkpoint.
THEOREM CheckpointsRecorded == Spec => []CheckpointRecorded
<1>1. Basic /\ TruthOK => CheckpointRecorded
  BY DEF Basic, StoreOK, TruthOK, Truthful, CheckpointRecorded
<1> QED
  BY <1>1, TruthInvariant, PTL
-----------------------------------------------------------------------------
(* How long a call may take *)

\* What StepsLeft says of each place.
LEMMA StepsLeftFacts ==
    /\ \A l \in Labels : StepsLeft[l] \in 0..9
    /\ \A l \in Returned : StepsLeft[l] = 0
    /\ \A l \in {"saveLaunchFailed", "saveFailed", "saveExpired", "saveCompleted",
                 "saveCheckpointed", "notify"} : StepsLeft[l] = 1
    /\ StepsLeft["token"] = 2 /\ StepsLeft["checkpoint"] = 2
    /\ StepsLeft["savePaused"] = 3
    /\ StepsLeft["detect"] = 4 /\ StepsLeft["click"] = 4
    /\ StepsLeft["fill"] = 5 /\ StepsLeft["saveSubmitting"] = 5
    /\ StepsLeft["navigate"] = 6 /\ StepsLeft["saveResumed"] = 6
    /\ StepsLeft["saveRunning"] = 7 /\ StepsLeft["resumeDetect"] = 7
    /\ StepsLeft["launch"] = 8 /\ StepsLeft["load"] = 8
    /\ StepsLeft["revoke"] = 9
<1>1. Labels = Returned \cup
          {"saveLaunchFailed", "saveFailed", "saveExpired", "saveCompleted",
           "saveCheckpointed", "notify", "token", "checkpoint", "savePaused",
           "detect", "click", "fill", "saveSubmitting", "navigate", "saveResumed",
           "saveRunning", "resumeDetect", "launch", "load", "revoke"}
  BY DEF Labels, SaveNext
<1> QED
  BY <1>1 DEF StepsLeft, Returned

\* A save leads on to what is shorter, or returns an error.
LEMMA SaveShortens ==
    \A l \in DOMAIN SaveNext : StepsLeft[SaveNext[l]] < StepsLeft[l]
BY StepsLeftFacts DEF SaveNext, Returned

\* Wherever a page state leads to.
LEMMA HandleShortens ==
    ASSUME TypeOK, NEW w \in Workers, NEW next \in Labels, StepsLeft[next] < StepsLeft[pc[w]],
           3 < StepsLeft[pc[w]], StepsLeft[pc[w]] \in Nat,
           \/ Fail(w) \/ Expire(w) \/ Pause(w)
           \/ \E state \in PageStates : HandleState(w, state, next)
    PROVE  StepsLeft[pc'[w]] < StepsLeft[pc[w]]
<1>1. pc'[w] \in {"saveFailed", "saveExpired", "savePaused", next}
  BY DEF TypeOK, HandleState, Fail, Expire, Pause, Becomes, Goto
<1> QED
  BY <1>1, StepsLeftFacts

\* The steps of a call, one by one.
LEMMA StepShortens ==
    ASSUME TypeOK, NEW w \in Workers, Proceed(w)
    PROVE  StepsLeft[pc'[w]] < StepsLeft[pc[w]]
<1>1. /\ Error(w) => StepsLeft[pc'[w]] = 0
      /\ \A l \in Labels : Goto(w, l) => pc'[w] = l
      /\ "error" \in Returned
  BY StepsLeftFacts, GotoStep, ErrorStep DEF Returned
<1>2. Observable \subseteq PageStates
  BY DEF Observable
<1>3. CASE SaveSession(w)
  <2>1. pc[w] \in DOMAIN SaveNext /\ pc[w] \in Labels /\ SaveNext[pc[w]] \in Labels
    BY <1>3, LabelFacts DEF SaveSession, TypeOK
  <2>2. 0 < StepsLeft[pc[w]]
    BY <2>1, StepsLeftFacts DEF SaveNext
  <2> QED
    BY <1>1, <1>3, <2>1, <2>2, SaveShortens DEF SaveSession
<1>4. CASE Launch(w)
  BY <1>4, StepsLeftFacts DEF Launch, Becomes, Goto, TypeOK
<1>5. CASE Navigate(w)
  <2>1. "fill" \in Labels /\ pc[w] = "navigate"
    BY <1>5 DEF Navigate, Labels
  <2>2. Fail(w) \/ Expire(w) \/ \E state \in PageStates : HandleState(w, state, "fill")
    BY <1>2, <1>5 DEF Navigate
  <2> QED
    BY <2>1, <2>2, HandleShortens, StepsLeftFacts
<1>6. CASE Fill(w)
  BY <1>6, StepsLeftFacts DEF Fill, Fail, Becomes, Goto, TypeOK
<1>7. CASE DetectState(w)
  <2>1. "checkpoint" \in Labels /\ pc[w] = "detect"
    BY <1>7 DEF DetectState, Labels
  <2>2. Fail(w) \/ \E state \in PageStates : HandleState(w, state, "checkpoint")
    BY <1>2, <1>7 DEF DetectState
  <2> QED
    BY <2>1, <2>2, HandleShortens, StepsLeftFacts
<1>8. CASE SaveCheckpoint(w)
  BY <1>1, <1>8, StepsLeftFacts DEF SaveCheckpoint, Goto, TypeOK
<1>9. CASE SaveTokenHash(w) \/ Notify(w)
  BY <1>1, <1>9, StepsLeftFacts DEF SaveTokenHash, Notify, Goto, TypeOK, Returned
<1>10. CASE ResumeRevoke(w)
  BY <1>1, <1>10, StepsLeftFacts DEF ResumeRevoke, Goto, TypeOK
<1>11. CASE ResumeLoad(w)
  <2>1. pc'[w] \in {"error", "saveExpired", "resumeDetect"}
    BY <1>11 DEF ResumeLoad, Error, Goto, TypeOK
  <2>2. pc[w] = "load"
    BY <1>11 DEF ResumeLoad
  <2> QED
    BY <1>1, <2>1, <2>2, StepsLeftFacts
<1>12. CASE ResumeDetect(w)
  BY <1>12, StepsLeftFacts DEF ResumeDetect, Fail, Pause, Becomes, Goto, TypeOK
<1>13. CASE Click(w)
  BY <1>13, StepsLeftFacts DEF Click, Pause, Becomes, Goto, TypeOK
<1> QED
  BY <1>3, <1>4, <1>5, <1>6, <1>7, <1>8, <1>9, <1>10, <1>11, <1>12, <1>13 DEF Proceed

\* Only a new call makes a caller's way longer.
LEMMA OnlyCallsLengthen ==
    ASSUME Basic, [Next]_vars, NEW v \in Workers,
           StepsLeft[pc'[v]] > StepsLeft[pc[v]]
    PROVE  Invoke(v)
<1>1. pc[v] \in Labels /\ StepsLeft[pc[v]] \in Nat /\ pc'[v] # pc[v]
  BY StepsLeftFacts DEF Basic, TypeOK
<1>2. ~Tick /\ ~UNCHANGED vars
  BY <1>1 DEF Tick, vars, locals
<1>3. ~Crash
  <2>1. Crash => StepsLeft[pc'[v]] = 0
    BY StepsLeftFacts DEF Crash, Returned
  <2> QED
    BY <1>1, <2>1
<1>4. PICK w \in Workers : Proceed(w) \/ Invoke(w)
  BY <1>2, <1>3 DEF Next
<1>5. v = w
  BY <1>1, <1>4, LocalStep DEF Moved
<1>6. ~Proceed(v)
  <2>1. pc'[v] \in Labels
    BY <1>4, LocalStep DEF Moved
  <2>2. StepsLeft[pc'[v]] \in Nat
    BY <2>1, StepsLeftFacts
  <2> QED
    BY <1>1, <2>2, StepShortens DEF Basic
<1> QED
  BY <1>4, <1>5, <1>6

\* Every step of a call brings its return closer, and only a new call puts it
\* off, for every number of callers, sessions and links: no call is longer than
\* the ten steps of a resumption (runner.go:94-391, recovery.go:66-82).
THEOREM CallsShorten == Spec => CallsGetShorter
<1>1. Basic /\ [Next]_vars =>
          [\A w \in Workers :
              /\ Proceed(w) => StepsLeft[pc'[w]] < StepsLeft[pc[w]]
              /\ StepsLeft[pc'[w]] > StepsLeft[pc[w]] => Invoke(w)]_vars
  BY StepShortens, OnlyCallsLengthen DEF Basic
<1> QED
  BY <1>1, BasicInit, BasicNext, PTL DEF Spec, CallsGetShorter
=============================================================================
