-------------------------- MODULE SingleCallerProofs --------------------------
(* What the browser runner keeps to as long as its callers take turns: one   *)
(* call at a time, as in a single worker that drives sessions one after the  *)
(* other.  The process may still end anywhere and every call may fail.       *)
EXTENDS BrowserRunnerProofs

OneCaller == \A v, w \in Workers : v = w

\* Places where a call is about to save or to act for its session: nobody else
\* can get at that session.
Owning == CarriesSession \ {"notify"}

\* Places on the way to a submission, before the click.
Clean == {"launch", "saveRunning", "navigate", "fill", "detect", "checkpoint",
          "saveCheckpointed", "ready_for_review", "saveSubmitting", "click",
          "resumeDetect", "saveResumed"}

FinalSaves == {"saveLaunchFailed", "saveFailed", "saveExpired", "saveCompleted"}

Pausing == {"savePaused", "token"}

\* No link to the session works any more, or yet.
NoLive(i) ==
    \A t \in Tokens : tokens[t] # None /\ tokens[t].session = i => tokens[t].revoked

NotFinal(i) == sessions[i] # None => sessions[i].state \notin Terminal

\* What holds of the stores whatever a call is doing.
StoresCalm ==
    /\ \A i \in Ids : sessions[i] = None => clicked[i] = "none"
    /\ LiveLinkIsPaused
    /\ \A i \in Ids : clicked[i] = "confirmed" => NoLive(i)
    /\ \A t, u \in Tokens :
          /\ tokens[t] # None /\ ~tokens[t].revoked
          /\ tokens[u] # None /\ ~tokens[u].revoked
          /\ tokens[t].session = tokens[u].session
          => t = u

\* What holds of the session a call works on, by the place it has reached.
Calm(w) ==
    /\ pc[w] \in Owning => NoLive(sess[w].id) /\ NotFinal(sess[w].id)
    /\ pc[w] \in Clean => clicked[sess[w].id] = "none"
    /\ pc[w] \in Clean => sess[w].state \notin Terminal
    /\ pc[w] \in Pausing => clicked[sess[w].id] # "confirmed"
    /\ pc[w] = "savePaused" => sess[w].state = "HUMAN_REQUIRED"
    /\ pc[w] = "token" => sessions[sess[w].id].state = "HUMAN_REQUIRED"
    /\ pc[w] = "revoke" => ~tokens[tok[w]].revoked
    /\ pc[w] = "load" => /\ NoLive(tokens[tok[w]].session)
                         /\ NotFinal(tokens[tok[w]].session)
                         /\ clicked[tokens[tok[w]].session] = "none"

\* The inductive invariant, on top of Basic.
Turns == StoresCalm /\ \A w \in Workers : Calm(w)
-----------------------------------------------------------------------------

\* The places are told apart.
LEMMA PlaceFacts ==
    /\ Owning = Clean \cup FinalSaves \cup Pausing
    /\ Owning \subseteq CarriesSession
    /\ Clean \cap (FinalSaves \cup Pausing) = {}
    /\ FinalSaves \cap Pausing = {}
    /\ Clean \cup FinalSaves \cup Pausing \subseteq PlainLabels
    /\ Owning \cap {"revoke", "load", "error", "idle", "notify", "human_required"} = {}
BY DEF Owning, Clean, FinalSaves, Pausing, CarriesSession, PreSaved, SaveNext,
       PlainLabels, Labels, Returned

\* Where a step may take a call that has not clicked yet.
Turned(w) ==
    \/ pc'[w] \notin Owning \cup {"revoke", "load"}
    \/ /\ sess'[w].id = sess[w].id
       /\ \/ pc'[w] = "savePaused" /\ sess'[w].state = "HUMAN_REQUIRED"
          \/ pc'[w] \in FinalSaves
          \/ pc'[w] \in Clean /\ sess'[w].state \notin Terminal

\* An error return leaves nothing to take care of.
LEMMA TurnedError ==
    ASSUME TypeOK, NEW w \in Workers, Error(w)
    PROVE  Turned(w)
BY ErrorStep, PlaceFacts DEF Turned

\* Becoming HUMAN_REQUIRED, about to be finished, or still open.
LEMMA TurnedBecomes ==
    ASSUME TypeOK, NEW w \in Workers, sess[w] # None,
           NEW state \in SessionStates, NEW label \in PlainLabels,
           Becomes(w, state, label),
           \/ label = "savePaused" /\ state = "HUMAN_REQUIRED"
           \/ label \in FinalSaves
           \/ label \in Clean /\ state \notin Terminal
    PROVE  Turned(w)
<1>1. label \in Labels
  BY DEF PlainLabels
<1> QED
  BY <1>1, BecomesStep DEF Turned

\* fail, expire, pauseForHuman and handleNonNormalState.
LEMMA TurnedRouted ==
    ASSUME TypeOK, NEW w \in Workers, sess[w] # None, sess[w].state \notin Terminal,
           \/ Fail(w) \/ Expire(w) \/ Pause(w)
           \/ \E state \in PageStates, next \in Clean : HandleState(w, state, next)
    PROVE  Turned(w)
<1>1. {"saveFailed", "saveExpired", "savePaused"} \subseteq PlainLabels
  BY DEF PlainLabels, Labels, SaveNext
<1>2. {"FAILED", "EXPIRED", "HUMAN_REQUIRED"} \subseteq SessionStates
  BY DEF SessionStates
<1>3. {"saveFailed", "saveExpired"} \subseteq FinalSaves
  BY DEF FinalSaves
<1>4. ASSUME Fail(w) \/ Expire(w) \/ Pause(w) PROVE Turned(w)
  BY <1>1, <1>2, <1>3, <1>4, TurnedBecomes DEF Fail, Expire, Pause
<1>5. ASSUME NEW next \in Clean, Goto(w, next), sess' = sess PROVE Turned(w)
  BY <1>5, PlaceFacts, LabelFacts, GotoStep DEF Turned
<1> QED
  BY <1>4, <1>5 DEF HandleState

\* Driver calls, the checkpoint and the gate turn a call and change no record.
LEMMA TurnedStep ==
    ASSUME Basic, NEW w \in Workers, Calm(w),
           \/ Launch(w) \/ Navigate(w) \/ Fill(w) \/ DetectState(w)
           \/ SaveCheckpoint(w) \/ ResumeDetect(w) \/ SubmitGate(w)
    PROVE  /\ pc[w] \in Clean
           /\ Turned(w)
           /\ UNCHANGED <<sessions, tokens, clicked>>
<1> USE DEF Basic
<1>1. pc[w] \in Clean /\ UNCHANGED <<sessions, tokens, clicked>>
  BY DEF Launch, Navigate, Fill, DetectState, SaveCheckpoint, ResumeDetect,
         SubmitGate, stores, Clean
<1>0. SUFFICES Turned(w)
  BY <1>1
<1>2. sess[w] # None /\ sess[w] \in Session /\ sess[w].state \notin Terminal
  BY <1>1, PlaceFacts DEF Shape, Calm, TypeOK
<1>a. {"saveRunning", "fill", "detect", "checkpoint", "saveCheckpointed",
       "saveResumed", "saveSubmitting"} \subseteq Clean
      /\ "saveLaunchFailed" \in FinalSaves
  BY DEF Clean, FinalSaves
<1>b. Observable \subseteq PageStates
  BY DEF Observable
<1>c. {"RUNNING", "RESUMED", "FAILED"} \subseteq SessionStates
      /\ {"RUNNING", "RESUMED"} \cap Terminal = {}
  BY DEF SessionStates, Terminal
<1>d. Clean \cup FinalSaves \subseteq PlainLabels
  BY PlaceFacts
<1>3. CASE Launch(w)
  BY <1>3, <1>2, <1>a, <1>c, <1>d, TurnedBecomes DEF Launch
<1>4. CASE Navigate(w)
  BY <1>4, <1>2, <1>a, <1>b, TurnedRouted DEF Navigate
<1>5. CASE Fill(w)
  <2>1. ASSUME Goto(w, "detect"), sess' = sess PROVE Turned(w)
    BY <1>2, <1>a, <1>d, <2>1, GotoStep, LabelFacts DEF Turned
  <2> QED
    BY <1>5, <1>2, <2>1, TurnedRouted DEF Fill
<1>6. CASE DetectState(w)
  BY <1>6, <1>2, <1>a, <1>b, TurnedRouted DEF DetectState
<1>7. CASE SaveCheckpoint(w)
  <2>1. ASSUME sess' = [sess EXCEPT ![w].checkpointed = TRUE], Goto(w, "saveCheckpointed")
        PROVE  Turned(w)
    <3>1. sess'[w] = [sess[w] EXCEPT !.checkpointed = TRUE]
      BY <2>1 DEF TypeOK
    <3>2. sess'[w].id = sess[w].id /\ sess'[w].state = sess[w].state
      BY <1>2, <3>1 DEF Session
    <3>3. pc'[w] = "saveCheckpointed"
      BY <2>1, <1>a, <1>d, LabelFacts, GotoStep
    <3> QED
      BY <1>2, <1>a, <3>2, <3>3 DEF Turned
  <2> QED
    BY <1>7, <2>1, TurnedError DEF SaveCheckpoint
<1>8. CASE ResumeDetect(w)
  BY <1>8, <1>2, <1>a, <1>c, <1>d, TurnedBecomes, TurnedRouted DEF ResumeDetect
<1>9. CASE SubmitGate(w)
  BY <1>9, <1>2, <1>a, <1>c, <1>d, TurnedBecomes, TurnedRouted, TurnedError DEF SubmitGate
<1> QED
  BY <1>3, <1>4, <1>5, <1>6, <1>7, <1>8, <1>9

\* What was calm stays so when a call turns.
LEMMA TurnedCalm ==
    ASSUME NEW w \in Workers, Calm(w), pc[w] \in Clean, Turned(w),
           UNCHANGED <<sessions, tokens, clicked>>
    PROVE  Calm(w)'
<1>1. CASE pc'[w] \notin Owning \cup {"revoke", "load"}
  BY <1>1, PlaceFacts DEF Calm, Pausing
<1>2. CASE sess'[w].id = sess[w].id /\ pc'[w] = "savePaused" /\ sess'[w].state = "HUMAN_REQUIRED"
  BY <1>2, PlaceFacts DEF Calm, NoLive, NotFinal, Pausing
<1>3. CASE sess'[w].id = sess[w].id /\ pc'[w] \in FinalSaves
  BY <1>3, PlaceFacts DEF Calm, NoLive, NotFinal, Pausing
<1>4. CASE sess'[w].id = sess[w].id /\ pc'[w] \in Clean /\ sess'[w].state \notin Terminal
  BY <1>4, PlaceFacts DEF Calm, NoLive, NotFinal, Pausing
<1> QED
  BY <1>1, <1>2, <1>3, <1>4 DEF Turned
-----------------------------------------------------------------------------

\* Steps that write no record leave the stores calm.
LEMMA StoresKept ==
    ASSUME StoresCalm, UNCHANGED <<sessions, tokens, clicked>>
    PROVE  StoresCalm'
BY DEF StoresCalm, LiveLinkIsPaused, NoLive

\* Outside the places that own a session nothing needs to hold.
LEMMA CalmElsewhere ==
    ASSUME NEW w \in Workers, pc'[w] \notin Owning \cup {"revoke", "load"}
    PROVE  Calm(w)'
BY PlaceFacts DEF Calm, Pausing

\* An error return ends the call.
LEMMA CalmError ==
    ASSUME TypeOK, NEW w \in Workers, Error(w)
    PROVE  Calm(w)'
BY ErrorStep, PlaceFacts, CalmElsewhere

\* A new session has no record, so no token and no click.
LEMMA StartCalm ==
    ASSUME Basic, StoresCalm, NEW w \in Workers, StartCheck(w)
    PROVE  StoresCalm' /\ Calm(w)'
<1> USE DEF Basic
<1>1. UNCHANGED <<sessions, tokens, clicked>>
  BY DEF StartCheck, stores
<1>2. ASSUME NEW i \in Ids, FreshId(i), Goto(w, "launch"),
             sess' = [sess EXCEPT ![w] =
                        [id |-> i, state |-> "STARTING", startedAt |-> now,
                         expiresAt |-> now + MaxSessionMinutes,
                         checkpointed |-> FALSE]]
      PROVE  Calm(w)'
  <2>1. sess'[w].id = i /\ sess'[w].state = "STARTING"
    BY <1>2 DEF TypeOK
  <2>2. pc'[w] = "launch"
    BY <1>2 DEF TypeOK, Goto
  <2>3. sessions[i] = None /\ clicked[i] = "none"
    BY <1>2 DEF FreshId, StoresCalm
  <2>4. NoLive(i) /\ NotFinal(i)
    BY <2>3 DEF NoLive, NotFinal, StoreOK
  <2>5. "launch" \in Clean /\ "STARTING" \notin Terminal
    BY DEF Clean, Terminal
  <2> QED
    BY <1>1, <2>1, <2>2, <2>3, <2>4, <2>5, PlaceFacts
       DEF Calm, NoLive, NotFinal, Pausing
<1> QED
  BY <1>1, <1>2, StoresKept, CalmError DEF StartCheck

\* A link that is found is one that still works.
LEMMA LookupCalm ==
    ASSUME Basic, StoresCalm, NEW w \in Workers, NEW t \in links, ResumeLookup(w, t)
    PROVE  StoresCalm' /\ Calm(w)'
<1> USE DEF Basic
<1>1. UNCHANGED <<sessions, tokens, clicked>>
  BY DEF ResumeLookup, stores
<1>2. ASSUME Live(t), tok' = [tok EXCEPT ![w] = t], Goto(w, "revoke") PROVE Calm(w)'
  <2>1. pc'[w] = "revoke" /\ tok'[w] = t /\ ~tokens[t].revoked
    BY <1>2 DEF TypeOK, Goto, Live
  <2> QED
    BY <1>1, <2>1, PlaceFacts DEF Calm, Pausing
<1> QED
  BY <1>1, <1>2, StoresKept, CalmError DEF ResumeLookup

\* A save touches no session that a link leads to, and ends no session that a
\* call goes on with.
LEMMA SaveCalm ==
    ASSUME Basic, StoresCalm, NEW w \in Workers, Calm(w), SaveSession(w)
    PROVE  StoresCalm' /\ Calm(w)'
<1> USE DEF Basic
<1>1. pc[w] \in Owning /\ pc[w] \in DOMAIN SaveNext
  BY DEF SaveSession, Owning, CarriesSession, SaveNext
<1>2. sess[w] \in Session /\ sess[w] # None /\ sess[w].id \in Ids
  BY <1>1, PlaceFacts DEF Shape, TypeOK, Session
<1>3. NoLive(sess[w].id)
  BY <1>1 DEF Calm
<1>4. UNCHANGED <<tokens, clicked>>
  BY DEF SaveSession
<1>5. \A j \in Ids :
         \/ sessions'[j] = sessions[j]
         \/ j = sess[w].id /\ sessions'[j] = sess[w]
  <2>1. sessions' = sessions \/ sessions' = [sessions EXCEPT ![sess[w].id] = sess[w]]
    BY DEF SaveSession
  <2> QED
    BY <1>2, <2>1 DEF TypeOK
<1>6. \A t \in Tokens : tokens[t] # None => tokens[t].session \in Ids
  BY DEF TypeOK, TokenRecord
<1>7. StoresCalm'
  BY <1>2, <1>3, <1>4, <1>5, <1>6 DEF StoresCalm, LiveLinkIsPaused, NoLive
<1>8. ASSUME sessions' = [sessions EXCEPT ![sess[w].id] = sess[w]],
             Goto(w, SaveNext[pc[w]]), sess' = sess
      PROVE  Calm(w)'
  <2>1. pc'[w] = SaveNext[pc[w]] /\ sessions'[sess[w].id] = sess[w]
    BY <1>2, <1>8 DEF Goto, TypeOK
  <2>2. CASE pc[w] = "savePaused"
    <3>1. pc'[w] = "token" /\ sess[w].state = "HUMAN_REQUIRED"
          /\ clicked[sess[w].id] # "confirmed" /\ "HUMAN_REQUIRED" \notin Terminal
      BY <2>1, <2>2 DEF SaveNext, Calm, Pausing, Terminal
    <3> QED
      BY <1>3, <1>4, <1>8, <2>1, <3>1, PlaceFacts DEF Calm, NoLive, NotFinal, Pausing
  <2>3. CASE pc[w] \in Clean
    <3>1. pc'[w] \in Clean
      BY <1>1, <2>1, <2>3 DEF SaveNext, Clean
    <3>2. clicked[sess[w].id] = "none" /\ sess[w].state \notin Terminal
      BY <2>3 DEF Calm
    <3> QED
      BY <1>3, <1>4, <1>8, <2>1, <3>1, <3>2, PlaceFacts DEF Calm, NoLive, NotFinal, Pausing
  <2>4. CASE pc[w] \in FinalSaves
    <3>1. pc'[w] \notin Owning \cup {"revoke", "load"}
      BY <1>1, <2>1, <2>4, PlaceFacts DEF SaveNext, FinalSaves, Clean, Pausing
    <3> QED
      BY <3>1, CalmElsewhere
  <2>5. pc[w] # "token"
    BY <1>1 DEF SaveNext
  <2> QED
    BY <1>1, <2>2, <2>3, <2>4, <2>5, PlaceFacts DEF Pausing
<1> QED
  BY <1>7, <1>8, CalmError DEF SaveSession

\* The one link to a session is created when it waits for a human.
LEMMA TokenCalm ==
    ASSUME Basic, StoresCalm, NEW w \in Workers, Calm(w), SaveTokenHash(w)
    PROVE  StoresCalm' /\ Calm(w)'
<1> USE DEF Basic
<1>1. pc[w] = "token" /\ UNCHANGED <<sessions, clicked>>
  BY DEF SaveTokenHash
<1>2. pc[w] \in CarriesSession /\ pc[w] \in Owning /\ pc[w] \in Pausing /\ pc[w] \notin PreSaved
  BY <1>1 DEF CarriesSession, PreSaved, SaveNext, Owning, Pausing
<1>3. sess[w] # None /\ sess[w].id \in Ids /\ sessions[sess[w].id] # None
  BY <1>2 DEF Shape, CopiesOK, TypeOK, Session
<1>4. /\ NoLive(sess[w].id) /\ clicked[sess[w].id] # "confirmed"
      /\ sessions[sess[w].id].state = "HUMAN_REQUIRED"
  BY <1>1, <1>2 DEF Calm
<1>5. ASSUME NEW t \in Tokens, tokens[t] = None, Goto(w, "notify"),
             tokens' = [tokens EXCEPT ![t] =
                          [session |-> sess[w].id, revoked |-> FALSE,
                           expiresAt |-> now + RecoveryTTL]]
      PROVE  StoresCalm' /\ Calm(w)'
  <2>1. PICK r : r = [session |-> sess[w].id, revoked |-> FALSE,
                      expiresAt |-> now + RecoveryTTL]
    OBVIOUS
  <2>2. r.session = sess[w].id /\ r.revoked = FALSE
    BY <2>1
  <2>3. tokens'[t] = r /\ \A u \in Tokens \ {t} : tokens'[u] = tokens[u]
    BY <1>5, <2>1 DEF TypeOK
  <2>4. \A u \in Tokens \ {t} :
            tokens[u] # None /\ ~tokens[u].revoked => tokens[u].session # sess[w].id
    BY <1>4 DEF NoLive
  <2>5. (\A i \in Ids : sessions[i] = None => clicked[i] = "none")'
    BY <1>1 DEF StoresCalm
  <2>6. LiveLinkIsPaused'
    BY <1>1, <1>3, <1>4, <2>2, <2>3 DEF StoresCalm, LiveLinkIsPaused
  <2>7. (\A i \in Ids : clicked[i] = "confirmed" => NoLive(i))'
    BY <1>1, <1>4, <2>2, <2>3 DEF StoresCalm, NoLive
  <2>8. (\A v, u \in Tokens :
            /\ tokens[v] # None /\ ~tokens[v].revoked
            /\ tokens[u] # None /\ ~tokens[u].revoked
            /\ tokens[v].session = tokens[u].session
            => v = u)'
    BY <2>2, <2>3, <2>4 DEF StoresCalm
  <2>9. pc'[w] = "notify"
    BY <1>5 DEF Goto, TypeOK
  <2> QED
    BY <2>5, <2>6, <2>7, <2>8, <2>9, PlaceFacts, CalmElsewhere DEF StoresCalm
<1>6. ASSUME Error(w), tokens' = tokens PROVE StoresCalm' /\ Calm(w)'
  BY <1>1, <1>6, StoresKept, CalmError
<1> QED
  BY <1>5, <1>6 DEF SaveTokenHash
\* Redeeming a link leaves its session without a working link, and allows the
\* human to submit again unless the driver has confirmed a submission.
LEMMA RevokeCalm ==
    ASSUME Basic, StoresCalm, NEW w \in Workers, Calm(w), ResumeRevoke(w)
    PROVE  StoresCalm' /\ Calm(w)'
<1> USE DEF Basic
<1> DEFINE revoked == [tokens EXCEPT ![tok[w]].revoked = TRUE]
<1>1. pc[w] = "revoke" /\ sessions' = sessions
  BY DEF ResumeRevoke
<1>2. PICK k \in Tokens : k = tok[w] /\ tokens[k] # None /\ ~tokens[k].revoked
  BY <1>1 DEF Shape, TypeOK, Calm
<1>3. PICK i \in Ids : i = tokens[k].session
  BY <1>2 DEF TypeOK, TokenRecord
<1>4. tokens[k] \in TokenRecord
  BY <1>2 DEF TypeOK
<1>5. PICK r : r = [tokens[k] EXCEPT !.revoked = TRUE]
  OBVIOUS
<1>6. r.session = i /\ r.revoked = TRUE
  BY <1>3, <1>4, <1>5 DEF TokenRecord
<1>7. revoked[k] = r /\ \A t \in Tokens \ {k} : revoked[t] = tokens[t]
  BY <1>2, <1>5 DEF TypeOK
<1>8. tokens' = tokens \/ tokens' = revoked
  BY DEF ResumeRevoke
<1> HIDE DEF revoked
<1>9. \A t \in Tokens :
         /\ tokens'[t] # None => tokens[t] # None
         /\ tokens'[t] # None => tokens'[t].session = tokens[t].session
         /\ tokens'[t] # None /\ ~tokens'[t].revoked => ~tokens[t].revoked
  BY <1>2, <1>3, <1>6, <1>7, <1>8
<1>10. \A j \in Ids : NoLive(j) => NoLive(j)'
  BY <1>9 DEF NoLive
<1>11. clicked[i] # "confirmed" /\ sessions[i] # None /\ sessions[i].state = "HUMAN_REQUIRED"
  BY <1>2, <1>3 DEF StoresCalm, NoLive, LiveLinkIsPaused
<1>12. \A j \in Ids : clicked'[j] = clicked[j] \/ (j = i /\ clicked'[j] = "none")
  <2>1. \/ clicked' = clicked
        \/ clicked' = [clicked EXCEPT ![i] = IF @ = "uncertain" THEN "none" ELSE @]
    BY <1>2, <1>3 DEF ResumeRevoke
  <2> QED
    BY <2>1 DEF TypeOK
<1>13. StoresCalm'
  <2>1. (\A j \in Ids : sessions[j] = None => clicked[j] = "none")'
    BY <1>1, <1>12 DEF StoresCalm
  <2>2. LiveLinkIsPaused'
    BY <1>1, <1>9 DEF StoresCalm, LiveLinkIsPaused
  <2>3. (\A j \in Ids : clicked[j] = "confirmed" => NoLive(j))'
    BY <1>10, <1>12 DEF StoresCalm
  <2>4. (\A t, u \in Tokens :
            /\ tokens[t] # None /\ ~tokens[t].revoked
            /\ tokens[u] # None /\ ~tokens[u].revoked
            /\ tokens[t].session = tokens[u].session
            => t = u)'
    BY <1>9 DEF StoresCalm
  <2> QED
    BY <2>1, <2>2, <2>3, <2>4 DEF StoresCalm
<1>14. ASSUME Goto(w, "load"), tok' = tok, tokens' = revoked,
              clicked' = [clicked EXCEPT ![tokens[tok[w]].session] =
                             IF @ = "uncertain" THEN "none" ELSE @]
       PROVE  Calm(w)'
  <2>1. pc'[w] = "load" /\ tok'[w] = k
    BY <1>2, <1>14 DEF Goto, TypeOK
  <2>2. tokens'[k].session = i
    BY <1>6, <1>7, <1>14
  <2>3. clicked'[i] = "none"
    BY <1>2, <1>3, <1>11, <1>14 DEF TypeOK, Clicks
  <2>4. NoLive(i)'
    <3>1. ASSUME NEW t \in Tokens, tokens'[t] # None, tokens'[t].session = i
          PROVE  tokens'[t].revoked
      <4>1. CASE t = k
        BY <1>6, <1>7, <1>14, <4>1
      <4>2. CASE t # k
        BY <1>2, <1>3, <1>7, <1>14, <3>1, <4>2 DEF StoresCalm
      <4> QED
        BY <4>1, <4>2
    <3> QED
      BY <3>1 DEF NoLive
  <2>5. NotFinal(i)'
    BY <1>1, <1>11 DEF NotFinal, Terminal
  <2>6. "load" \notin Owning /\ "load" \notin Clean \cup Pausing /\ "load" # "revoke"
        /\ "load" # "savePaused" /\ "load" # "token"
    BY PlaceFacts
  <2> QED
    BY <2>1, <2>2, <2>3, <2>4, <2>5, <2>6 DEF Calm
<1> QED
  BY <1>13, <1>14, CalmError DEF ResumeRevoke, revoked

\* The record a redeemed link leads to is nobody else's, and not finished.
LEMMA LoadCalm ==
    ASSUME Basic, StoresCalm, NEW w \in Workers, Calm(w), ResumeLoad(w)
    PROVE  StoresCalm' /\ Calm(w)'
<1> USE DEF Basic
<1>1. pc[w] = "load" /\ UNCHANGED <<sessions, tokens, clicked>>
  BY DEF ResumeLoad, stores
<1>2. PICK i : i = tokens[tok[w]].session
  OBVIOUS
<1>3. PICK s : s = sessions[i]
  OBVIOUS
<1>4. s \in Session /\ s # None /\ s.id = i /\ i \in Ids
  BY <1>1, <1>2, <1>3 DEF Shape, StoreOK, TypeOK, TokenRecord
<1>5. NoLive(i) /\ NotFinal(i) /\ clicked[i] = "none"
  BY <1>1, <1>2 DEF Calm
<1>6. NoLive(i)' /\ NotFinal(i)' /\ clicked'[i] = "none"
  BY <1>1, <1>5 DEF NoLive, NotFinal
<1>7. ASSUME sess' = [sess EXCEPT ![w] = [s EXCEPT !.state = "EXPIRED"]],
             Goto(w, "saveExpired")
      PROVE  Calm(w)'
  <2>1. sess'[w].id = i /\ pc'[w] = "saveExpired"
    BY <1>4, <1>7 DEF TypeOK, Goto, Session
  <2>2. "saveExpired" \in FinalSaves
    BY DEF FinalSaves
  <2> QED
    BY <1>6, <2>1, <2>2, PlaceFacts DEF Calm, Pausing
<1>8. ASSUME sess' = [sess EXCEPT ![w] = s], Goto(w, "resumeDetect")
      PROVE  Calm(w)'
  <2>1. sess'[w] = s /\ pc'[w] = "resumeDetect"
    BY <1>8 DEF TypeOK, Goto
  <2>2. s.state \notin Terminal /\ "resumeDetect" \in Clean
    BY <1>3, <1>4, <1>5 DEF NotFinal, Clean
  <2> QED
    BY <1>4, <1>6, <2>1, <2>2, PlaceFacts DEF Calm, Pausing
<1> QED
  BY <1>1, <1>2, <1>3, <1>7, <1>8, StoresKept, CalmError DEF ResumeLoad

\* An uncertain click leads to a human, a confirmed one has no link to it.
LEMMA ClickCalm ==
    ASSUME Basic, StoresCalm, NEW w \in Workers, Calm(w), Click(w)
    PROVE  StoresCalm' /\ Calm(w)'
<1> USE DEF Basic
<1>1. pc[w] = "click" /\ UNCHANGED <<sessions, tokens>>
  BY DEF Click, stores
<1>2. pc[w] \in Clean /\ pc[w] \in CarriesSession /\ pc[w] \notin PreSaved
  BY <1>1 DEF Clean, CarriesSession, PreSaved
<1>3. sess[w] # None /\ sess[w].id \in Ids /\ sessions[sess[w].id] # None
  BY <1>2 DEF Shape, CopiesOK, TypeOK, Session
<1>4. /\ NoLive(sess[w].id) /\ NotFinal(sess[w].id)
      /\ clicked[sess[w].id] = "none"
  BY <1>2, PlaceFacts DEF Calm
<1>5. {"savePaused", "saveCompleted"} \subseteq PlainLabels \cap Labels
      /\ {"HUMAN_REQUIRED", "COMPLETED"} \subseteq SessionStates
  BY DEF PlainLabels, Labels, SaveNext, SessionStates
<1>6. \E c \in {"uncertain", "confirmed"} :
         clicked' = [clicked EXCEPT ![sess[w].id] = c]
  BY <1>4 DEF Click
<1>7. \A j \in Ids \ {sess[w].id} : clicked'[j] = clicked[j]
  BY <1>6 DEF TypeOK
<1>8. StoresCalm'
  BY <1>1, <1>3, <1>4, <1>7 DEF StoresCalm, LiveLinkIsPaused, NoLive
<1>9. CASE Pause(w) /\ clicked' = [clicked EXCEPT ![sess[w].id] =
                                       IF @ = "confirmed" THEN @ ELSE "uncertain"]
  <2>1. pc'[w] = "savePaused" /\ sess'[w].id = sess[w].id /\ sess'[w].state = "HUMAN_REQUIRED"
    BY <1>3, <1>5, <1>9, BecomesStep DEF Pause
  <2>2. clicked'[sess[w].id] = "uncertain"
    BY <1>3, <1>4, <1>9 DEF TypeOK
  <2> QED
    BY <1>1, <1>4, <1>8, <2>1, <2>2, PlaceFacts DEF Calm, NoLive, NotFinal, Pausing
<1>10. CASE Becomes(w, "COMPLETED", "saveCompleted")
  <2>1. pc'[w] = "saveCompleted" /\ sess'[w].id = sess[w].id
    BY <1>3, <1>5, <1>10, BecomesStep
  <2>2. "saveCompleted" \in FinalSaves
    BY DEF FinalSaves
  <2> QED
    BY <1>1, <1>4, <1>8, <2>1, <2>2, PlaceFacts DEF Calm, NoLive, NotFinal, Pausing
<1> QED
  BY <1>9, <1>10 DEF Click
-----------------------------------------------------------------------------

\* Every step of a call keeps the stores calm, and its own session.
LEMMA CalmStep ==
    ASSUME Basic, StoresCalm, NEW w \in Workers, Calm(w), Proceed(w) \/ Invoke(w)
    PROVE  StoresCalm' /\ Calm(w)'
<1>1. ASSUME \/ Launch(w) \/ Navigate(w) \/ Fill(w) \/ DetectState(w)
             \/ SaveCheckpoint(w) \/ ResumeDetect(w) \/ SubmitGate(w)
      PROVE  StoresCalm' /\ Calm(w)'
  BY <1>1, TurnedStep, TurnedCalm, StoresKept
<1>2. CASE Notify(w)
  <2>1. UNCHANGED <<sessions, tokens, clicked>> /\ pc'[w] = "human_required"
    BY <1>2 DEF Notify, Goto, Basic, TypeOK
  <2>2. "human_required" \notin Owning \cup {"revoke", "load"}
    BY PlaceFacts
  <2> QED
    BY <2>1, <2>2, StoresKept, CalmElsewhere
<1> QED
  BY <1>1, <1>2, StartCalm, LookupCalm, SaveCalm, TokenCalm, RevokeCalm,
     LoadCalm, ClickCalm DEF Proceed, Invoke

\* With one caller, every step of the runner preserves the invariant.
LEMMA TurnsNext ==
    ASSUME OneCaller
    PROVE  Basic /\ Turns /\ [Next]_vars => Turns'
<1> SUFFICES ASSUME Basic, Turns, [Next]_vars PROVE Turns'
  OBVIOUS
<1>1. ASSUME NEW w \in Workers, Proceed(w) \/ Invoke(w) PROVE Turns'
  BY <1>1, CalmStep DEF Turns, OneCaller
<1>2. CASE Tick
  BY <1>2, StoresKept DEF Tick, stores, locals, Turns, Calm, NoLive, NotFinal
<1>3. CASE Crash
  <2>1. UNCHANGED <<sessions, tokens, clicked>> /\ \A w \in Workers : pc'[w] = "idle"
    BY <1>3 DEF Crash, stores
  <2>2. "idle" \notin Owning \cup {"revoke", "load"}
    BY PlaceFacts
  <2> QED
    BY <2>1, <2>2, StoresKept, CalmElsewhere DEF Turns
<1>4. CASE UNCHANGED vars
  BY <1>4, StoresKept DEF vars, Turns, Calm, NoLive, NotFinal
<1> QED
  BY <1>1, <1>2, <1>3, <1>4 DEF Next

\* The initial state has nothing that could be disturbed.
LEMMA TurnsInit == Init => Turns
<1> SUFFICES ASSUME Init PROVE Turns
  OBVIOUS
<1>1. StoresCalm
  BY DEF Init, StoresCalm, LiveLinkIsPaused, NoLive
<1>2. ASSUME NEW w \in Workers PROVE Calm(w)
  BY PlaceFacts DEF Init, Calm, Pausing
<1> QED
  BY <1>1, <1>2 DEF Turns

\* Callers that take turns never leave the invariant.
LEMMA TurnsInvariant == OneCaller => (Spec => [](Basic /\ Turns))
<1> SUFFICES ASSUME OneCaller PROVE Spec => [](Basic /\ Turns)
  OBVIOUS
<1> QED
  BY TurnsInit, TurnsNext, BasicInit, BasicNext, PTL DEF Spec

\* What is known of every caller, as the composition with the notifier cites it.
LEMMA BasicInvariant == Spec => []Basic
BY BasicInit, BasicNext, PTL DEF Spec

\* Callers that take turns never submit twice what may have gone through: a
\* click is made only on a session without one, or after a human redeemed its
\* link (Submit, runner.go:294-346).
THEOREM NothingRetried == OneCaller => (Spec => []NoAutomaticRetry)
<1> SUFFICES ASSUME OneCaller PROVE Spec => []NoAutomaticRetry
  OBVIOUS
<1>1. Turns => NoAutomaticRetry
  BY DEF Turns, Calm, Clean, NoAutomaticRetry
<1> QED
  BY <1>1, TurnsInvariant, PTL

\* A working link leads to a session that waits for a human, for any number of
\* sessions and tokens and wherever calls fail (runner.go:219-230, 248).
THEOREM LiveLinksArePaused == OneCaller => (Spec => []LiveLinkIsPaused)
<1> SUFFICES ASSUME OneCaller PROVE Spec => []LiveLinkIsPaused
  OBVIOUS
<1>1. Turns => LiveLinkIsPaused
  BY DEF Turns, StoresCalm
<1> QED
  BY <1>1, TurnsInvariant, PTL

\* "Redeem validates a raw recovery token [...] and, if valid, revokes it
\* (single-use)" (recovery.go:62-63) is true of callers that take turns: the
\* bound on redemptions comes down to one.
THEOREM SingleUse == OneCaller => (Spec => []TokenSingleUse)
<1> SUFFICES ASSUME OneCaller PROVE Spec => []TokenSingleUse
  OBVIOUS
<1>1. Cardinality(Workers) = 1
  <2>1. \E w : Workers = {w}
    BY ConstantsAssumption DEF OneCaller
  <2> QED
    BY <2>1, FS_Singleton
<1>2. RedemptionsBounded => TokenSingleUse
  BY <1>1 DEF RedemptionsBounded, TokenSingleUse
<1> QED
  BY <1>2, RedemptionBound, PTL

\* No caller that waits its turn writes over a finished session.
LEMMA FinalStays ==
    ASSUME Basic, Turns, [Next]_vars
    PROVE  [\A i \in Ids :
               sessions[i] # None /\ sessions[i].state \in Terminal
                   => sessions'[i] = sessions[i]]_sessions
<1>1. ASSUME NEW w \in Workers, SaveSession(w), NEW i \in Ids,
             sessions[i] # None, sessions[i].state \in Terminal
      PROVE  sessions'[i] = sessions[i]
  <2>1. pc[w] \in Owning
    BY <1>1 DEF SaveSession, Owning, CarriesSession, SaveNext
  <2>2. i # sess[w].id
    BY <1>1, <2>1 DEF Turns, Calm, NotFinal
  <2>3. sessions' = sessions \/ sessions' = [sessions EXCEPT ![sess[w].id] = sess[w]]
    BY <1>1 DEF SaveSession
  <2> QED
    BY <2>2, <2>3 DEF Basic, TypeOK
<1>2. ASSUME NEW w \in Workers, Proceed(w) \/ Invoke(w), ~SaveSession(w)
      PROVE  sessions' = sessions
  BY <1>2 DEF Proceed, Invoke, Launch, Navigate, Fill, DetectState, SaveCheckpoint,
     SaveTokenHash, Notify, ResumeRevoke, ResumeLoad, ResumeDetect, Click,
     StartCheck, SubmitGate, ResumeLookup, stores
<1>3. ASSUME Tick \/ Crash \/ UNCHANGED vars PROVE sessions' = sessions
  BY <1>3 DEF Tick, Crash, vars, stores
<1> QED
  BY <1>1, <1>2, <1>3 DEF Next

\* A finished session stays as it is, in every run of callers that take turns
\* and submit each result once: no link that still works leads to it, wherever
\* calls failed or the process ended (runner.go:219-230, 248-260).
THEOREM TerminalStays == OneCaller => (Spec => TerminalIsFinal)
<1> SUFFICES ASSUME OneCaller PROVE Spec => TerminalIsFinal
  OBVIOUS
<1> QED
  BY FinalStays, TurnsInvariant, PTL DEF Spec, TerminalIsFinal
=============================================================================
