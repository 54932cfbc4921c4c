---------------------------- MODULE BrowserRunner ----------------------------
(***************************************************************************)
(* The browser runner (src/internal/browser/runner.go) and the redemption  *)
(* of recovery tokens (recovery.go).                                       *)
(*                                                                         *)
(* A worker is a goroutine that calls Start, Resume or Submit on ONE       *)
(* shared Runner, and the caller that holds the Result of that call.  Each *)
(* call of the session store, the token store, the notifier or the driver  *)
(* is a step of its own, so that the calls of two workers interleave       *)
(* there; the code between two such calls is part of the step before them. *)
(* Every such call may fail.  Crash is the end of the process: the stores  *)
(* and the delivered links survive it, the calls and the browser do not.   *)
(***************************************************************************)
EXTENDS Integers, FiniteSets

CONSTANTS
    Workers,                \* goroutines that call the Runner
    Ids,                    \* session IDs that NewID can return
    Tokens,                 \* raw recovery tokens rand.Read can produce
    BrowserSessionsPerDay,  \* Limits.BrowserSessionsPerDay
    MaxSessionMinutes,      \* Limits.MaxSessionMinutes
    RecoveryTTL,            \* Runner.RecoveryTTL
    MaxTime,                \* bound of the clock
    StartOfDay,             \* the truncation of startOfToday, as a function
    None                    \* "no such record"

Time == 0..MaxTime

SessionStates == {"STARTING", "RUNNING", "HUMAN_REQUIRED", "RESUMED",
                  "COMPLETED", "FAILED", "EXPIRED"}

Terminal == {"COMPLETED", "FAILED", "EXPIRED"}

PageStates == {"normal", "captcha", "login_wall", "unknown", "submitted",
               "navigate_error"}

\* "uncertain": the click was made, the driver saw no clear success.
Clicks == {"none", "uncertain", "confirmed"}

\* checkpointed stands for a LastCheckpointAt that is not the zero time.
Session == [id: Ids, state: SessionStates, startedAt: Time, expiresAt: Nat,
            checkpointed: BOOLEAN]

TokenRecord == [session: Ids, expiresAt: Nat, revoked: BOOLEAN]

ASSUME ConstantsAssumption ==
    /\ BrowserSessionsPerDay \in Nat
    /\ MaxSessionMinutes \in Nat
    /\ RecoveryTTL \in Nat
    /\ MaxTime \in Nat
    /\ IsFiniteSet(Workers) /\ Workers # {}
    /\ IsFiniteSet(Ids)
    /\ None \notin Session \cup TokenRecord \cup Ids \cup Tokens

\* Truncating to midnight never moves forward, and all times between midnight
\* and t are on the day of t.
ASSUME StartOfDayAssumption ==
    /\ StartOfDay \in [Time -> Time]
    /\ \A t \in Time :
          /\ StartOfDay[t] <= t
          /\ \A s \in StartOfDay[t]..t : StartOfDay[s] = StartOfDay[t]

VARIABLES
    now,          \* the clock behind Runner.Now
    sessions,     \* Sessions store: the record saved under each ID, or None
    checkpoints,  \* Sessions store: the IDs that have a saved checkpoint
    tokens,       \* Tokens store: the row of each token hash, or None
    links,        \* tokens whose recovery URL the notifier delivered
    page,         \* the session the driver's one page was last opened for
    pc,           \* where each worker stands; in Returned: its last outcome
    sess,         \* each worker's local Session value, or None
    tok,          \* the token a worker's call is saving or redeeming, or None
    clicked,      \* history: what became of each session's last submission
                  \* click, forgotten when a human redeems a link
    redeemed      \* history: how often each token was redeemed

vars == <<now, sessions, checkpoints, tokens, links, page, pc, sess, tok,
          clicked, redeemed>>

stores == <<sessions, checkpoints, tokens, links, redeemed>>
locals == <<pc, sess, tok>>

\* What a finished call left with its caller: an error, or Result.Outcome.
Returned == {"idle", "error", "ready_for_review", "human_required",
             "submitted", "failed", "expired"}

\* A Start that passed the daily limit and has not saved its session yet.
PreSaved == {"launch", "saveRunning", "saveLaunchFailed"}

\* What follows a successful saveSession, by the place it is called from.
SaveNext ==
    [saveRunning      |-> "navigate",
     saveLaunchFailed |-> "failed",
     saveFailed       |-> "failed",
     saveExpired      |-> "expired",
     savePaused       |-> "token",
     saveResumed      |-> "fill",
     saveCheckpointed |-> "ready_for_review",
     saveSubmitting   |-> "click",
     saveCompleted    |-> "submitted"]

Labels == Returned \cup DOMAIN SaveNext \cup
          {"launch", "navigate", "fill", "detect", "checkpoint", "token",
           "notify", "revoke", "load", "resumeDetect", "click"}

-----------------------------------------------------------------------------
Init ==
    /\ now = 0
    /\ sessions = [i \in Ids |-> None]
    /\ checkpoints = {}
    /\ tokens = [t \in Tokens |-> None]
    /\ links = {}
    /\ page = None
    /\ pc = [w \in Workers |-> "idle"]
    /\ sess = [w \in Workers |-> None]
    /\ tok = [w \in Workers |-> None]
    /\ clicked = [i \in Ids |-> "none"]
    /\ redeemed = [t \in Tokens |-> 0]

Goto(w, label) == pc' = [pc EXCEPT ![w] = label]

\* Continue at label with the session in the given state, not yet saved.
Becomes(w, state, label) ==
    /\ sess' = [sess EXCEPT ![w].state = state]
    /\ Goto(w, label)

Fail(w)   == Becomes(w, "FAILED", "saveFailed")
Expire(w) == Becomes(w, "EXPIRED", "saveExpired")
Pause(w)  == Becomes(w, "HUMAN_REQUIRED", "savePaused")

\* return Result{}, err
Error(w) ==
    /\ Goto(w, "error")
    /\ sess' = [sess EXCEPT ![w] = None]
    /\ tok' = [tok EXCEPT ![w] = None]

IsExpired(s) == now > s.expiresAt

\* handleNonNormalState, with what the caller does for a normal page.
HandleState(w, state, next) ==
    \/ state = "normal" /\ Goto(w, next) /\ UNCHANGED sess
    \/ state = "navigate_error" /\ Fail(w)
    \/ state \notin {"normal", "navigate_error"} /\ Pause(w)

\* The page states the driver can report: without a page it only fails.
Observable == IF page = None THEN {} ELSE PageStates

-----------------------------------------------------------------------------
(* Start *)

StartedSince(since) ==
    {i \in Ids : sessions[i] # None /\ sessions[i].startedAt >= since}

FreshId(i) ==
    sessions[i] = None /\ \A w \in Workers : sess[w] = None \/ sess[w].id # i

\* DEFECT: the limit is compared with > instead of >=.
StartCheck_OffByOne(w) ==
    /\ pc[w] \in Returned
    /\ Cardinality(StartedSince(StartOfDay[now])) <= BrowserSessionsPerDay
    /\ \E i \in {j \in Ids : FreshId(j)} :
          sess' = [sess EXCEPT ![w] =
                     [id |-> i, state |-> "STARTING", startedAt |-> now,
                      expiresAt |-> now + MaxSessionMinutes,
                      checkpointed |-> FALSE]]
    /\ Goto(w, "launch")
    /\ UNCHANGED <<now, stores, page, tok, clicked>>

\* The limit check, up to the driver's Launch.
StartCheck(w) ==
    /\ pc[w] \in Returned
    /\ \/ Error(w)                             \* CountStartedSince fails
       \/ /\ Cardinality(StartedSince(StartOfDay[now])) >= BrowserSessionsPerDay
          /\ Error(w)
       \/ /\ Cardinality(StartedSince(StartOfDay[now])) < BrowserSessionsPerDay
          /\ \E i \in {j \in Ids : FreshId(j)} :
                sess' = [sess EXCEPT ![w] =
                           [id |-> i, state |-> "STARTING", startedAt |-> now,
                            expiresAt |-> now + MaxSessionMinutes,
                            checkpointed |-> FALSE]]
          /\ Goto(w, "launch")
          /\ UNCHANGED tok
    /\ UNCHANGED <<now, stores, page, clicked>>

\* A launch replaces the page of whatever session used the driver before.
Launch(w) ==
    /\ pc[w] = "launch"
    /\ \/ page' = sess[w].id /\ Becomes(w, "RUNNING", "saveRunning")
       \/ Becomes(w, "FAILED", "saveLaunchFailed") /\ UNCHANGED page
    /\ UNCHANGED <<now, stores, tok, clicked>>

\* saveSession: a store that reports an error may have written the row.
SaveSession(w) ==
    /\ pc[w] \in DOMAIN SaveNext
    /\ \/ /\ sessions' = [sessions EXCEPT ![sess[w].id] = sess[w]]
          /\ Goto(w, SaveNext[pc[w]])
          /\ UNCHANGED <<sess, tok>>
       \/ /\ sessions' \in {sessions, [sessions EXCEPT ![sess[w].id] = sess[w]]}
          /\ Error(w)
    /\ UNCHANGED <<now, checkpoints, tokens, links, page, clicked, redeemed>>

\* A navigation that fails may or may not have left the former page.
Navigate(w) ==
    /\ pc[w] = "navigate"
    /\ \/ IsExpired(sess[w]) /\ Expire(w) /\ UNCHANGED page
       \/ ~IsExpired(sess[w]) /\ Fail(w) /\ page' \in {page, sess[w].id}
       \/ /\ ~IsExpired(sess[w])
          /\ \E state \in Observable : HandleState(w, state, "fill")
          /\ page' = sess[w].id
    /\ UNCHANGED <<now, stores, tok, clicked>>

Fill(w) ==
    /\ pc[w] = "fill"
    /\ \/ Fail(w)
       \/ page # None /\ Goto(w, "detect") /\ UNCHANGED sess
    /\ UNCHANGED <<now, stores, page, tok, clicked>>

DetectState(w) ==
    /\ pc[w] = "detect"
    /\ Fail(w) \/ \E state \in Observable : HandleState(w, state, "checkpoint")
    /\ UNCHANGED <<now, stores, page, tok, clicked>>

\* DEFECT: the error of the checkpoint store is ignored.
SaveCheckpoint_IgnoresError(w) ==
    /\ pc[w] = "checkpoint"
    /\ checkpoints' \in {checkpoints, checkpoints \cup {sess[w].id}}
    /\ sess' = [sess EXCEPT ![w].checkpointed = TRUE]
    /\ Goto(w, "saveCheckpointed")
    /\ UNCHANGED <<now, sessions, tokens, links, redeemed, page, tok, clicked>>

SaveCheckpoint(w) ==
    /\ pc[w] = "checkpoint"
    /\ \/ /\ checkpoints' = checkpoints \cup {sess[w].id}
          /\ sess' = [sess EXCEPT ![w].checkpointed = TRUE]
          /\ Goto(w, "saveCheckpointed")
          /\ UNCHANGED tok
       \/ Error(w) /\ checkpoints' \in {checkpoints, checkpoints \cup {sess[w].id}}
    /\ UNCHANGED <<now, sessions, tokens, links, redeemed, page, clicked>>

-----------------------------------------------------------------------------
(* The rest of pauseForHuman, once the session is saved HUMAN_REQUIRED *)

\* A row whose raw token is lost with the error is as good as no row.
SaveTokenHash(w) ==
    /\ pc[w] = "token"
    /\ \/ Error(w) /\ UNCHANGED tokens
       \/ \E t \in {u \in Tokens : tokens[u] = None} :
            /\ tokens' = [tokens EXCEPT ![t] =
                            [session |-> sess[w].id, revoked |-> FALSE,
                             expiresAt |-> now + RecoveryTTL]]
            /\ tok' = [tok EXCEPT ![w] = t]
            /\ Goto(w, "notify")
            /\ UNCHANGED sess
    /\ UNCHANGED <<now, sessions, checkpoints, links, redeemed, page, clicked>>

\* DEFECT: the link is built after the token was cleared.
Notify_LateLink(w) ==
    /\ pc[w] = "notify"
    /\ tok' = [tok EXCEPT ![w] = None]
    /\ links' \in {links, links \cup {tok'[w]}}
    /\ Goto(w, "human_required")
    /\ UNCHANGED <<now, sessions, checkpoints, tokens, redeemed, page, sess,
                   clicked>>

\* The outcome is human_required whether or not the message went out.
Notify(w) ==
    /\ pc[w] = "notify"
    /\ links' \in {links, links \cup {tok[w]}}
    /\ tok' = [tok EXCEPT ![w] = None]
    /\ Goto(w, "human_required")
    /\ UNCHANGED <<now, sessions, checkpoints, tokens, redeemed, page, sess,
                   clicked>>

-----------------------------------------------------------------------------
(* Resume *)

Live(t) ==
    tokens[t] # None /\ ~tokens[t].revoked /\ now <= tokens[t].expiresAt

\* DEFECT: it is ignored that the lookup found the token revoked or expired.
ResumeLookup_IgnoresOk(w, t) ==
    /\ pc[w] \in Returned
    /\ tok' = [tok EXCEPT ![w] = t]
    /\ sess' = [sess EXCEPT ![w] = None]
    /\ Goto(w, "revoke")
    /\ UNCHANGED <<now, stores, page, clicked>>

\* The user follows a link, perhaps for the second time.
ResumeLookup(w, t) ==
    /\ pc[w] \in Returned
    /\ \/ Error(w)                             \* invalid, expired, or failed
       \/ /\ Live(t)
          /\ tok' = [tok EXCEPT ![w] = t]
          /\ sess' = [sess EXCEPT ![w] = None]
          /\ Goto(w, "revoke")
    /\ UNCHANGED <<now, stores, page, clicked>>

\* DEFECT: the error of RevokeByHash is ignored.
ResumeRevoke_IgnoresError(w) ==
    /\ pc[w] = "revoke"
    /\ tokens' \in {tokens, [tokens EXCEPT ![tok[w]].revoked = TRUE]}
    /\ Goto(w, "load")
    /\ UNCHANGED <<now, sessions, checkpoints, links, redeemed, page, sess, tok,
                   clicked>>

ResumeRevoke(w) ==
    /\ pc[w] = "revoke"
    /\ \/ /\ tokens' = [tokens EXCEPT ![tok[w]].revoked = TRUE]
          /\ redeemed' = [redeemed EXCEPT ![tok[w]] = @ + 1]
          /\ clicked' = [clicked EXCEPT ![tokens[tok[w]].session] =
                            IF @ = "uncertain" THEN "none" ELSE @]
          /\ Goto(w, "load")
          /\ UNCHANGED <<sess, tok>>
       \/ /\ Error(w)
          /\ tokens' \in {tokens, [tokens EXCEPT ![tok[w]].revoked = TRUE]}
          /\ UNCHANGED <<redeemed, clicked>>
    /\ UNCHANGED <<now, sessions, checkpoints, links, page>>

\* Resume never looks at the state of the session it loads.
ResumeLoad(w) ==
    /\ pc[w] = "load"
    /\ \/ Error(w)
       \/ LET s == sessions[tokens[tok[w]].session] IN
          /\ sess' = [sess EXCEPT ![w] =
                        IF IsExpired(s) THEN [s EXCEPT !.state = "EXPIRED"]
                                        ELSE s]
          /\ Goto(w, IF IsExpired(s) THEN "saveExpired" ELSE "resumeDetect")
          /\ tok' = [tok EXCEPT ![w] = None]
    /\ UNCHANGED <<now, stores, page, clicked>>

ResumeDetect(w) ==
    /\ pc[w] = "resumeDetect"
    /\ \/ Fail(w)
       \/ "normal" \in Observable /\ Becomes(w, "RESUMED", "saveResumed")
       \/ Observable \ {"normal"} # {} /\ Pause(w)
    /\ UNCHANGED <<now, stores, page, tok, clicked>>

-----------------------------------------------------------------------------
(* Submit, by the caller that holds a ready_for_review result and submits it
   at most once. Submit takes any Session (:303) and would save one that was
   submitted before as well; such a caller is not modelled.                *)

SubmitGate(w) ==
    /\ pc[w] = "ready_for_review"
    /\ \/ Error(w)                             \* the safety gate refuses
       \/ IsExpired(sess[w]) /\ Expire(w) /\ UNCHANGED tok
       \/ /\ ~IsExpired(sess[w])
          /\ Becomes(w, "RUNNING", "saveSubmitting")
          /\ UNCHANGED tok
    /\ UNCHANGED <<now, stores, page, clicked>>

\* DEFECT: a page without any signal counts as a successful submission.
Click_NormalIsSuccess(w) ==
    /\ pc[w] = "click"
    /\ "normal" \in Observable
    /\ Becomes(w, "COMPLETED", "saveCompleted")
    /\ clicked' = [clicked EXCEPT ![sess[w].id] = "uncertain"]
    /\ UNCHANGED <<now, stores, page, tok>>

\* DEFECT: an uncertain submission is retried.
Click_Retries(w) ==
    /\ pc[w] = "click"
    /\ clicked' = [clicked EXCEPT ![sess[w].id] = "uncertain"]
    /\ UNCHANGED <<now, stores, page, pc, sess, tok>>

\* An error, and every page but a clear success, is an uncertain outcome.
Click(w) ==
    /\ pc[w] = "click"
    /\ \/ /\ Pause(w)
          /\ clicked' = [clicked EXCEPT ![sess[w].id] =
                            IF @ = "confirmed" THEN @ ELSE "uncertain"]
       \/ /\ "submitted" \in Observable
          /\ Becomes(w, "COMPLETED", "saveCompleted")
          /\ clicked' = [clicked EXCEPT ![sess[w].id] = "confirmed"]
    /\ UNCHANGED <<now, stores, page, tok>>

-----------------------------------------------------------------------------
Tick ==
    /\ now < MaxTime
    /\ now' = now + 1
    /\ UNCHANGED <<stores, page, locals, clicked>>

Crash ==
    /\ pc' = [w \in Workers |-> "idle"]
    /\ sess' = [w \in Workers |-> None]
    /\ tok' = [w \in Workers |-> None]
    /\ page' = None
    /\ UNCHANGED <<now, stores, clicked>>

\* A step of a call that is already running.
Proceed(w) ==
    \/ Launch(w) \/ SaveSession(w) \/ Navigate(w) \/ Fill(w)
    \/ DetectState(w) \/ SaveCheckpoint(w) \/ SaveTokenHash(w) \/ Notify(w)
    \/ ResumeRevoke(w) \/ ResumeLoad(w) \/ ResumeDetect(w) \/ Click(w)

\* A caller makes a new call.
Invoke(w) ==
    StartCheck(w) \/ SubmitGate(w) \/ \E t \in links : ResumeLookup(w, t)

Next == Tick \/ Crash \/ \E w \in Workers : Proceed(w) \/ Invoke(w)

Spec == Init /\ [][Next]_vars
-----------------------------------------------------------------------------
(* Properties *)

TypeOK ==
    /\ now \in Time
    /\ sessions \in [Ids -> Session \cup {None}]
    /\ checkpoints \subseteq Ids
    /\ tokens \in [Tokens -> TokenRecord \cup {None}]
    /\ links \subseteq Tokens
    /\ page \in Ids \cup {None}
    /\ pc \in [Workers -> Labels]
    /\ sess \in [Workers -> Session \cup {None}]
    /\ tok \in [Workers -> Tokens \cup {None}]
    /\ clicked \in [Ids -> Clicks]
    /\ redeemed \in [Tokens -> Nat]

\* The sessions of one day that the store knows.
StartedOn(day) ==
    {i \in Ids : sessions[i] # None /\ StartOfDay[sessions[i].startedAt] = day}

\* Start counts the sessions of the day and saves its own only after the
\* launch (runner.go:96-125): concurrent Starts can pass the check together,
\* but never push a day further than one session per other worker over the
\* configured limit, whatever fails, and across midnight too.
DailyOverrunBounded ==
    \A day \in Time :
        Cardinality(StartedOn(day))
            <= BrowserSessionsPerDay + Cardinality(Workers) - 1

\* The same limit as a contract: the sessions that Start counts today are what
\* is used up, and the Starts that passed the check and have not saved their
\* session yet are admitted.  However the calls of Start, Resume and Submit
\* interleave, fail, end in a crash or run across midnight, nobody is admitted
\* but below the limit and no session is counted twice (runner.go:96-125).
CountedToday == Cardinality(StartedSince(StartOfDay[now]))

Admitted == {w \in Workers : pc[w] \in PreSaved}

Budget ==
    INSTANCE DailyBudget WITH Limit    <- BrowserSessionsPerDay,
                              used     <- CountedToday,
                              admitted <- Admitted

BudgetSpec == Budget!Spec

\* A stored session is COMPLETED only if the driver saw a clear success: an
\* uncertain submission never turns into a completed one, on any later path
\* of human handoff, resumption or second submission (runner.go:314-338).
CompletedIsConfirmed ==
    \A i \in Ids :
        sessions[i] # None /\ sessions[i].state = "COMPLETED"
            => clicked[i] = "confirmed"

\* A session record that names a last checkpoint has one in the store, so
\* what a human resumes from exists (checkpoint, runner.go:361-383).
CheckpointRecorded ==
    \A i \in Ids :
        sessions[i] # None /\ sessions[i].checkpointed => i \in checkpoints

\* "Unknown submission result => no automatic retry": whenever a worker is
\* about to click submit, no click for that session was made before, or a
\* human redeemed a link since (Submit, runner.go:294-346). For callers that
\* take turns and submit each result once: the runner repeats nothing itself.
NoAutomaticRetry ==
    \A w \in Workers : pc[w] = "click" => clicked[sess[w].id] = "none"

\* A recovery link that still works always leads to a session that waits for
\* a human: pauseForHuman saves before it creates the token, and Redeem
\* revokes before anything else is saved (runner.go:219-230, 248). For callers
\* that take turns and submit each result once.
LiveLinkIsPaused ==
    \A t \in Tokens :
        tokens[t] # None /\ ~tokens[t].revoked
            => /\ sessions[tokens[t].session] # None
               /\ sessions[tokens[t].session].state = "HUMAN_REQUIRED"

\* Redeem reads a token's row and revokes it in two calls (recovery.go:66-82), so
\* that a link can be redeemed more than once, but only by calls that were under
\* way before the first of them revoked it: by no more than there are workers,
\* however often it is followed and whatever fails.
RedemptionsBounded == \A t \in Tokens : redeemed[t] <= Cardinality(Workers)

\* The most steps a call can still take from each place.
StepsLeft ==
    [l \in Labels |->
        CASE l \in Returned -> 0
          [] l \in {"saveLaunchFailed", "saveFailed", "saveExpired",
                    "saveCompleted", "saveCheckpointed", "notify"} -> 1
          [] l \in {"token", "checkpoint"} -> 2
          [] l = "savePaused" -> 3
          [] l \in {"detect", "click"} -> 4
          [] l \in {"fill", "saveSubmitting"} -> 5
          [] l \in {"navigate", "saveResumed"} -> 6
          [] l \in {"saveRunning", "resumeDetect"} -> 7
          [] l \in {"launch", "load"} -> 8
          [] l = "revoke" -> 9]

\* Every step of a call brings its return closer, on every path of failure,
\* expiry, handoff and resumption, and nothing but a new call puts it off: none
\* is longer than ten steps, whatever other calls do (runner.go:94-391).
CallsGetShorter ==
    [][\A w \in Workers :
          /\ Proceed(w) => StepsLeft[pc'[w]] < StepsLeft[pc[w]]
          /\ StepsLeft[pc'[w]] > StepsLeft[pc[w]] => Invoke(w)]_vars

\* A finished session stays as it is: Resume loads whatever session its link
\* leads to (runner.go:253) and saves it unconditionally, and yet no link that
\* is still outstanding, after whatever calls failed or were cut short, lets
\* it write over a terminal state. This is about one caller at a time that
\* submits each result once: the Session a caller hands to Submit (:303) is
\* saved unchecked as well, and nothing in the runner would stop it.
TerminalIsFinal ==
    [][\A i \in Ids :
        sessions[i] # None /\ sessions[i].state \in Terminal
            => sessions'[i] = sessions[i]]_sessions

\* Every call of the runner returns: the handoff to a human ends the call
\* and no failed step is repeated.
CallReturns ==
    \A w \in Workers : pc[w] \notin Returned ~> pc[w] \in Returned

\* "Redeem validates a raw recovery token against the store and, if valid,
\* revokes it (single-use)" (recovery.go:62-63).
TokenSingleUse == \A t \in Tokens : redeemed[t] <= 1

\* "A browser interruption must never leave the user with an application
\* that is impossible to resume." (docs/BROWSER-RECOVERY.md:5): when no call
\* works on a HUMAN_REQUIRED session, the user has an unrevoked link to it. The
\* session is saved first (runner.go:219), and only then is there a token.
HumanRequiredIsResumable ==
    \A i \in Ids :
        /\ sessions[i] # None
        /\ sessions[i].state = "HUMAN_REQUIRED"
        /\ \A w \in Workers : pc[w] \in Returned
        => \E t \in links : tokens[t].session = i /\ ~tokens[t].revoked

\* "The page is already confirmed normal at session.CurrentURL"
\* (runner.go:278): what is filled or clicked for a session happens on the
\* page that was opened for it.
ActsOnOwnPage ==
    \A w \in Workers : pc[w] \in {"fill", "click"} => page = sess[w].id
=============================================================================
