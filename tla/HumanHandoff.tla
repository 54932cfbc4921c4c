----------------------------- MODULE HumanHandoff -----------------------------
(***************************************************************************)
(* The browser runner with the notification service as its Notifier        *)
(* (src/internal/notification/notification.go).                            *)
(*                                                                         *)
(* What BrowserRunner takes for one call of the notifier is a save in the  *)
(* notification store and a call of the sender: the process may end        *)
(* between the two, each may fail, and either failure reaches the caller   *)
(* of the runner as an error beside the outcome human_required.  All other *)
(* steps are the runner's.  A notification is known by the token in its    *)
(* ActionURL; its texts are left out.                                      *)
(***************************************************************************)
EXTENDS BrowserRunner

VARIABLES
    notices,    \* notification store: tokens with a saved notification
    notifyErr   \* workers that hold human_required together with an error

handoffVars == <<vars, notices, notifyErr>>

InitHandoff == Init /\ notices = {} /\ notifyErr = {}

\* pauseForHuman returns human_required, with an error or without.
Return(w, failed) ==
    /\ Goto(w, "human_required")
    /\ tok' = [tok EXCEPT ![w] = None]
    /\ notifyErr' = IF failed THEN notifyErr \cup {w} ELSE notifyErr

\* DEFECT: an error of the store does not keep the message back.
SaveNotification_IgnoresError(w) ==
    /\ pc[w] = "notify"
    /\ notices' \in {notices, notices \cup {tok[w]}}
    /\ Goto(w, "send")
    /\ UNCHANGED <<now, stores, page, sess, tok, clicked, notifyErr>>

SaveNotification(w) ==
    /\ pc[w] = "notify"
    /\ \/ /\ notices' = notices \cup {tok[w]}
          /\ Goto(w, "send")
          /\ UNCHANGED <<tok, notifyErr>>
       \/ /\ notices' \in {notices, notices \cup {tok[w]}}
          /\ Return(w, TRUE)
    /\ UNCHANGED <<now, stores, page, sess, clicked>>

\* DEFECT: a message that was not sent is sent again.
Send_Retries(w) ==
    /\ pc[w] = "send"
    /\ \/ /\ links' = links \cup {tok[w]}
          /\ Return(w, FALSE)
       \/ /\ links' \in {links, links \cup {tok[w]}}
          /\ UNCHANGED <<pc, tok, notifyErr>>
    /\ UNCHANGED <<now, sessions, checkpoints, tokens, redeemed, page, sess,
                   clicked, notices>>

\* DEFECT: the error of the sender is dropped.
Send_IgnoresError(w) ==
    /\ pc[w] = "send"
    /\ links' \in {links, links \cup {tok[w]}}
    /\ Return(w, FALSE)
    /\ UNCHANGED <<now, sessions, checkpoints, tokens, redeemed, page, sess,
                   clicked, notices>>

\* A message whose Send reports an error may have arrived.
Send(w) ==
    /\ pc[w] = "send"
    /\ \/ links' = links \cup {tok[w]} /\ Return(w, FALSE)
       \/ links' \in {links, links \cup {tok[w]}} /\ Return(w, TRUE)
    /\ UNCHANGED <<now, sessions, checkpoints, tokens, redeemed, page, sess,
                   clicked, notices>>

\* A step of a call; the runner's Notify is the service's two steps.
ProceedHandoff(w) ==
    \/ SaveNotification(w)
    \/ Send(w)
    \/ /\ pc[w] # "notify"
       /\ Proceed(w)
       /\ UNCHANGED <<notices, notifyErr>>

\* The caller's next call replaces what the last one returned.
InvokeHandoff(w) ==
    /\ Invoke(w)
    /\ notifyErr' = notifyErr \ {w}
    /\ UNCHANGED notices

CrashHandoff == Crash /\ notifyErr' = {} /\ UNCHANGED notices

NextHandoff ==
    \/ Tick /\ UNCHANGED <<notices, notifyErr>>
    \/ CrashHandoff
    \/ \E w \in Workers : ProceedHandoff(w) \/ InvokeHandoff(w)

HandoffSpec == InitHandoff /\ [][NextHandoff]_handoffVars

\* A running goroutine is scheduled until its call returns.
FairHandoffSpec ==
    HandoffSpec /\ \A w \in Workers : WF_handoffVars(ProceedHandoff(w))
-----------------------------------------------------------------------------
(* Properties *)

\* The runner does not tell the service's two steps apart.
runnerPc == [w \in Workers |-> IF pc[w] = "send" THEN "notify" ELSE pc[w]]

Runner == INSTANCE BrowserRunner WITH pc <- runnerPc

\* The service is a notifier as the runner knows it: one call, after which the
\* user may or may not have the link (pauseForHuman, runner.go:232-240).
RunnerSpec == Runner!Spec

\* A user never has a link of which the notification store knows nothing
\* (DECISIONS.md:311: the Service "always persists"), although a save that
\* failed, a crash after it and a failed Send leave the two apart
\* (notify, notification.go:97-110).
DeliveredIsRecorded == links \subseteq notices

\* The caller can tell a handoff that reached the user from one that did not:
\* without an error beside human_required, a link to the session it got back
\* was sent and is on record (pauseForHuman, runner.go:232-240).
CleanHandoffIsSent ==
    \A w \in Workers :
        pc[w] = "human_required" /\ w \notin notifyErr =>
            \E t \in links \cap notices : tokens[t].session = sess[w].id
=============================================================================
