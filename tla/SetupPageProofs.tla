---------------------------- MODULE SetupPageProofs ----------------------------
(***************************************************************************)
(* Theorems about SetupPage, for all delays and any number of scans and    *)
(* actions.                                                                *)
(***************************************************************************)
EXTENDS SetupPage, TLAPS

(* A poll on its way has a fetch timeout left to run; an answer's age and  *)
(* what is left of that timeout never exceed it together; and the same     *)
(* holds of what is shown and the staleness timer.                         *)
FetchRunning == poll # "timer" => pollTimer \in 0 .. FetchTimeout

AnswerFresh == poll = "answered" => answer.age + pollTimer <= FetchTimeout

ShownFresh ==
    shown.report # "unavailable" =>
        staleTimer # Off /\ shown.age + staleTimer <= FetchTimeout + ValidFor

IInv == TypeOK /\ FetchRunning /\ AnswerFresh /\ ShownFresh /\ InProgressIsPending

USE DelayAssumption, OffAssumption, BoundAssumption

LEMMA InitIInv == Init => IInv
<1> SUFFICES ASSUME Init PROVE IInv
  OBVIOUS
<1>1. answer \in Aged /\ shown \in Aged
  BY DEF Init, Nothing, Aged, Oldest
<1>2. pollTimer \in Countdown(FetchTimeout) /\ FetchRunning
  BY DEF Init, Countdown, FetchRunning
<1>3. TypeOK
  BY <1>1, <1>2 DEF Init, TypeOK, Countdown, Messages, PostActions
<1>4. AnswerFresh /\ ShownFresh /\ InProgressIsPending
  BY DEF Init, AnswerFresh, ShownFresh, InProgressIsPending, Nothing
<1> QED  BY <1>2, <1>3, <1>4 DEF IInv

(* What a message update leaves: the types, and the message's deadline.    *)
ActingOK ==
    /\ deadline \in Countdown(ActionTimeout) /\ message \in Messages
    /\ InProgressIsPending

LEMMA UpdateActing == ActingOK /\ updateTransitionMessage => ActingOK'
  BY DEF ActingOK, updateTransitionMessage, Countdown, Messages, InProgressIsPending, acting

LEMMA RenderActing ==
    ASSUME NEW report, ActingOK, renderNetworkStatus(report) PROVE ActingOK'
<1>1. CASE updateTransitionMessage  BY <1>1, UpdateActing
<1>2. CASE message' \in {"confirmed", "failed"} /\ deadline' = Off
  BY <1>2 DEF ActingOK, Countdown, Messages, InProgressIsPending
<1> QED  BY <1>1, <1>2 DEF renderNetworkStatus

(* Older keeps the type, and adds at most one to the age. *)
LEMMA OlderOK ==
    ASSUME NEW a \in Aged
    PROVE  /\ Older(a) \in Aged /\ Older(a).report = a.report
           /\ Older(a).age <= a.age + 1
<1>1. Older(a) = [report |-> a.report,
        age |-> IF a.report = "unavailable" \/ a.age = Oldest THEN a.age ELSE a.age + 1]
  BY DEF Older, Aged
<1> QED  BY <1>1 DEF Aged, Oldest

LEMMA StepIInv == IInv /\ [Next]_vars => IInv'
<1> SUFFICES ASSUME IInv, [Next]_vars PROVE IInv'
  OBVIOUS
<1>0. ActingOK
  BY DEF IInv, TypeOK, ActingOK
<1> USE DEF IInv, TypeOK, FetchRunning, AnswerFresh, ShownFresh, InProgressIsPending,
      Countdown, polling, showing, posting, acting, scanning
<1>1. CASE refreshState
  BY <1>1 DEF refreshState, scheduleRefresh
<1>2. CASE get_network
  BY <1>2 DEF get_network, Aged, Oldest
<1>3. CASE refresh_succeeds
  <2>1. ActingOK'  BY <1>3, <1>0, RenderActing DEF refresh_succeeds
  <2>2. /\ poll = "answered" /\ poll' = "timer" /\ pollTimer' = PollDelay
        /\ shown' = answer /\ staleTimer' = ValidFor
        /\ UNCHANGED <<network, answer, scanning, posting, asked>>
    BY <1>3 DEF refresh_succeeds, installFreshness, renders, scheduleRefresh
  <2> QED  BY <2>1, <2>2 DEF ActingOK, Aged
<1>4. CASE refresh_fails
  <2>1. ActingOK'  BY <1>4, <1>0, UpdateActing DEF refresh_fails
  <2>2. /\ poll' = "timer" /\ pollTimer' = RetryDelay
        /\ shown' = Nothing /\ staleTimer' = Off
        /\ UNCHANGED <<network, answer, scanning, posting, asked>>
    BY <1>4 DEF refresh_fails, invalidateDynamic, renders, scheduleRefresh
  <2> QED  BY <2>1, <2>2 DEF ActingOK, Aged, Nothing, Oldest
<1>5. CASE status_stale
  BY <1>5 DEF status_stale, invalidateDynamic, renders, Nothing, Aged, Oldest
<1>6. CASE scanWifi
  BY <1>6 DEF scanWifi, Messages
<1>7. CASE scan_returns
  BY <1>7 DEF scan_returns, Messages
<1>8. ASSUME NEW a \in PostActions, request(a) PROVE IInv'
  BY <1>8 DEF request, Messages
<1>9. ASSUME NEW a \in PostActions, post_is_served(a) PROVE IInv'
  BY <1>9 DEF post_is_served, Moves, Reports
<1>10. ASSUME NEW a \in PostActions, post_succeeds(a) PROVE IInv'
  BY <1>10 DEF post_succeeds, Messages
<1>11. ASSUME NEW a \in PostActions, post_fails(a) PROVE IInv'
  BY <1>11 DEF post_fails, rejectNetworkAction, Messages
<1>12. CASE network_changes
  BY <1>12 DEF network_changes
<1>13. CASE tick
  <2>1. /\ answer' \in Aged /\ answer'.age <= answer.age + 1
        /\ shown' \in Aged /\ shown'.age <= shown.age + 1
        /\ shown'.report = shown.report
    BY <1>13, OlderOK DEF tick
  <2>2. /\ pollTimer # 0 /\ pollTimer' = Down(pollTimer)
        /\ staleTimer # 0 /\ staleTimer' = Down(staleTimer)
        /\ scan' = Down(scan) /\ deadline' = Down(deadline)
        /\ postTimer' = [a \in PostActions |-> Down(postTimer[a])]
        /\ UNCHANGED <<network, poll, list, post, message, asked>>
    BY <1>13 DEF tick, Due
  <2>3. ASSUME NEW d \in Nat, NEW timer \in Countdown(d)
        PROVE  Down(timer) \in Countdown(d) /\ (Down(timer) = Off <=> timer = Off)
    BY <2>3 DEF Down
  <2>4. \A a \in PostActions : postTimer'[a] \in 0 .. PostTimeout
    BY <2>2 DEF Down
  <2>5. TypeOK'
    BY <2>1, <2>2, <2>3, <2>4
  <2>6. FetchRunning' /\ AnswerFresh'
    BY <2>1, <2>2 DEF Down, Aged
  <2>7. ShownFresh'
    BY <2>1, <2>2 DEF Down, Aged, Oldest
  <2>8. InProgressIsPending'
    BY <2>2, <2>3
  <2> QED  BY <2>5, <2>6, <2>7, <2>8
<1>14. CASE UNCHANGED vars
  BY <1>14 DEF vars
<1> QED
  BY <1>1, <1>2, <1>3, <1>4, <1>5, <1>6, <1>7, <1>8, <1>9, <1>10, <1>11, <1>12,
     <1>13, <1>14 DEF Next

THEOREM IInvCorrect == Spec => []IInv
  BY InitIInv, StepIInv, PTL DEF Spec

(* The timers of the page count down as they were armed (253-256, 162-169). *)
THEOREM TypeCorrect == Spec => []TypeOK
<1>1. IInv => TypeOK  BY DEF IInv
<1> QED  BY <1>1, IInvCorrect, PTL

(* Whatever is slow, fails or is scanned, nothing older than a fetch       *)
(* timeout and a validity is shown as current (162-169, 297).              *)
THEOREM ShownStaysRecent == Spec => []ShownIsRecent
<1>1. IInv => ShownIsRecent
  BY DEF IInv, TypeOK, ShownFresh, ShownIsRecent, Countdown, Aged, Oldest
<1> QED  BY <1>1, IInvCorrect, PTL

(* "In progress" is only said of an action that has a deadline (202-243).  *)
THEOREM InProgressStaysPending == Spec => []InProgressIsPending
<1>1. IInv => InProgressIsPending  BY DEF IInv
<1> QED  BY <1>1, IInvCorrect, PTL
=============================================================================
