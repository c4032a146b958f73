---------------------------- MODULE NetworkIpcProofs ----------------------------
(***************************************************************************)
(* Theorems about NetworkIpc, for any set of calls, any backlog and any    *)
(* number of restarts and lost links.                                      *)
(***************************************************************************)
EXTENDS NetworkIpc, TLAPS

Before(s, c, d) == \E i, j \in DOMAIN s : i < j /\ s[i] = c /\ s[j] = d

(* The calls that the daemon has yet to answer. *)
Pending(c) == c = serving \/ \E k \in DOMAIN backlog : backlog[k] = c

(* The socket is a queue: what waits in it, and what is served, was sent   *)
(* in that order, and after everything that has its answer.                *)
OrderInv ==
    /\ \A i, j \in DOMAIN sent : sent[i] = sent[j] => i = j
    /\ \A i \in DOMAIN sent : outcome[sent[i]] # "unused"
    /\ \A k \in DOMAIN backlog : \E i \in DOMAIN sent : sent[i] = backlog[k]
    /\ serving # None => \E i \in DOMAIN sent : sent[i] = serving
    /\ \A c \in Calls : outcome[c] \in Answers => \E i \in DOMAIN sent : sent[i] = c
    /\ \A k, l \in DOMAIN backlog : k < l => Before(sent, backlog[k], backlog[l])
    /\ serving # None => \A k \in DOMAIN backlog : Before(sent, serving, backlog[k])
    /\ \A c, d \in Calls : outcome[c] \in Answers /\ Pending(d) => Before(sent, c, d)

Held == {queued, running} \cup done

(* A call is in the controller's hands only after it was dispatched, and   *)
(* then its answer is that it was accepted.                                *)
WorkInv ==
    /\ \A c \in Calls : outcome[c] = "unused" => c \notin Held
    /\ \A k \in DOMAIN backlog : backlog[k] \notin Held
    /\ serving # None /\ ~ (spc = "send" /\ response = "accepted") => serving \notin Held
    /\ spc = "send" /\ response = "accepted" =>
          action[serving] \in Changes /\ (serving \in Held \/ restarts > 0)
    /\ RejectedLeavesNothing /\ AcceptedIsReal

(* The inductive invariant.                                                *)
IInv == TypeOK /\ OrderInv /\ WorkInv

USE DEF vars, server, controller, bounds, ipc_thread, worker, Work!request, Work!process_next,
        Work!item_moves, Work!item_ends, Work!reconcile, Work!restart

-----------------------------------------------------------------------------
(* Every variable keeps its type.                                          *)
LEMMA TypeInit == Init => TypeOK
BY BoundAssumption
   DEF Init, Work!Init, TypeOK, Actions, Changes, Answers, Work!BusyModes, Work!SettledModes, Items

LEMMA TypeNext == TypeOK /\ [Next]_vars => TypeOK'
<1> SUFFICES ASSUME TypeOK, [Next]_vars PROVE TypeOK'
  OBVIOUS
<1> USE BoundAssumption, NoneAssumption
    DEF TypeOK, Answers, Work!BusyModes, Work!SettledModes, Items
<1>1. ASSUME NEW c \in Calls, connect(c) PROVE TypeOK'
  <2>1. backlog' \in Seq(Calls) /\ Len(backlog') <= Backlog /\ sent' \in Seq(Calls)
    <3>1. /\ Append(backlog, c) \in Seq(Calls) /\ Append(sent, c) \in Seq(Calls)
          /\ Len(Append(backlog, c)) = Len(backlog) + 1
      OBVIOUS
    <3>2. CASE Len(backlog) < Backlog /\ backlog' = Append(backlog, c) /\ sent' = Append(sent, c)
      BY <3>1, <3>2
    <3>3. CASE UNCHANGED <<backlog, sent>>
      BY <3>3
    <3> QED
      BY <1>1, <3>2, <3>3 DEF connect
  <2>2. outcome' \in [Calls -> {"unused", "waiting", "unavailable"} \cup Answers]
    BY <1>1 DEF connect, Learns
  <2> QED
    BY <1>1, <2>1, <2>2 DEF connect
<1>2. ASSUME NEW c \in Calls, times_out(c) PROVE TypeOK'
  BY <1>2 DEF times_out, Learns
<1>3. CASE accept
  BY <1>3 DEF accept
<1>4. CASE _receive_request \/ _dispatch_invalid \/ _dispatch_status \/ _dispatch_scan
  BY <1>4 DEF _receive_request, _dispatch_invalid, _dispatch_status, _dispatch_scan,
       Refuses, Answer
<1>5. CASE _dispatch_change
  BY <1>5 DEF _dispatch_change, Refuses, Answer, Enqueues
<1>6. CASE send
  BY <1>6 DEF send, Learns
<1>7. CASE scan_ends
  BY <1>7 DEF scan_ends, Answer
<1>8. CASE worker
  BY <1>8 DEF process_next, item_moves, item_ends, reconcile
<1>9. CASE restart
  BY <1>9 DEF restart
<1>10. CASE UNCHANGED vars
  BY <1>10
<1> QED
  BY <1>1, <1>2, <1>3, <1>4, <1>5, <1>6, <1>7, <1>8, <1>9, <1>10 DEF Next

THEOREM TypeCorrect == Spec => []TypeOK
BY TypeInit, TypeNext, PTL DEF Spec

-----------------------------------------------------------------------------
(* Requests are taken out of the socket in the order in which they came.   *)
LEMMA OrderInit == Init => OrderInv
BY DEF Init, OrderInv, Pending, Answers

(* Steps that neither send nor answer, and take in nothing. *)
LEMMA OrderKept ==
    ASSUME OrderInv, TypeOK, UNCHANGED <<sent, backlog>>, serving' \in {serving, None},
           \A c \in Calls : outcome'[c] \in Answers \cup {"unused"} => outcome'[c] = outcome[c]
    PROVE  OrderInv'
<1>1. \A i \in DOMAIN sent : sent[i] \in Calls
  BY DEF TypeOK
<1>2. \A d \in Calls : Pending(d)' => Pending(d)
  BY NoneAssumption DEF Pending
<1>3. \A i \in DOMAIN sent : outcome'[sent[i]] # "unused"
  BY <1>1 DEF OrderInv
<1> QED
  BY <1>2, <1>3 DEF OrderInv

(* A call that is sent comes after all others. *)
LEMMA OrderSent ==
    ASSUME IInv, NEW c \in Calls, connect(c),
           backlog' = Append(backlog, c), sent' = Append(sent, c)
    PROVE  OrderInv'
<1> DEFINE n == Len(sent) + 1
           m == Len(backlog) + 1
<1> USE DEF IInv
<1>1. /\ sent \in Seq(Calls) /\ backlog \in Seq(Calls)
      /\ n \in Nat /\ m \in Nat
      /\ DOMAIN sent' = DOMAIN sent \cup {n} /\ sent'[n] = c
      /\ \A i \in DOMAIN sent : sent'[i] = sent[i] /\ i < n /\ i \in Nat
      /\ DOMAIN backlog' = DOMAIN backlog \cup {m} /\ backlog'[m] = c
      /\ \A k \in DOMAIN backlog : backlog'[k] = backlog[k] /\ k < m /\ k \in Nat
  BY DEF TypeOK
<1>2. /\ outcome[c] = "unused" /\ outcome' = [outcome EXCEPT ![c] = "waiting"]
      /\ outcome \in [Calls -> {"unused", "waiting", "unavailable"} \cup Answers]
      /\ serving' = serving /\ Len(backlog') = Len(backlog) + 1
  BY DEF connect, Learns, TypeOK
<1>3. \A i \in DOMAIN sent : sent[i] # c /\ sent[i] \in Calls
  BY <1>1, <1>2 DEF OrderInv
<1> HIDE DEF n, m
<1>4. \A x, y : Before(sent, x, y) => Before(sent', x, y)
  BY <1>1 DEF Before
<1>5. \A i \in DOMAIN sent : Before(sent', sent[i], c)
  BY <1>1 DEF Before
<1>6. \A i, j \in DOMAIN sent' : sent'[i] = sent'[j] => i = j
  BY <1>1, <1>3 DEF OrderInv
<1>7. \A i \in DOMAIN sent' : outcome'[sent'[i]] # "unused"
  BY <1>1, <1>2, <1>3 DEF OrderInv
<1>8. \A k \in DOMAIN backlog : Before(sent', backlog[k], c)
  BY <1>5 DEF OrderInv
<1>9. \A k, l \in DOMAIN backlog' : k < l => Before(sent', backlog'[k], backlog'[l])
  <2> SUFFICES ASSUME NEW k \in DOMAIN backlog', NEW l \in DOMAIN backlog', k < l
               PROVE  Before(sent', backlog'[k], backlog'[l])
    OBVIOUS
  <2>1. k \in DOMAIN backlog
    BY <1>1
  <2>2. CASE l = m
    BY <1>1, <1>8, <2>1, <2>2
  <2>3. CASE l \in DOMAIN backlog
    BY <1>1, <1>4, <2>1, <2>3 DEF OrderInv
  <2> QED
    BY <1>1, <2>2, <2>3
<1>10. serving' # None => \A k \in DOMAIN backlog' : Before(sent', serving', backlog'[k])
  BY <1>1, <1>2, <1>4, <1>5 DEF OrderInv
<1>11. \A d \in Calls : outcome'[d] \in Answers => outcome[d] \in Answers /\ d # c
  BY <1>2 DEF Answers
<1>12. /\ \A k \in DOMAIN backlog' : \E i \in DOMAIN sent' : sent'[i] = backlog'[k]
       /\ serving' # None => \E i \in DOMAIN sent' : sent'[i] = serving'
       /\ \A d \in Calls : outcome'[d] \in Answers => \E i \in DOMAIN sent' : sent'[i] = d
  <2>1. \A i \in DOMAIN sent : i \in DOMAIN sent' /\ sent'[i] = sent[i]
    BY <1>1
  <2>2. n \in DOMAIN sent' /\ sent'[n] = c
    BY <1>1
  <2>3. \A k \in DOMAIN backlog' : \E i \in DOMAIN sent' : sent'[i] = backlog'[k]
    <3> SUFFICES ASSUME NEW k \in DOMAIN backlog'
                 PROVE  \E i \in DOMAIN sent' : sent'[i] = backlog'[k]
      OBVIOUS
    <3>1. CASE k = m
      BY <1>1, <2>2, <3>1
    <3>2. CASE k \in DOMAIN backlog
      <4>1. PICK i \in DOMAIN sent : sent[i] = backlog[k]
        BY <3>2 DEF OrderInv
      <4>2. i \in DOMAIN sent' /\ sent'[i] = backlog'[k]
        BY <1>1, <2>1, <3>2, <4>1
      <4> QED
        BY <4>2
    <3> QED
      BY <1>1, <3>1, <3>2
  <2>4. serving' # None => \E i \in DOMAIN sent' : sent'[i] = serving'
    BY <1>2, <2>1 DEF OrderInv
  <2>5. \A d \in Calls : outcome'[d] \in Answers => \E i \in DOMAIN sent' : sent'[i] = d
    BY <1>11, <2>1 DEF OrderInv
  <2> QED
    BY <2>3, <2>4, <2>5
<1>13. \A x, d \in Calls : outcome'[x] \in Answers /\ Pending(d)' => Before(sent', x, d)
  <2> SUFFICES ASSUME NEW x \in Calls, NEW d \in Calls, outcome'[x] \in Answers, Pending(d)'
               PROVE  Before(sent', x, d)
    OBVIOUS
  <2>1. PICK i \in DOMAIN sent : sent[i] = x
    BY <1>11 DEF OrderInv
  <2>2. CASE d = c
    BY <1>5, <2>1, <2>2
  <2>3. CASE d # c
    <3>1. Pending(d)
      BY <1>1, <1>2, <2>3 DEF Pending
    <3> QED
      BY <1>4, <1>11, <3>1 DEF OrderInv
  <2> QED
    BY <2>2, <2>3
<1> QED
  BY <1>6, <1>7, <1>9, <1>10, <1>12, <1>13 DEF OrderInv

(* The oldest one is taken. *)
LEMMA OrderAccepted == IInv /\ accept => OrderInv'
<1> SUFFICES ASSUME IInv, accept PROVE OrderInv'
  OBVIOUS
<1> USE DEF IInv
<1>1. /\ serving' = backlog[1] /\ sent' = sent /\ outcome' = outcome
      /\ serving = None /\ backlog # <<>>
      /\ backlog' = Tail(backlog) /\ backlog \in Seq(Calls)
  BY DEF accept, TypeOK
<1>2. /\ 1 \in DOMAIN backlog
      /\ \A k \in DOMAIN backlog' :
            k + 1 \in DOMAIN backlog /\ backlog'[k] = backlog[k + 1] /\ k \in Nat /\ k >= 1
  BY <1>1
<1>3. \A d \in Calls : Pending(d)' => Pending(d)
  BY <1>1, <1>2 DEF Pending
<1>4. \A k, l \in DOMAIN backlog' : k < l => Before(sent', backlog'[k], backlog'[l])
  BY <1>1, <1>2 DEF OrderInv
<1>5. \A k \in DOMAIN backlog' : Before(sent', serving', backlog'[k])
  BY <1>1, <1>2 DEF OrderInv
<1>6. /\ \A k \in DOMAIN backlog' : \E i \in DOMAIN sent' : sent'[i] = backlog'[k]
      /\ \E i \in DOMAIN sent' : sent'[i] = serving'
  BY <1>1, <1>2 DEF OrderInv
<1>7. \A c, d \in Calls : outcome'[c] \in Answers /\ Pending(d)' => Before(sent', c, d)
  BY <1>1, <1>3 DEF OrderInv
<1> QED
  BY <1>1, <1>4, <1>5, <1>6, <1>7 DEF OrderInv

(* What is answered was sent before all that still wait. *)
LEMMA OrderAnswered == IInv /\ send => OrderInv'
<1> SUFFICES ASSUME IInv, send PROVE OrderInv'
  OBVIOUS
<1> USE DEF IInv
<1>1. /\ serving \in Calls /\ serving' = None /\ UNCHANGED <<sent, backlog>>
      /\ \A c \in Calls : c # serving => outcome'[c] = outcome[c]
      /\ outcome'[serving] # "unused" \/ outcome'[serving] = outcome[serving]
      /\ serving # None
  BY NoneAssumption DEF send, Learns, TypeOK, Answers
<1>2. \A d \in Calls : Pending(d)' => Pending(d) /\ \E k \in DOMAIN backlog : backlog[k] = d
  BY <1>1, NoneAssumption DEF Pending
<1>3. \A c, d \in Calls : outcome'[c] \in Answers /\ Pending(d)' => Before(sent, c, d)
  BY <1>1, <1>2 DEF OrderInv
<1>4. \A i \in DOMAIN sent : sent[i] \in Calls /\ outcome'[sent[i]] # "unused"
  BY <1>1 DEF TypeOK, OrderInv
<1>5. \A c \in Calls : outcome'[c] \in Answers => \E i \in DOMAIN sent : sent[i] = c
  BY <1>1 DEF OrderInv
<1> QED
  BY <1>1, <1>3, <1>4, <1>5 DEF OrderInv

LEMMA OrderNext == IInv /\ [Next]_vars => OrderInv'
<1> SUFFICES ASSUME IInv, [Next]_vars PROVE OrderInv'
  OBVIOUS
<1> USE DEF IInv
<1>1. ASSUME NEW c \in Calls, connect(c) PROVE OrderInv'
  <2>1. CASE UNCHANGED <<backlog, sent>>
    BY <1>1, <2>1, OrderKept DEF connect, Learns, TypeOK, Answers
  <2>2. CASE backlog' = Append(backlog, c) /\ sent' = Append(sent, c)
    BY <1>1, <2>2, OrderSent
  <2> QED
    BY <1>1, <2>1, <2>2 DEF connect
<1>2. ASSUME NEW c \in Calls, times_out(c) PROVE OrderInv'
  BY <1>2, OrderKept DEF times_out, Learns, TypeOK, Answers
<1>3. CASE accept
  BY <1>3, OrderAccepted
<1>4. CASE send
  BY <1>4, OrderAnswered
<1>5. CASE restart
  <2>1. /\ sent' = sent /\ backlog' = <<>> /\ serving' = None
        /\ \A c \in Calls : outcome'[c] \in Answers \cup {"unused"} => outcome'[c] = outcome[c]
        /\ \A i \in DOMAIN sent : sent[i] \in Calls
    BY <1>5 DEF restart, TypeOK, Answers
  <2>2. \A d \in Calls : ~ Pending(d)'
    BY <2>1, NoneAssumption DEF Pending
  <2> QED
    BY <2>1, <2>2 DEF OrderInv
<1>6. CASE _receive_request \/ _dispatch_invalid \/ _dispatch_status \/ _dispatch_scan
            \/ _dispatch_change \/ scan_ends
  BY <1>6, OrderKept DEF _receive_request, _dispatch_invalid, _dispatch_status,
     _dispatch_scan, _dispatch_change, scan_ends
<1>7. CASE worker
  BY <1>7, OrderKept DEF process_next, item_moves, item_ends, reconcile
<1>8. CASE UNCHANGED vars
  BY <1>8, OrderKept
<1> QED
  BY <1>1, <1>2, <1>3, <1>4, <1>5, <1>6, <1>7, <1>8 DEF Next

(* A call that has its answer is not looked at again, and none comes twice. *)
LEMMA Once ==
    ASSUME IInv
    PROVE  /\ \A c : ~ Before(sent, c, c)
           /\ \A c \in Calls : Pending(c) => outcome[c] \notin Answers
           /\ serving # None =>
                /\ serving \in Calls /\ outcome[serving] # "unused"
                /\ \A k \in DOMAIN backlog : backlog[k] # serving
<1>1. \A c : ~ Before(sent, c, c)
  BY DEF IInv, OrderInv, TypeOK, Before
<1> QED
  BY <1>1 DEF IInv, OrderInv, TypeOK, Pending

-----------------------------------------------------------------------------
(* What the controller holds of the calls is what they were told.          *)
LEMMA WorkInit == Init => WorkInv
BY NoneAssumption DEF Init, Work!Init, WorkInv, Held, RejectedLeavesNothing, AcceptedIsReal

(* Steps that leave the socket, the answer and the set of works alone. *)
LEMMA WorkKept ==
    ASSUME IInv, UNCHANGED <<action, backlog, restarts>>,
           \A c \in Calls : c \in Held' <=> c \in Held,
           \A c \in Calls : outcome'[c] # outcome[c] => outcome'[c] \in {"waiting", "unavailable"},
           \/ UNCHANGED <<spc, serving, response>>
           \/ /\ serving' = serving /\ spc # "send"
              /\ ~ (spc' = "send" /\ response' = "accepted")
    PROVE  WorkInv'
<1> USE DEF IInv, WorkInv
<1>1. /\ \A k \in DOMAIN backlog : backlog[k] \in Calls
      /\ serving # None => serving \in Calls
      /\ restarts' > 0 <=> restarts > 0
  BY DEF TypeOK
<1>2. \A c \in Calls : outcome'[c] = "unused" => c \notin Held'
  OBVIOUS
<1>3. RejectedLeavesNothing' /\ AcceptedIsReal'
  BY <1>1 DEF RejectedLeavesNothing, AcceptedIsReal, Held
<1>4. serving' # None /\ ~ (spc' = "send" /\ response' = "accepted") => serving' \notin Held'
  <2>1. CASE UNCHANGED <<spc, serving, response>>
    BY <1>1, <2>1
  <2>2. CASE serving' = serving /\ spc # "send"
    BY <1>1, <2>2
  <2> QED
    BY <2>1, <2>2
<1>5. spc' = "send" /\ response' = "accepted" =>
          action'[serving'] \in Changes /\ (serving' \in Held' \/ restarts' > 0)
  BY <1>1 DEF TypeOK
<1> QED
  BY <1>1, <1>2, <1>3, <1>4, <1>5

LEMMA WorkNext == IInv /\ [Next]_vars => WorkInv'
<1> SUFFICES ASSUME IInv, [Next]_vars PROVE WorkInv'
  OBVIOUS
<1> USE NoneAssumption DEF IInv
<1>1. ASSUME NEW c \in Calls, connect(c) PROVE WorkInv'
  <2>1. CASE UNCHANGED backlog
    BY <1>1, <2>1, WorkKept DEF connect, Learns, TypeOK, Held
  <2>2. CASE backlog' = Append(backlog, c)
    <3>1. /\ outcome[c] = "unused" /\ c \notin Held /\ Held' = Held
          /\ UNCHANGED <<action, spc, serving, response, restarts>>
          /\ \A d \in Calls : outcome'[d] # outcome[d] => outcome'[d] = "waiting"
          /\ \A d \in Calls : outcome'[d] = "unused" => outcome[d] = "unused"
      BY <1>1, <2>2 DEF connect, Learns, TypeOK, WorkInv, Held
    <3>2. \A k \in DOMAIN backlog' : backlog'[k] \notin Held'
      BY <2>2, <3>1 DEF TypeOK, WorkInv
    <3>3. RejectedLeavesNothing' /\ AcceptedIsReal'
      BY <1>1, <3>1 DEF connect, RejectedLeavesNothing, AcceptedIsReal, WorkInv
    <3> QED
      BY <3>1, <3>2, <3>3 DEF WorkInv
  <2> QED
    BY <1>1, <2>1, <2>2 DEF connect
<1>2. ASSUME NEW c \in Calls, times_out(c) PROVE WorkInv'
  BY <1>2, WorkKept DEF times_out, Learns, TypeOK, Held
<1>3. CASE accept
  <2>1. /\ backlog # <<>> /\ serving' = backlog[1] /\ backlog' = Tail(backlog)
        /\ Held' = Held /\ spc' = "receive"
        /\ UNCHANGED <<action, outcome, queued, running, done, restarts>>
    BY <1>3 DEF accept, Held
  <2>2. /\ 1 \in DOMAIN backlog
        /\ \A k \in DOMAIN backlog' : k + 1 \in DOMAIN backlog /\ backlog'[k] = backlog[k + 1]
    BY <2>1 DEF TypeOK
  <2>3. RejectedLeavesNothing' /\ AcceptedIsReal'
    BY <2>1 DEF RejectedLeavesNothing, AcceptedIsReal, WorkInv
  <2> QED
    BY <2>1, <2>2, <2>3 DEF WorkInv
<1>4. CASE _receive_request \/ _dispatch_invalid \/ _dispatch_status \/ _dispatch_scan
            \/ scan_ends
  BY <1>4, WorkKept DEF _receive_request, _dispatch_invalid, _dispatch_status,
     _dispatch_scan, scan_ends, Refuses, Answer, Held
<1>5. CASE _dispatch_change
  <2>1. /\ serving \in Calls /\ action[serving] \in Changes /\ serving \notin Held
        /\ UNCHANGED <<action, outcome, backlog, serving, running, restarts>>
        /\ spc = "dispatch" /\ spc' = "send"
    BY <1>5 DEF _dispatch_change, Enqueues, Answer, Refuses, TypeOK, WorkInv
  <2>2. CASE response' = "rejected"
    BY <1>5, <2>1, <2>2, WorkKept DEF _dispatch_change, Enqueues, Answer, Refuses, Held
  <2>3. CASE response' = "accepted"
    <3>1. /\ \A c \in Calls : c \in Held' <=> c \in Held \/ c = serving
          /\ serving \in Held'
      BY <1>5, <2>1, <2>3 DEF _dispatch_change, Enqueues, Answer, Refuses, Held
    <3>2. /\ outcome[serving] # "unused" /\ outcome[serving] \notin Answers
          /\ \A k \in DOMAIN backlog : backlog[k] # serving /\ backlog[k] \in Calls
      BY <2>1, Once DEF Pending, TypeOK
    <3>3. RejectedLeavesNothing' /\ AcceptedIsReal'
      BY <2>1, <3>1, <3>2
         DEF RejectedLeavesNothing, AcceptedIsReal, WorkInv, Held, Answers
    <3> QED
      BY <2>1, <2>3, <3>1, <3>2, <3>3 DEF WorkInv
  <2> QED
    BY <1>5, <2>2, <2>3 DEF _dispatch_change, Enqueues, Answer, Refuses
<1>6. CASE send
  <2>1. /\ serving \in Calls /\ spc = "send" /\ spc' = "accept" /\ serving' = None
        /\ Held' = Held /\ UNCHANGED <<action, backlog, queued, running, done, restarts>>
        /\ \A c \in Calls : c # serving => outcome'[c] = outcome[c]
        /\ outcome'[serving] \in {outcome[serving], response}
        /\ outcome[serving] # "unused" /\ outcome[serving] \notin Answers
    BY <1>6, Once DEF send, Learns, TypeOK, Held, Pending
  <2>2. \A c \in Calls : outcome'[c] = "unused" => outcome[c] = "unused"
    BY <2>1 DEF TypeOK, Answers
  <2>3. RejectedLeavesNothing'
    BY <2>1 DEF RejectedLeavesNothing, WorkInv, Held, TypeOK, Answers
  <2>4. AcceptedIsReal'
    BY <2>1 DEF AcceptedIsReal, WorkInv, Held, TypeOK, Answers
  <2> QED
    BY <2>1, <2>2, <2>3, <2>4 DEF WorkInv
<1>7. CASE worker
  BY <1>7, WorkKept DEF process_next, item_moves, item_ends, reconcile, Held, TypeOK
<1>8. CASE restart
  <2>1. /\ \A c \in Calls : c \in Held' => c \in Held
        /\ \A c \in Calls : outcome'[c] \in {"unused"} \cup Answers => outcome'[c] = outcome[c]
        /\ backlog' = <<>> /\ serving' = None /\ restarts' > 0 /\ spc' = "accept"
        /\ UNCHANGED action
    BY <1>8, BoundAssumption DEF restart, Held, TypeOK, Answers
  <2>2. RejectedLeavesNothing' /\ AcceptedIsReal'
    BY <2>1 DEF RejectedLeavesNothing, AcceptedIsReal, WorkInv, Held, Answers
  <2> QED
    BY <2>1, <2>2 DEF WorkInv
<1>9. CASE UNCHANGED vars
  BY <1>9, WorkKept DEF Held
<1> QED
  BY <1>1, <1>2, <1>3, <1>4, <1>5, <1>6, <1>7, <1>8, <1>9 DEF Next

-----------------------------------------------------------------------------
LEMMA Invariance == Spec => []IInv
<1>1. Init => IInv
  BY TypeInit, OrderInit, WorkInit DEF IInv
<1>2. IInv /\ [Next]_vars => IInv'
  BY TypeNext, OrderNext, WorkNext DEF IInv
<1> QED
  BY <1>1, <1>2, PTL DEF Spec

(* A change that was answered with an error is neither queued nor carried  *)
(* out, whatever else is asked before and after it: _enqueue_transition_   *)
(* locked raises before it changes anything.                               *)
THEOREM RejectionsLeaveNothing == Spec => []RejectedLeavesNothing
<1>1. IInv => RejectedLeavesNothing
  BY DEF IInv, WorkInv
<1> QED
  BY <1>1, Invariance, PTL

(* An accepted change is queued, under way or done, or a restart lost it.  *)
THEOREM AcceptancesAreReal == Spec => []AcceptedIsReal
<1>1. IInv => AcceptedIsReal
  BY DEF IInv, WorkInv
<1> QED
  BY <1>1, Invariance, PTL

(* Nothing that was sent before an answered call still waits for the       *)
(* server, whether its own caller gave up or not.                          *)
THEOREM AnswersAreInOrder == Spec => []AnsweredInOrder
<1>1. ASSUME IInv PROVE AnsweredInOrder
  <2> USE <1>1 DEF IInv
  <2> SUFFICES ASSUME NEW i \in DOMAIN sent, NEW j \in DOMAIN sent, i < j,
                      outcome[sent[j]] \in Answers, Pending(sent[i])
               PROVE  FALSE
    BY DEF AnsweredInOrder, Pending
  <2>1. sent[i] \in Calls /\ sent[j] \in Calls /\ i \in Nat /\ j \in Nat
    BY DEF TypeOK
  <2>2. Before(sent, sent[j], sent[i])
    BY <2>1 DEF OrderInv
  <2>3. PICK k, l \in DOMAIN sent : k < l /\ sent[k] = sent[j] /\ sent[l] = sent[i]
    BY <2>2 DEF Before
  <2>4. k = j /\ l = i
    BY <2>3 DEF OrderInv
  <2> QED
    BY <2>1, <2>3, <2>4
<1> QED
  BY <1>1, Invariance, PTL
=============================================================================
