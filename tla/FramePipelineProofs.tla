-------------------------- MODULE FramePipelineProofs --------------------------
(***************************************************************************)
(* Theorems about FramePipeline, for every period, guard, limit and bound. *)
(***************************************************************************)
EXTENDS FramePipeline, TLAPS

USE TimeAssumption, NoneAssumption

-----------------------------------------------------------------------------
(* Types *)

LEMMA TypeInit == Init => TypeOK
  BY DEF Init, TypeOK, Time, Slot

LEMMA TypeNext == TypeOK /\ [Next]_vars => TypeOK'
<1> SUFFICES ASSUME TypeOK, [Next]_vars PROVE TypeOK'
  OBVIOUS
<1> USE DEF TypeOK, Time, Slot, Full, capture, decoder, decided, decoded, main
<1>1. CASE tick  BY <1>1 DEF tick
<1>2. CASE pull  BY <1>2 DEF pull
<1>22. CASE while_condition  BY <1>22 DEF while_condition
<1>3. CASE store  BY <1>3 DEF store
<1>4. CASE count_capture  BY <1>4 DEF count_capture
<1>5. CASE set_event  BY <1>5 DEF set_event
<1>6. CASE loop_condition  BY <1>6 DEF loop_condition, Others
<1>7. CASE wait  BY <1>7 DEF wait, Others
<1>8. CASE clear_event  BY <1>8 DEF clear_event, Others
<1>9. CASE take_compressed  BY <1>9 DEF take_compressed, Others
<1>10. CASE check  BY <1>10 DEF check, drops_early, drops_stale, accepts, advances_due, due, Others
<1>11. CASE decode  BY <1>11 DEF decode, Others
<1>12. CASE publish  BY <1>12 DEF publish, Others
<1>13. CASE count_prepared  BY <1>13 DEF count_prepared, Others
<1>14. CASE wait_for_camera_start
  BY <1>14 DEF wait_for_camera_start, Workers, GStreamerError
<1>15. CASE loop  BY <1>15 DEF loop, Workers, GStreamerError
<1>16. CASE take_prepared  BY <1>16 DEF take_prepared, Workers
<1>17. CASE infer  BY <1>17 DEF infer, Workers
<1>18. CASE finish  BY <1>18 DEF finish, Workers
<1>19. CASE set_stop  BY <1>19 DEF set_stop, Workers
<1>20. CASE wake  BY <1>20 DEF wake, Workers
<1>21. CASE UNCHANGED vars  BY <1>21 DEF vars
<1> QED
  BY <1>1, <1>2, <1>3, <1>4, <1>5, <1>6, <1>7, <1>8, <1>9, <1>10, <1>11, <1>12,
     <1>13, <1>14, <1>15, <1>16, <1>17, <1>18, <1>19, <1>20, <1>21, <1>22
  DEF Next, capture_worker, decode_worker, main_thread

(* The pipeline's variables keep their types.                              *)
THEOREM TypeCorrect == Spec => []TypeOK
  BY TypeInit, TypeNext, PTL DEF Spec

-----------------------------------------------------------------------------
(* No lost wakeup: inductive as it stands. *)

LEMMA WakeupNext == TypeOK /\ NoLostWakeup /\ [Next]_vars => NoLostWakeup'
<1> SUFFICES ASSUME TypeOK, NoLostWakeup, [Next]_vars PROVE NoLostWakeup'
  OBVIOUS
<1> USE DEF TypeOK, Time, Slot, Full, capture, decoder, decided, decoded, main, NoLostWakeup
<1>1. CASE tick  BY <1>1 DEF tick
<1>2. CASE pull  BY <1>2 DEF pull
<1>22. CASE while_condition  BY <1>22 DEF while_condition
<1>3. CASE store  BY <1>3 DEF store
<1>4. CASE count_capture  BY <1>4 DEF count_capture
<1>5. CASE set_event  BY <1>5 DEF set_event
<1>6. CASE loop_condition  BY <1>6 DEF loop_condition, Others
<1>7. CASE wait  BY <1>7 DEF wait, Others
<1>8. CASE clear_event  BY <1>8 DEF clear_event, Others
<1>9. CASE take_compressed  BY <1>9 DEF take_compressed, Others
<1>10. CASE check  BY <1>10 DEF check, drops_early, drops_stale, accepts, advances_due, due, Others
<1>11. CASE decode  BY <1>11 DEF decode, Others
<1>12. CASE publish  BY <1>12 DEF publish, Others
<1>13. CASE count_prepared  BY <1>13 DEF count_prepared, Others
<1>14. CASE wait_for_camera_start  BY <1>14 DEF wait_for_camera_start, Workers, GStreamerError
<1>15. CASE loop  BY <1>15 DEF loop, Workers, GStreamerError
<1>16. CASE take_prepared  BY <1>16 DEF take_prepared, Workers
<1>17. CASE infer  BY <1>17 DEF infer, Workers
<1>18. CASE finish  BY <1>18 DEF finish, Workers
<1>19. CASE set_stop  BY <1>19 DEF set_stop, Workers
<1>20. CASE wake  BY <1>20 DEF wake, Workers
<1>21. CASE UNCHANGED vars  BY <1>21 DEF vars
<1> QED
  BY <1>1, <1>2, <1>3, <1>4, <1>5, <1>6, <1>7, <1>8, <1>9, <1>10, <1>11, <1>12,
     <1>13, <1>14, <1>15, <1>16, <1>17, <1>18, <1>19, <1>20, <1>21, <1>22
  DEF Next, capture_worker, decode_worker, main_thread

(* A frame in the slot always has the decoder's attention (194 before 199, *)
(* 135 before 138).                                                        *)
THEOREM WakeupsAreKept == Spec => []NoLostWakeup
<1>1. Init => NoLostWakeup
  BY DEF Init, NoLostWakeup
<1> QED  BY TypeInit, TypeNext, <1>1, WakeupNext, PTL DEF Spec

-----------------------------------------------------------------------------
(* A stop is heard: the flag is up before the event is set, so a decoder   *)
(* that goes to sleep after that has not seen the flag, which it would.    *)

StopInv == (mpc \in {"wake", "join"} => stop = "yes") /\ StopIsHeard

LEMMA StopNext == TypeOK /\ StopInv /\ [Next]_vars => StopInv'
<1> SUFFICES ASSUME TypeOK, StopInv, [Next]_vars PROVE StopInv'
  OBVIOUS
<1> USE DEF TypeOK, capture, decoder, decided, decoded, main, StopInv, StopIsHeard
<1>1. CASE tick  BY <1>1 DEF tick
<1>2. CASE pull  BY <1>2 DEF pull
<1>22. CASE while_condition  BY <1>22 DEF while_condition
<1>3. CASE store  BY <1>3 DEF store
<1>4. CASE count_capture  BY <1>4 DEF count_capture
<1>5. CASE set_event  BY <1>5 DEF set_event
<1>6. CASE loop_condition  BY <1>6 DEF loop_condition, Others
<1>7. CASE wait  BY <1>7 DEF wait, Others
<1>8. CASE clear_event  BY <1>8 DEF clear_event, Others
<1>9. CASE take_compressed  BY <1>9 DEF take_compressed, Others
<1>10. CASE check  BY <1>10 DEF check, drops_early, drops_stale, accepts, advances_due, due, Others
<1>11. CASE decode  BY <1>11 DEF decode, Others
<1>12. CASE publish  BY <1>12 DEF publish, Others
<1>13. CASE count_prepared  BY <1>13 DEF count_prepared, Others
<1>14. CASE wait_for_camera_start  BY <1>14 DEF wait_for_camera_start, Workers, GStreamerError
<1>15. CASE loop  BY <1>15 DEF loop, Workers, GStreamerError
<1>16. CASE take_prepared  BY <1>16 DEF take_prepared, Workers
<1>17. CASE infer  BY <1>17 DEF infer, Workers
<1>18. CASE finish  BY <1>18 DEF finish, Workers
<1>19. CASE set_stop  BY <1>19 DEF set_stop, Workers
<1>20. CASE wake  BY <1>20 DEF wake, Workers
<1>21. CASE UNCHANGED vars  BY <1>21 DEF vars
<1> QED
  BY <1>1, <1>2, <1>3, <1>4, <1>5, <1>6, <1>7, <1>8, <1>9, <1>10, <1>11, <1>12,
     <1>13, <1>14, <1>15, <1>16, <1>17, <1>18, <1>19, <1>20, <1>21, <1>22
  DEF Next, capture_worker, decode_worker, main_thread

(* Main never joins a decoder that sleeps with the event clear (361-368).  *)
THEOREM StopsAreHeard == Spec => []StopIsHeard
<1>1. Init => StopInv
  BY DEF Init, StopInv, StopIsHeard
<1>2. StopInv => StopIsHeard
  BY DEF StopInv
<1> QED  BY TypeInit, TypeNext, <1>1, <1>2, StopNext, PTL DEF Spec

-----------------------------------------------------------------------------
(* Every frame is accounted for: inductive, with the slots that a step     *)
(* finds full or empty at its label.                                       *)

Held ==
    /\ dpc \in {"check", "decode", "publish"} => decoding # None
    /\ dpc \in {"loop", "wait", "clear", "take", "count"} => decoding = None
    /\ mpc = "infer" => inferring # None
    /\ mpc \notin {"infer", "stop", "wake", "join"} => inferring = None
    /\ cpc = "store" => arrival # None

AInv == TypeOK /\ Held /\ Accounted

LEMMA AccountNext == AInv /\ [Next]_vars => AInv'
<1> SUFFICES ASSUME AInv, [Next]_vars PROVE AInv'
  OBVIOUS
<1>0. TypeOK'
  BY TypeNext DEF AInv
<1> USE <1>0 DEF AInv, Held, Accounted, One
<1> USE DEF TypeOK, Time, Slot, Full, capture, decoder, decided, decoded, main
<1>1. CASE tick  BY <1>1 DEF tick
<1>2. CASE pull  BY <1>2 DEF pull
<1>22. CASE while_condition  BY <1>22 DEF while_condition
<1>3. CASE store  BY <1>3 DEF store
<1>4. CASE count_capture  BY <1>4 DEF count_capture
<1>5. CASE set_event  BY <1>5 DEF set_event
<1>6. CASE loop_condition  BY <1>6 DEF loop_condition, Others
<1>7. CASE wait  BY <1>7 DEF wait, Others
<1>8. CASE clear_event  BY <1>8 DEF clear_event, Others
<1>9. CASE take_compressed  BY <1>9 DEF take_compressed, Others
<1>10. CASE check
  <2> USE <1>10 DEF check, Others
  <2>1. CASE drops_early  BY <2>1 DEF drops_early, accepts
  <2>2. CASE drops_stale  BY <2>2 DEF drops_stale, accepts
  <2>3. CASE accepts /\ dpc' = "decode" /\ decoding' = decoding
    BY <2>3 DEF accepts
  <2> QED  BY <2>1, <2>2, <2>3
<1>11. CASE decode
  <2> USE <1>11 DEF decode, Others
  <2>1. CASE dpc' = "loop"  BY <2>1
  <2>2. CASE dpc' = "publish"  BY <2>2
  <2> QED  BY <2>1, <2>2
<1>12. CASE publish  BY <1>12 DEF publish, Others
<1>13. CASE count_prepared  BY <1>13 DEF count_prepared, Others
<1>14. CASE wait_for_camera_start  BY <1>14 DEF wait_for_camera_start, Workers, GStreamerError
<1>15. CASE loop  BY <1>15 DEF loop, Workers, GStreamerError
<1>16. CASE take_prepared  BY <1>16 DEF take_prepared, Workers
<1>17. CASE infer
  <2>1. CASE mpc' = "loop"
    BY <1>17, <2>1 DEF infer, Workers
  <2>2. CASE mpc' = "stop" /\ UNCHANGED <<newest, inferring, inferred>>
    BY <1>17, <2>2 DEF infer, Workers
  <2> QED  BY <1>17, <2>1, <2>2 DEF infer
<1>18. CASE finish  BY <1>18 DEF finish, Workers
<1>19. CASE set_stop  BY <1>19 DEF set_stop, Workers
<1>20. CASE wake  BY <1>20 DEF wake, Workers
<1>21. CASE UNCHANGED vars  BY <1>21 DEF vars
<1> QED
  BY <1>1, <1>2, <1>3, <1>4, <1>5, <1>6, <1>7, <1>8, <1>9, <1>10, <1>11, <1>12,
     <1>13, <1>14, <1>15, <1>16, <1>17, <1>18, <1>19, <1>20, <1>21, <1>22
  DEF Next, capture_worker, decode_worker, main_thread

(* The counters of the report balance at every moment (372-386).           *)
THEOREM FramesAccounted == Spec => []Accounted
<1>1. Init => AInv
  BY TypeInit DEF Init, AInv, Held, Accounted, One, Full
<1>2. AInv => Accounted
  BY DEF AInv
<1> QED  BY <1>1, AccountNext, <1>2, PTL DEF Spec

-----------------------------------------------------------------------------
(* The rate: the due time is ahead of the accepted frames by one period    *)
(* for each of them.                                                       *)

DueAhead ==
    /\ next_due = None => decode_attempts = 0
    /\ next_due # None => first # None /\ next_due >= first + decode_attempts * Period
    /\ decode_attempts > 0 => first # None /\ accepted # None

RInv == TypeOK /\ Held /\ DueAhead /\ RateBounded

LEMMA AtLeastOnce == \A k \in Nat \ {0} : k * Period >= Period
  OBVIOUS

LEMMA OneMore == \A n \in Nat : (n + 1) * Period = n * Period + Period /\ n * Period \in Nat
  OBVIOUS

(* Dropping a frame may fix the due time, accepting one moves it on.       *)
LEMMA CheckKeepsRate ==
  ASSUME RInv, check, TypeOK'
  PROVE  DueAhead' /\ RateBounded'
<1> USE DEF RInv, TypeOK, Time, Slot, Held, DueAhead, RateBounded, check, due
<1>1. CASE drops_early \/ drops_stale
  <2>1. next_due' = due /\ decode_attempts' = decode_attempts /\ accepted' = accepted
    BY <1>1 DEF drops_early, drops_stale
  <2>2. CASE next_due = None  BY <2>1, <2>2
  <2>3. CASE next_due # None  BY <2>1, <2>3
  <2> QED  BY <2>2, <2>3
<1>2. CASE accepts
  <2>1. PICK k \in 1 .. MaxTime + 1 : next_due' = due + k * Period
    BY <1>2 DEF accepts, advances_due
  <2>2. k * Period >= Period /\ k * Period \in Nat
    BY <2>1, AtLeastOnce, OneMore
  <2>3. /\ decode_attempts' = decode_attempts + 1 /\ accepted' = decoding
        /\ decoding >= due
    BY <1>2 DEF accepts
  <2>4. decode_attempts' * Period = decode_attempts * Period + Period
    BY <2>3, OneMore
  <2>5. (decode_attempts' - 1) * Period = decode_attempts * Period
    BY <2>3
  <2>6. CASE next_due = None
    <3>1. decode_attempts * Period = 0
      BY <2>6
    <3> QED  BY <2>1, <2>2, <2>3, <2>4, <2>5, <2>6, <3>1
  <2>7. CASE next_due # None
    <3>1. decode_attempts * Period \in Nat
      BY OneMore
    <3> QED  BY <2>1, <2>2, <2>3, <2>4, <2>5, <2>7, <3>1
  <2> QED  BY <2>6, <2>7
<1> QED  BY <1>1, <1>2

(* Every other step leaves the due time and the attempts alone.            *)
LEMMA RateNext == RInv /\ AInv /\ [Next]_vars => RInv'
<1> SUFFICES ASSUME RInv, AInv, [Next]_vars PROVE RInv'
  OBVIOUS
<1>0. TypeOK' /\ Held'
  BY AccountNext DEF AInv
<1>1. CASE check
  BY <1>0, <1>1, CheckKeepsRate DEF RInv
<1>2. CASE UNCHANGED decided
  BY <1>0, <1>2 DEF RInv, DueAhead, RateBounded, decided
<1>3. check \/ UNCHANGED decided
  BY DEF Next, vars, capture_worker, decode_worker, main_thread, decoder, decided, Others,
     Workers, tick, while_condition, pull, store, count_capture, set_event, loop_condition, wait,
     clear_event, take_compressed, decode, publish, count_prepared,
     wait_for_camera_start, loop, take_prepared, infer, finish, set_stop, wake
<1> QED  BY <1>1, <1>2, <1>3

(* The nth accepted frame is at least n - 1 periods after the first frame, *)
(* whatever delays the decoder had (208-224).                              *)
THEOREM RateIsBounded == Spec => []RateBounded
<1>1. Init => AInv /\ RInv
  BY TypeInit DEF Init, AInv, Held, Accounted, One, Full, RInv, DueAhead, RateBounded
<1>2. RInv => RateBounded
  BY DEF RInv
<1> QED  BY <1>1, AccountNext, RateNext, <1>2, PTL DEF Spec

-----------------------------------------------------------------------------
(* The order of the frames: nothing under way is younger than the last     *)
(* capture, and what is about to be stored is younger than all of it.      *)

Upto(f) == f # None => arrival # None /\ f <= arrival /\ (cpc = "store" => f < arrival)

LatestCapture ==
    /\ last_capture_time = arrival
    /\ arrival # None => arrival <= now
    /\ Upto(compressed) /\ Upto(decoding) /\ Upto(prepared)
    /\ Upto(inferring) /\ Upto(newest)

OInv == AInv /\ LatestCapture /\ FramesInOrder

LEMMA OrderNext == OInv /\ [Next]_vars => OInv'
<1> SUFFICES ASSUME OInv, [Next]_vars PROVE OInv'
  OBVIOUS
<1>0. AInv /\ AInv'
  BY AccountNext DEF OInv
<1> USE <1>0 DEF AInv, Held, OInv, LatestCapture, Upto, FramesInOrder, Older
<1> USE DEF TypeOK, Time, Slot, Full, capture, decoder, decided, decoded, main
<1>1. CASE tick  BY <1>1 DEF tick
<1>2. CASE pull  BY <1>2 DEF pull
<1>22. CASE while_condition  BY <1>22 DEF while_condition
<1>3. CASE store  BY <1>3 DEF store
<1>4. CASE count_capture  BY <1>4 DEF count_capture
<1>5. CASE set_event  BY <1>5 DEF set_event
<1>6. CASE loop_condition  BY <1>6 DEF loop_condition, Others
<1>7. CASE wait  BY <1>7 DEF wait, Others
<1>8. CASE clear_event  BY <1>8 DEF clear_event, Others
<1>9. CASE take_compressed  BY <1>9 DEF take_compressed, Others
<1>10. CASE check
  <2>1. /\ UNCHANGED <<capture, main, now, compressed, prepared>>
        /\ decoding' = None \/ UNCHANGED decoding
    BY <1>10 DEF check, drops_early, drops_stale, Others
  <2>2. LatestCapture'
    BY <2>1
  <2>3. FramesInOrder'
    BY <2>1
  <2> QED  BY <1>0, <2>2, <2>3
<1>11. CASE decode  BY <1>11 DEF decode, Others
<1>12. CASE publish  BY <1>12 DEF publish, Others
<1>13. CASE count_prepared  BY <1>13 DEF count_prepared, Others
<1>14. CASE wait_for_camera_start  BY <1>14 DEF wait_for_camera_start, Workers, GStreamerError
<1>15. CASE loop  BY <1>15 DEF loop, Workers, GStreamerError
<1>16. CASE take_prepared  BY <1>16 DEF take_prepared, Workers
<1>17. CASE infer  BY <1>17 DEF infer, Workers
<1>18. CASE finish  BY <1>18 DEF finish, Workers
<1>19. CASE set_stop  BY <1>19 DEF set_stop, Workers
<1>20. CASE wake  BY <1>20 DEF wake, Workers
<1>21. CASE UNCHANGED vars  BY <1>21 DEF vars
<1> QED
  BY <1>1, <1>2, <1>3, <1>4, <1>5, <1>6, <1>7, <1>8, <1>9, <1>10, <1>11, <1>12,
     <1>13, <1>14, <1>15, <1>16, <1>17, <1>18, <1>19, <1>20, <1>21, <1>22
  DEF Next, capture_worker, decode_worker, main_thread

(* No frame is inferred twice, overtakes another, or comes back (132-135,  *)
(* 199-201, 259-262, 335-337).                                             *)
THEOREM FramesStayInOrder == Spec => []FramesInOrder
<1>1. Init => OInv
  BY TypeInit DEF Init, OInv, AInv, Held, Accounted, One, Full, LatestCapture, Upto,
     FramesInOrder, Older
<1>2. OInv => FramesInOrder
  BY DEF OInv
<1> QED  BY <1>1, OrderNext, <1>2, PTL DEF Spec
=============================================================================
