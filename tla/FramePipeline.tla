----------------------------- MODULE FramePipeline -----------------------------
(***************************************************************************)
(* The V5 scheduler of rave_v5_pi_benchmark.py: capture_worker and         *)
(* decode_worker are threads, main is the inference loop.  A frame is its  *)
(* arrival time.  Frames pass through two slots that keep only the newest. *)
(* Time advances in ticks between any two steps.                           *)
(***************************************************************************)
EXTENDS Integers

CONSTANTS
    MaxTime,    \* bound on time
    CameraGap,  \* least time between two frames
    Period,     \* PERIOD_S
    MaxAge,     \* MAX_DECODE_START_AGE_MS
    Stall,      \* CAMERA_STALL_TIMEOUT_S
    StartLimit, \* CAMERA_START_TIMEOUT_S
    Duration,   \* DURATION_S
    None

Time == 0 .. MaxTime

ASSUME TimeAssumption ==
    /\ MaxTime \in Nat /\ CameraGap \in Nat \ {0} /\ Period \in Nat \ {0} /\ MaxAge \in Nat
    /\ Stall \in Nat /\ StartLimit \in Nat /\ Duration \in Nat
ASSUME NoneAssumption == None \notin Int

VARIABLES
    now,
    \* capture_worker
    cpc, arrival, last_capture_time,
    \* latest_compressed and frame_event
    compressed, event,
    \* decode_worker
    dpc, decoding, next_due,
    \* latest_prepared
    prepared,
    \* main
    mpc, inferring, end, newest, stop,
    \* stats
    captured, compressed_overwrites, rate_limited, stale_drops,
    decode_attempts, decode_failures, prepared_count, prepared_overwrites, inferred,
    \* first frame the decoder accepted, and the last
    first, accepted

capture == <<cpc, arrival, last_capture_time, captured, compressed_overwrites>>
decided == <<next_due, rate_limited, stale_drops, decode_attempts, first, accepted>>
decoded == <<decode_failures, prepared_count, prepared_overwrites>>
decoder == <<dpc, decoding, decided, decoded>>
main == <<mpc, inferring, end, newest, stop, inferred>>
vars == <<now, capture, compressed, event, decoder, prepared, main>>

Slot == Time \cup {None}

TypeOK ==
    /\ now \in Time
    /\ cpc \in {"while", "pull", "store", "count", "set", "stopped"}
    /\ arrival \in Slot /\ last_capture_time \in Slot
    /\ compressed \in Slot /\ event \in {"set", "clear"}
    /\ dpc \in {"loop", "wait", "clear", "take", "check", "decode", "publish", "count", "stopped"}
    /\ decoding \in Slot /\ prepared \in Slot /\ inferring \in Slot
    /\ next_due \in Int \cup {None}
    /\ mpc \in {"starting", "loop", "take", "infer", "finish", "stop", "wake", "join"}
    /\ end \in Nat \cup {None} /\ newest \in Slot
    /\ first \in Slot /\ accepted \in Slot
    /\ stop \in {"no", "yes"}
    /\ captured \in Nat /\ compressed_overwrites \in Nat /\ rate_limited \in Nat
    /\ stale_drops \in Nat /\ decode_attempts \in Nat /\ decode_failures \in Nat
    /\ prepared_count \in Nat /\ prepared_overwrites \in Nat /\ inferred \in Nat

Init ==
    /\ now = 0 /\ stop = "no" /\ event = "clear"
    /\ cpc = "while" /\ dpc = "loop" /\ mpc = "starting"
    /\ arrival = None /\ last_capture_time = None /\ compressed = None
    /\ decoding = None /\ next_due = None /\ prepared = None
    /\ inferring = None /\ end = None /\ newest = None
    /\ first = None /\ accepted = None
    /\ captured = 0 /\ compressed_overwrites = 0 /\ rate_limited = 0
    /\ stale_drops = 0 /\ decode_attempts = 0 /\ decode_failures = 0
    /\ prepared_count = 0 /\ prepared_overwrites = 0 /\ inferred = 0

tick == now < MaxTime /\ now' = now + 1 /\ UNCHANGED <<capture, compressed, event, decoder, prepared, main>>

(* 1 when a slot was not empty *)
Full(slot) == IF slot = None THEN 0 ELSE 1

-----------------------------------------------------------------------------
(* capture_worker *)

while_condition ==
    /\ cpc = "while"
    /\ cpc' = IF stop = "yes" THEN "stopped" ELSE "pull"
    /\ UNCHANGED <<now, arrival, last_capture_time, captured, compressed_overwrites,
                   compressed, event, decoder, prepared, main>>

(* try-pull-sample gives up after 100 ms, or gets a sample, also one that  *)
(* comes after the stop; it is stamped here.                               *)
pull ==
    /\ cpc = "pull"
    /\ \/ cpc' = "while" /\ UNCHANGED <<arrival, last_capture_time>>
       \/ /\ last_capture_time # None => now - last_capture_time >= CameraGap
          /\ arrival' = now /\ last_capture_time' = now
          /\ cpc' = "store"
    /\ UNCHANGED <<now, captured, compressed_overwrites, compressed, event, decoder,
                   prepared, main>>

store ==
    /\ cpc = "store" /\ cpc' = "count"
    /\ compressed_overwrites' = compressed_overwrites + Full(compressed)
    /\ compressed' = arrival
    /\ UNCHANGED <<now, arrival, last_capture_time, captured, event, decoder, prepared, main>>

count_capture ==
    /\ cpc = "count" /\ cpc' = "set"
    /\ captured' = captured + 1
    /\ UNCHANGED <<now, arrival, last_capture_time, compressed_overwrites, compressed,
                   event, decoder, prepared, main>>

set_event ==
    /\ cpc = "set" /\ cpc' = "while"
    /\ event' = "set"
    /\ UNCHANGED <<now, arrival, last_capture_time, captured, compressed_overwrites,
                   compressed, decoder, prepared, main>>

capture_worker == while_condition \/ pull \/ store \/ count_capture \/ set_event

-----------------------------------------------------------------------------
(* decode_worker *)

Others == UNCHANGED <<now, capture, main>>

loop_condition ==
    /\ dpc = "loop"
    /\ dpc' = IF stop = "yes" THEN "stopped" ELSE "wait"
    /\ Others /\ UNCHANGED <<compressed, event, decoding, decided, decoded, prepared>>

(* frame_event.wait returns when the event is set, and after 100 ms anyway. *)
wait ==
    /\ dpc = "wait" /\ dpc' = "clear"
    /\ Others /\ UNCHANGED <<compressed, event, decoding, decided, decoded, prepared>>

clear_event ==
    /\ dpc = "clear"
    /\ event' = "clear"
    /\ dpc' = IF stop = "yes" THEN "stopped" ELSE "take"
    /\ Others /\ UNCHANGED <<compressed, decoding, decided, decoded, prepared>>

take_compressed ==
    /\ dpc = "take"
    /\ decoding' = compressed /\ compressed' = None
    /\ dpc' = IF compressed = None THEN "loop" ELSE "check"
    /\ Others /\ UNCHANGED <<event, decided, decoded, prepared>>

(* The time before which no frame is accepted; the first frame sets it.    *)
due == IF next_due = None THEN decoding ELSE next_due

drops_early ==
    /\ decoding < due
    /\ rate_limited' = rate_limited + 1 /\ next_due' = due
    /\ UNCHANGED <<stale_drops, decode_attempts, accepted>>

drops_stale ==
    /\ decoding >= due /\ now - decoding > MaxAge
    /\ stale_drops' = stale_drops + 1 /\ next_due' = due
    /\ UNCHANGED <<rate_limited, decode_attempts, accepted>>

(* One period on, and as many more as bring it within a period of now.     *)
advances_due_FromNow ==
    next_due' = now

advances_due ==
    \E k \in 1 .. MaxTime + 1 :
        /\ next_due' = due + k * Period
        /\ k > 1 => next_due' - Period < now - Period
        /\ next_due' >= now - Period

accepts ==
    /\ decoding >= due /\ now - decoding <= MaxAge
    /\ advances_due
    /\ decode_attempts' = decode_attempts + 1 /\ accepted' = decoding
    /\ UNCHANGED <<rate_limited, stale_drops>>

check ==
    /\ dpc = "check"
    /\ first' = IF next_due = None THEN decoding ELSE first
    /\ \/ (drops_early \/ drops_stale) /\ dpc' = "loop" /\ decoding' = None
       \/ accepts /\ dpc' = "decode" /\ UNCHANGED decoding
    /\ Others /\ UNCHANGED <<compressed, event, decoded, prepared>>

(* cv2.imdecode returns no image, or the crop is prepared for the model.   *)
decode_Retries ==
    /\ dpc = "decode"
    /\ \/ dpc' = "decode" /\ decode_failures' = decode_failures + 1
       \/ dpc' = "publish" /\ UNCHANGED decode_failures
    /\ Others
    /\ UNCHANGED <<compressed, event, decoding, decided, prepared_count,
                   prepared_overwrites, prepared>>

decode ==
    /\ dpc = "decode"
    /\ \/ /\ dpc' = "loop" /\ decoding' = None
          /\ decode_failures' = decode_failures + 1
       \/ /\ dpc' = "publish"
          /\ UNCHANGED <<decoding, decode_failures>>
    /\ Others
    /\ UNCHANGED <<compressed, event, decided, prepared_count, prepared_overwrites, prepared>>

publish ==
    /\ dpc = "publish" /\ dpc' = "count"
    /\ prepared_overwrites' = prepared_overwrites + Full(prepared)
    /\ prepared' = decoding /\ decoding' = None
    /\ Others
    /\ UNCHANGED <<compressed, event, decided, decode_failures, prepared_count>>

count_prepared_Clears ==
    /\ dpc = "count" /\ dpc' = "loop"
    /\ prepared_count' = prepared_count + 1
    /\ event' = "clear"
    /\ Others
    /\ UNCHANGED <<compressed, decoding, decided, decode_failures, prepared_overwrites,
                   prepared>>

count_prepared ==
    /\ dpc = "count" /\ dpc' = "loop"
    /\ prepared_count' = prepared_count + 1
    /\ Others
    /\ UNCHANGED <<compressed, event, decoding, decided, decode_failures,
                   prepared_overwrites, prepared>>

decode_worker ==
    \/ loop_condition \/ wait \/ clear_event \/ take_compressed \/ check
    \/ decode \/ publish \/ count_prepared

-----------------------------------------------------------------------------
(* main *)

Workers == UNCHANGED <<now, capture, decoder, compressed>>

(* raise_on_gstreamer_error: the pipeline may report an error at any time. *)
GStreamerError == mpc' = "stop"

(* Only a run that ends within MaxTime is followed. *)
wait_for_camera_start ==
    /\ mpc = "starting"
    /\ \/ captured > 0 /\ end' = now + Duration /\ end' <= MaxTime /\ mpc' = "loop"
       \/ now >= StartLimit /\ mpc' = "stop" /\ UNCHANGED end
       \/ GStreamerError /\ UNCHANGED end
    /\ Workers /\ UNCHANGED <<event, prepared, inferring, newest, stop, inferred>>

verify_camera_not_stalled == last_capture_time # None /\ now - last_capture_time <= Stall

loop ==
    /\ mpc = "loop"
    /\ \/ now >= end /\ mpc' = "finish"
       \/ now < end /\ verify_camera_not_stalled /\ mpc' = "take"
       \/ now < end /\ ~ verify_camera_not_stalled /\ mpc' = "stop"
       \/ now < end /\ GStreamerError
    /\ Workers /\ UNCHANGED <<event, prepared, inferring, end, newest, stop, inferred>>

take_prepared_Keeps ==
    /\ mpc = "take"
    /\ inferring' = prepared
    /\ mpc' = IF prepared = None THEN "loop" ELSE "infer"
    /\ Workers /\ UNCHANGED <<event, prepared, end, newest, stop, inferred>>

take_prepared ==
    /\ mpc = "take"
    /\ inferring' = prepared /\ prepared' = None
    /\ mpc' = IF prepared = None THEN "loop" ELSE "infer"
    /\ Workers /\ UNCHANGED <<event, end, newest, stop, inferred>>

(* An inference that raises ends the run with the frame in hand.           *)
infer ==
    /\ mpc = "infer"
    /\ \/ /\ mpc' = "loop"
          /\ newest' = inferring /\ inferring' = None
          /\ inferred' = inferred + 1
       \/ mpc' = "stop" /\ UNCHANGED <<newest, inferring, inferred>>
    /\ Workers /\ UNCHANGED <<event, prepared, end, stop>>

(* The last checks; either way the finally block is next. *)
finish ==
    /\ mpc = "finish" /\ mpc' = "stop"
    /\ Workers /\ UNCHANGED <<event, prepared, inferring, end, newest, stop, inferred>>

set_stop ==
    /\ mpc = "stop" /\ mpc' = "wake"
    /\ stop' = "yes"
    /\ Workers /\ UNCHANGED <<event, prepared, inferring, end, newest, inferred>>

wake_Forgotten ==
    /\ mpc = "wake" /\ mpc' = "join"
    /\ Workers /\ UNCHANGED <<event, prepared, inferring, end, newest, stop, inferred>>

wake ==
    /\ mpc = "wake" /\ mpc' = "join"
    /\ event' = "set"
    /\ Workers /\ UNCHANGED <<prepared, inferring, end, newest, stop, inferred>>

main_thread ==
    \/ wait_for_camera_start \/ loop \/ take_prepared \/ infer \/ finish
    \/ set_stop \/ wake

Next == tick \/ capture_worker \/ decode_worker \/ main_thread

Spec == Init /\ [][Next]_vars

-----------------------------------------------------------------------------
(* Properties *)

(* A frame in the slot has the decoder's attention: the event is set, or   *)
(* is about to be, or the decoder is on its way to the slot.  If clearing  *)
(* the event (194) and taking the frame (199) were the other way round, a  *)
(* frame could lie there for the 100 ms of the wait and be stale.          *)
NoLostWakeup ==
    compressed # None =>
        event = "set" \/ cpc \in {"count", "set"} \/ dpc \in {"clear", "take", "stopped"}

Older(f, g) == f # None /\ g # None => f < g

(* From the camera to the last result the frames are strictly younger to   *)
(* older: none is inferred twice, none overtakes another, and no result    *)
(* is for an older frame than a result before it (lines 132-135, 199-201,  *)
(* 259-262, 335-337).                                                      *)
FramesInOrder ==
    /\ Older(newest, inferring) /\ Older(newest, prepared)
    /\ Older(newest, decoding) /\ Older(newest, compressed)
    /\ Older(inferring, prepared) /\ Older(inferring, decoding)
    /\ Older(inferring, compressed)
    /\ Older(prepared, decoding) /\ Older(prepared, compressed)
    /\ Older(decoding, compressed)

(* However late the decoder is, the nth frame it accepts arrived at least  *)
(* n - 1 periods after the first frame it saw: what it catches up after a  *)
(* delay never exceeds the target rate (lines 208-224).                    *)
RateBounded ==
    decode_attempts > 0 => accepted >= first + (decode_attempts - 1) * Period

(* The counters that the report prints account for every frame: what was   *)
(* captured was overwritten, limited, stale or attempted, what was         *)
(* prepared was overwritten or inferred, or is still under way.            *)
One(condition) == IF condition THEN 1 ELSE 0
Accounted ==
    /\ captured + One(cpc = "count") =
        compressed_overwrites + Full(compressed) + One(dpc = "check")
            + rate_limited + stale_drops + decode_attempts
    /\ decode_attempts =
        decode_failures + prepared_count + One(dpc \in {"decode", "publish", "count"})
    /\ prepared_count + One(dpc = "count") =
        prepared_overwrites + Full(prepared) + Full(inferring) + inferred

(* A stop is heard at once: when main joins the decoder, it is not left    *)
(* asleep with the event clear, to wake only when the wait gives up.  The  *)
(* flag has to be set before the event (361-363): the decoder may clear    *)
(* the event at any moment, and looks at the flag after that (193-197).    *)
StopIsHeard == mpc = "join" /\ dpc = "wait" => event = "set"
=============================================================================
