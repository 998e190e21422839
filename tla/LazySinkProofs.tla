-------------------------- MODULE LazySinkProofs ----------------------------
(***************************************************************************)
(* Proofs about LazySink, for any number of wakers, packets and closes:    *)
(* its types, OneDoWork, BoundedBacklog and NoSendAfterClose.              *)
(***************************************************************************)
EXTENDS LazySink, TLAPS

\* Why one do_work at a time: only the publisher wakes a player's sink, and it
\* goes from the test of working_ to the spawn while no do_work exists, posted
\* or under way.  A bridge's callback never suspends.
WorkInv ==
    IF suspends
    THEN /\ queued + InWork <= 1
         /\ queued + InWork = 1 => working_
         /\ waker[Publisher] = "set" => ~working_
         /\ \A w \in Wakers \ {Publisher} : waker[w] = "idle"
    ELSE sending = 0

\* Why a closing sink sends nothing: either its callback is gone for good, or
\* no do_work is left and none can start.
CloseInv ==
    /\ closeReq > 0 => ~registered
    /\ (closing_ /\ suspends) =>
          \/ ~cb_ /\ (~registered \/ ~status_cb_)
          \/ queued = 0 /\ sending = 0 /\ running_ # "fetch" /\ waker[Publisher] # "set"

\* Why the backlog is bounded: a marked sink has a do_work, and of the indices
\* that wake, an idle sink has missed none but those the headers took.
Asleep == Idle /\ ~closing_ /\ registered /\ \A w \in Wakers : waker[w] = "idle"
WakesIn(n) == n \div WakeEvery
BacklogInv ==
    /\ working_ => ~Idle
    /\ Asleep => WakesIn(latest_frame_index_) - WakesIn(idleSince) <= headers

IInv == TypeOK /\ WorkInv /\ CloseInv /\ BacklogInv

-----------------------------------------------------------------------------
\* The types of the flags, and of everything else: the provers that know
\* arithmetic and the ones that know Boolean values each take one part.
FlagsOK ==
    /\ suspends \in BOOLEAN
    /\ working_ \in BOOLEAN /\ closing_ \in BOOLEAN
    /\ cb_ \in BOOLEAN /\ status_cb_ \in BOOLEAN
    /\ source_ \in BOOLEAN /\ registered \in BOOLEAN

CountsOK ==
    /\ latest_frame_index_ \in Nat /\ headers \in Nat
    /\ waker \in [Wakers -> {"idle", "test", "set"}]
    /\ last_send_pkt_index_ \in Int
    /\ count_ \in Int
    /\ queued \in Nat /\ sending \in Nat /\ waiting \in Nat
    /\ closeReq \in Nat /\ closes \in Nat /\ idleSince \in Nat
    /\ running_ \in {"none", "fetch", "finish"}
    /\ closeQ \in [BOOLEAN -> Nat]

LEMMA TypeParts == (TypeOK <=> FlagsOK /\ CountsOK) /\ (TypeOK' <=> FlagsOK' /\ CountsOK')
  BY DEF TypeOK, FlagsOK, CountsOK

\* Types: every step of Next keeps the counters natural and the flags Boolean.
LEMMA TypeStep == TypeOK /\ [Next]_vars => TypeOK'
<1> SUFFICES ASSUME TypeOK, [Next]_vars PROVE TypeOK'
  OBVIOUS
<1>0a. suspends' = suspends
  BY DEF Next, OwnerStep, WakerStep, WorkerStep, vars
<1> USE <1>0a
<1> USE DEF FlagsOK, CountsOK, sourceVars, linkVars, closeVars
<1>0. FlagsOK /\ CountsOK
  BY TypeParts
<1>1. CASE on_frame
  <2>1. FlagsOK'
    BY <1>0, <1>1 DEF on_frame
  <2>2. CountsOK'
    BY <1>0, <1>1, SinkAssumption DEF on_frame
  <2> QED
    BY <2>1, <2>2, TypeParts
<1>2. CASE on_sequence_header
  <2>1. FlagsOK'
    BY <1>0, <1>2 DEF on_sequence_header
  <2>2. CountsOK'
    BY <1>0, <1>2, SinkAssumption DEF on_sequence_header
  <2> QED
    BY <2>1, <2>2, TypeParts
<1>3. CASE on_source_status_ok
  <2>1. FlagsOK'
    BY <1>0, <1>3 DEF on_source_status_ok
  <2>2. CountsOK'
    BY <1>0, <1>3, SinkAssumption DEF on_source_status_ok
  <2> QED
    BY <2>1, <2>2, TypeParts
<1>4. CASE owner_close
  <2>1. FlagsOK'
    BY <1>0, <1>4, Zenon DEF owner_close, close, SinksUnlocked
  <2>2. CountsOK'
    BY <1>0, <1>4, SinkAssumption DEF owner_close, close, SinksUnlocked
  <2> QED
    BY <2>1, <2>2, TypeParts
<1>5. CASE MediaSource_close
  <2>1. FlagsOK'
    BY <1>0, <1>5, Zenon DEF MediaSource_close
  <2>2. CountsOK'
    BY <1>0, <1>5, SinkAssumption DEF MediaSource_close
  <2> QED
    BY <2>1, <2>2, TypeParts
<1>6. CASE do_work_start
  <2>1. FlagsOK'
    BY <1>0, <1>6 DEF do_work_start
  <2>2. CountsOK'
    BY <1>0, <1>6, SinkAssumption DEF do_work_start
  <2> QED
    BY <2>1, <2>2, TypeParts
<1>7. CASE do_work_empty
  <2>1. FlagsOK'
    BY <1>0, <1>7 DEF do_work_empty
  <2>2. CountsOK'
    BY <1>0, <1>7, SinkAssumption DEF do_work_empty
  <2> QED
    BY <2>1, <2>2, TypeParts
<1>8. CASE do_work_batch
  <2>1. FlagsOK'
    BY <1>0, <1>8, Zenon DEF do_work_batch, callback_result, close, Starts, AfterBatch
  <2>2. CountsOK'
    BY <1>0, <1>8, SinkAssumption DEF do_work_batch, callback_result, close, Starts, AfterBatch
  <2> QED
    BY <2>1, <2>2, TypeParts
<1>9. CASE do_work_resume
  <2>1. FlagsOK'
    BY <1>0, <1>9, Zenon DEF do_work_resume, callback_result, close
  <2>2. CountsOK'
    BY <1>0, <1>9, SinkAssumption DEF do_work_resume, callback_result, close
  <2> QED
    BY <2>1, <2>2, TypeParts
<1>10. CASE do_work_done
  <2>1. FlagsOK'
    BY <1>0, <1>10, Zenon DEF do_work_done
  <2>2. CountsOK'
    BY <1>0, <1>10, SinkAssumption DEF do_work_done
  <2> QED
    BY <2>1, <2>2, TypeParts
<1>11. CASE posted_close
  <2>1. FlagsOK'
    BY <1>0, <1>11, Zenon DEF posted_close, close
  <2>2. CountsOK'
    BY <1>0, <1>11, SinkAssumption DEF posted_close, close
  <2> QED
    BY <2>1, <2>2, TypeParts
<1>12. CASE wait_return
  <2>1. FlagsOK'
    BY <1>0, <1>12, Zenon DEF wait_return, MediaSink_close
  <2>2. CountsOK'
    BY <1>0, <1>12, SinkAssumption DEF wait_return, MediaSink_close
  <2> QED
    BY <2>1, <2>2, TypeParts
<1>13. ASSUME NEW w \in Wakers, wakeup_test(w) PROVE TypeOK'
  <2>1. FlagsOK'
    BY <1>0, <1>13 DEF wakeup_test
  <2>2. CountsOK'
    BY <1>0, <1>13, SinkAssumption DEF wakeup_test
  <2> QED
    BY <2>1, <2>2, TypeParts
<1>14. ASSUME NEW w \in Wakers, wakeup_spawn(w) PROVE TypeOK'
  <2>1. FlagsOK'
    BY <1>0, <1>14 DEF wakeup_spawn
  <2>2. CountsOK'
    BY <1>0, <1>14, SinkAssumption DEF wakeup_spawn
  <2> QED
    BY <2>1, <2>2, TypeParts
<1>15. ASSUME NEW b \in BOOLEAN, close_start(b) PROVE TypeOK'
  <2>1. FlagsOK'
    BY <1>0, <1>15, Zenon DEF close_start, MediaSink_close, Waits
  <2>2. CountsOK'
    BY <1>0, <1>15, SinkAssumption DEF close_start, MediaSink_close, Waits
  <2> QED
    BY <2>1, <2>2, TypeParts
<1>16. CASE UNCHANGED vars
  BY <1>16 DEF vars, TypeOK
<1> QED
  BY <1>1, <1>2, <1>3, <1>4, <1>5, <1>6, <1>7, <1>8, <1>9, <1>10, <1>11, <1>12, <1>13, <1>14, <1>15, <1>16
  DEF Next, OwnerStep, WakerStep, WorkerStep

\* WorkInv is inductive under the types.
LEMMA WorkStep == TypeOK /\ WorkInv /\ [Next]_vars => WorkInv'
<1> SUFFICES ASSUME TypeOK, WorkInv, [Next]_vars PROVE WorkInv'
  OBVIOUS
<1>0a. suspends' = suspends
  BY DEF Next, OwnerStep, WakerStep, WorkerStep, vars
<1> USE <1>0a
<1>1. CASE on_frame
  BY <1>1, SinkAssumption DEF TypeOK, WorkInv, InWork, vars, sourceVars, linkVars, closeVars,
     on_frame
<1>2. CASE on_sequence_header
  BY <1>2, SinkAssumption DEF TypeOK, WorkInv, InWork, vars, sourceVars, linkVars, closeVars,
     on_sequence_header
<1>3. CASE on_source_status_ok
  BY <1>3, SinkAssumption DEF TypeOK, WorkInv, InWork, vars, sourceVars, linkVars, closeVars,
     on_source_status_ok
<1>4. CASE owner_close
  BY <1>4, SinkAssumption DEF TypeOK, WorkInv, InWork, vars, sourceVars, linkVars, closeVars,
     owner_close, close, SinksUnlocked
<1>5. CASE MediaSource_close
  BY <1>5, SinkAssumption DEF TypeOK, WorkInv, InWork, vars, sourceVars, linkVars, closeVars,
     MediaSource_close, SinksUnlocked
<1>6. CASE do_work_start
  BY <1>6, SinkAssumption DEF TypeOK, WorkInv, InWork, vars, sourceVars, linkVars, closeVars,
     do_work_start
<1>7. CASE do_work_empty
  BY <1>7, SinkAssumption DEF TypeOK, WorkInv, InWork, vars, sourceVars, linkVars, closeVars,
     do_work_empty
<1>8. CASE do_work_batch
  BY <1>8, SinkAssumption DEF TypeOK, WorkInv, InWork, vars, sourceVars, linkVars, closeVars,
     do_work_batch, callback_result, close, Starts, AfterBatch
<1>9. CASE do_work_resume
  BY <1>9, SinkAssumption DEF TypeOK, WorkInv, InWork, vars, sourceVars, linkVars, closeVars,
     do_work_resume, callback_result, close
<1>10. CASE do_work_done
  BY <1>10, SinkAssumption DEF TypeOK, WorkInv, InWork, vars, sourceVars, linkVars, closeVars,
     do_work_done
<1>11. CASE posted_close
  BY <1>11, SinkAssumption DEF TypeOK, WorkInv, InWork, vars, sourceVars, linkVars, closeVars,
     posted_close, close
<1>12. CASE wait_return
  BY <1>12, SinkAssumption DEF TypeOK, WorkInv, InWork, vars, sourceVars, linkVars, closeVars,
     wait_return, MediaSink_close, SinksUnlocked
<1>13. ASSUME NEW w \in Wakers, wakeup_test(w) PROVE WorkInv'
  BY <1>13, SinkAssumption DEF TypeOK, WorkInv, InWork, vars, sourceVars, linkVars, closeVars, wakeup_test
<1>14. ASSUME NEW w \in Wakers, wakeup_spawn(w) PROVE WorkInv'
  BY <1>14, SinkAssumption DEF TypeOK, WorkInv, InWork, vars, sourceVars, linkVars, closeVars, wakeup_spawn
<1>15. ASSUME NEW b \in BOOLEAN, close_start(b) PROVE WorkInv'
  BY <1>15, SinkAssumption DEF TypeOK, WorkInv, InWork, vars, sourceVars, linkVars, closeVars,
     close_start, MediaSink_close, SinksUnlocked, Waits
<1>16. CASE UNCHANGED vars
  BY <1>16 DEF TypeOK, WorkInv, InWork, vars, sourceVars, linkVars, closeVars
<1> QED
  BY <1>1, <1>2, <1>3, <1>4, <1>5, <1>6, <1>7, <1>8, <1>9, <1>10, <1>11, <1>12, <1>13, <1>14, <1>15, <1>16
  DEF Next, OwnerStep, WakerStep, WorkerStep

\* CloseInv is inductive under the types and WorkInv.
LEMMA CloseStep == IInv /\ [Next]_vars => CloseInv'
<1> SUFFICES ASSUME IInv, [Next]_vars PROVE CloseInv'
  OBVIOUS
<1>0a. suspends' = suspends
  BY DEF Next, OwnerStep, WakerStep, WorkerStep, vars
<1> USE <1>0a
<1>1. CASE on_frame
  BY <1>1, SinkAssumption DEF IInv, TypeOK, WorkInv, CloseInv, InWork, vars, sourceVars, linkVars, closeVars,
     on_frame
<1>2. CASE on_sequence_header
  BY <1>2, SinkAssumption DEF IInv, TypeOK, WorkInv, CloseInv, InWork, vars, sourceVars, linkVars, closeVars,
     on_sequence_header
<1>3. CASE on_source_status_ok
  BY <1>3, SinkAssumption DEF IInv, TypeOK, WorkInv, CloseInv, InWork, vars, sourceVars, linkVars, closeVars,
     on_source_status_ok
<1>4. CASE owner_close
  BY <1>4, SinkAssumption DEF IInv, TypeOK, WorkInv, CloseInv, InWork, vars, sourceVars, linkVars, closeVars,
     owner_close, close, SinksUnlocked
<1>5. CASE MediaSource_close
  BY <1>5, SinkAssumption DEF IInv, TypeOK, WorkInv, CloseInv, InWork, vars, sourceVars, linkVars, closeVars,
     MediaSource_close, SinksUnlocked
<1>6. CASE do_work_start
  BY <1>6, SinkAssumption DEF IInv, TypeOK, WorkInv, CloseInv, InWork, vars, sourceVars, linkVars, closeVars,
     do_work_start
<1>7. CASE do_work_empty
  BY <1>7, SinkAssumption DEF IInv, TypeOK, WorkInv, CloseInv, InWork, vars, sourceVars, linkVars, closeVars,
     do_work_empty
<1>8. CASE do_work_batch
  BY <1>8, SinkAssumption DEF IInv, TypeOK, WorkInv, CloseInv, InWork, vars, sourceVars, linkVars, closeVars,
     do_work_batch, callback_result, close, Starts, AfterBatch
<1>9. CASE do_work_resume
  BY <1>9, SinkAssumption DEF IInv, TypeOK, WorkInv, CloseInv, InWork, vars, sourceVars, linkVars, closeVars,
     do_work_resume, callback_result, close
<1>10. CASE do_work_done
  BY <1>10, SinkAssumption DEF IInv, TypeOK, WorkInv, CloseInv, InWork, vars, sourceVars, linkVars, closeVars,
     do_work_done
<1>11. CASE posted_close
  BY <1>11, SinkAssumption DEF IInv, TypeOK, WorkInv, CloseInv, InWork, vars, sourceVars, linkVars, closeVars,
     posted_close, close
<1>12. CASE wait_return
  BY <1>12, SinkAssumption DEF IInv, TypeOK, WorkInv, CloseInv, InWork, vars, sourceVars, linkVars, closeVars,
     wait_return, MediaSink_close, SinksUnlocked
<1>13. ASSUME NEW w \in Wakers, wakeup_test(w) PROVE CloseInv'
  BY <1>13, SinkAssumption DEF IInv, TypeOK, WorkInv, CloseInv, InWork, vars, sourceVars, linkVars, closeVars, wakeup_test
<1>14. ASSUME NEW w \in Wakers, wakeup_spawn(w) PROVE CloseInv'
  BY <1>14, SinkAssumption DEF IInv, TypeOK, WorkInv, CloseInv, InWork, vars, sourceVars, linkVars, closeVars, wakeup_spawn
<1>15. ASSUME NEW b \in BOOLEAN, close_start(b) PROVE CloseInv'
  BY <1>15, SinkAssumption DEF IInv, TypeOK, WorkInv, CloseInv, InWork, vars, sourceVars, linkVars, closeVars,
     close_start, MediaSink_close, SinksUnlocked, Waits
<1>16. CASE UNCHANGED vars
  BY <1>16 DEF IInv, TypeOK, WorkInv, CloseInv, InWork, vars, sourceVars, linkVars, closeVars
<1> QED
  BY <1>1, <1>2, <1>3, <1>4, <1>5, <1>6, <1>7, <1>8, <1>9, <1>10, <1>11, <1>12, <1>13, <1>14, <1>15, <1>16
  DEF Next, OwnerStep, WakerStep, WorkerStep

\* WakesIn counts the multiples of WakeEvery.
LEMMA WakesInIs ==
    ASSUME NEW n \in Nat
    PROVE  /\ WakesIn(n) \in Nat /\ WakesIn(n + 1) <= WakesIn(n) + 1
           /\ ~WakesAt(n + 1) => WakesIn(n + 1) = WakesIn(n)
           /\ \A m \in Nat, h \in Nat : WakesIn(n) - WakesIn(m) <= h => n - m < WakeEvery * (1 + h)
<1> DEFINE W == WakeEvery
<1>1. W \in Nat \ {0}
  BY SinkAssumption
<1> HIDE DEF W
<1>2. /\ n \div W \in Nat /\ (n + 1) \div W <= (n \div W) + 1
      /\ (n + 1) % W # 0 => (n + 1) \div W = n \div W
  BY <1>1
<1>3. ASSUME NEW m \in Nat, NEW h \in Nat, (n \div W) - (m \div W) <= h
      PROVE  n - m < W * (1 + h)
  <2>1. PICK a, b \in Nat : a = n \div W /\ b = m \div W
    BY <1>1
  <2>2. n < W * a + W /\ W * b <= m
    BY <1>1, <2>1
  <2>3. W * (a - b) <= W * h
    BY <1>1, <1>3, <2>1
  <2>4. W * (a - b) = W * a - W * b /\ W * (1 + h) = W + W * h
    BY <1>1
  <2>5. PICK x, y, z \in Int : x = W * a /\ y = W * b /\ z = W * h
    BY <1>1
  <2> QED BY <1>1, <2>2, <2>3, <2>4, <2>5
<1> QED BY <1>2, <1>3 DEF WakesIn, WakesAt, W

\* BacklogInv is inductive under the types.
LEMMA BacklogStep == TypeOK /\ BacklogInv /\ [Next]_vars => BacklogInv'
<1> SUFFICES ASSUME TypeOK, BacklogInv, [Next]_vars PROVE BacklogInv'
  OBVIOUS
<1>0. latest_frame_index_ \in Nat /\ idleSince \in Nat /\ headers \in Nat
  BY DEF TypeOK
<1> USE SinkAssumption DEF BacklogInv, Asleep, Idle, sourceVars, linkVars, closeVars
<1>1. CASE on_frame
  BY <1>0, <1>1, WakesInIs, Zenon DEF TypeOK, on_frame
<1>2. CASE on_sequence_header
  BY <1>0, <1>2, WakesInIs DEF TypeOK, on_sequence_header
<1>3. CASE on_source_status_ok
  BY <1>0, <1>3 DEF TypeOK, on_source_status_ok
<1>4. CASE owner_close
  BY <1>0, <1>4 DEF TypeOK, owner_close, close
<1>5. CASE MediaSource_close
  BY <1>0, <1>5 DEF TypeOK, MediaSource_close
<1>6. CASE do_work_start
  BY <1>0, <1>6 DEF TypeOK, do_work_start
<1>7. CASE do_work_empty
  BY <1>0, <1>7 DEF TypeOK, do_work_empty
<1>8. CASE do_work_batch
  BY <1>0, <1>8 DEF TypeOK, do_work_batch, callback_result, close
<1>9. CASE do_work_resume
  BY <1>0, <1>9 DEF TypeOK, do_work_resume, callback_result, close
<1>10. CASE do_work_done
  BY <1>0, <1>10, WakesInIs DEF TypeOK, do_work_done
<1>11. CASE posted_close
  BY <1>0, <1>11 DEF TypeOK, posted_close, close
<1>12. CASE wait_return
  BY <1>0, <1>12 DEF TypeOK, wait_return, MediaSink_close
<1>13. ASSUME NEW w \in Wakers, wakeup_test(w) PROVE BacklogInv'
  BY <1>0, <1>13 DEF TypeOK, wakeup_test
<1>14. ASSUME NEW w \in Wakers, wakeup_spawn(w) PROVE BacklogInv'
  BY <1>0, <1>14 DEF TypeOK, wakeup_spawn
<1>15. ASSUME NEW b \in BOOLEAN, close_start(b) PROVE BacklogInv'
  BY <1>0, <1>15 DEF TypeOK, close_start, MediaSink_close
<1>16. CASE UNCHANGED vars
  BY <1>16 DEF vars
<1> QED
  BY <1>1, <1>2, <1>3, <1>4, <1>5, <1>6, <1>7, <1>8, <1>9, <1>10, <1>11, <1>12, <1>13, <1>14, <1>15, <1>16, Zenon
  DEF Next, OwnerStep, WakerStep, WorkerStep

\* The inductive invariant holds in every state of every instance of the sink.
THEOREM Invariance == Spec => []IInv
<1>1. Init => IInv
  <2> SUFFICES ASSUME Init PROVE IInv
    OBVIOUS
  <2>1. FlagsOK
    BY Zenon DEF Init, FlagsOK
  <2>2. CountsOK
    BY DEF Init, CountsOK
  <2>3. WorkInv /\ CloseInv
    BY <2>1, SinkAssumption DEF Init, FlagsOK, WorkInv, CloseInv, InWork
  <2>4. BacklogInv
    BY WakesInIs DEF Init, BacklogInv
  <2> QED
    BY <2>1, <2>2, <2>3, <2>4, TypeParts DEF IInv
<1>2. IInv /\ [Next]_vars => IInv'
  BY TypeStep, WorkStep, CloseStep, BacklogStep DEF IInv
<1> QED
  BY <1>1, <1>2, PTL DEF Spec

\* Type correctness of the sink.
THEOREM TypeCorrect == Spec => []TypeOK
  BY Invariance, PTL DEF IInv

\* At most one do_work is past its start at any time: pkts_ is never refilled
\* under a suspended callback (rtmp_media_sink.cpp:74-84).  For a bridge two
\* do_works may be posted, but the worker runs one to its end before the other.
THEOREM OneDoWorkHolds == Spec => []OneDoWork
<1>1. IInv => OneDoWork
  BY DEF IInv, TypeOK, WorkInv, OneDoWork, InWork
<1> QED
  BY <1>1, Invariance, PTL

\* An idle sink has missed fewer than WakeEvery packets since its last do_work
\* ended, and WakeEvery more for every sequence header: no race between a
\* wakeup and an ending do_work loses more (rtmp_media_source.cpp:142-153).
THEOREM BoundedBacklogHolds == Spec => []BoundedBacklog
<1>1. IInv => BoundedBacklog
  <2> SUFFICES ASSUME IInv, Asleep
               PROVE  latest_frame_index_ - idleSince < WakeEvery * (1 + headers)
    BY Zenon DEF BoundedBacklog, Asleep
  <2>1. latest_frame_index_ \in Nat /\ idleSince \in Nat /\ headers \in Nat
    BY DEF IInv, TypeOK
  <2> QED BY <2>1, WakesInIs DEF IInv, BacklogInv
<1> QED
  BY <1>1, Invariance, PTL

\* No packet is handed out by a closing sink (rtmp_server_session.cpp:206-209).
THEOREM NoSendAfterCloseHolds == Spec => NoSendAfterClose
<1>1. IInv /\ [Next]_vars => [closing_ => sending' <= sending]_vars
  <2> SUFFICES ASSUME IInv, [Next]_vars, closing_ PROVE sending' <= sending
    OBVIOUS
  <2> USE DEF IInv, TypeOK
  <2>1. CASE do_work_batch
    <3>1. CASE suspends
      BY <2>1, <3>1 DEF do_work_batch, CloseInv
    <3>2. CASE ~suspends
      <4>1. sending' = sending
        BY <2>1, <3>2 DEF do_work_batch
      <4> QED
        BY <4>1
    <3> QED
      BY <3>1, <3>2
  <2>2. CASE do_work_resume
    BY <2>2 DEF do_work_resume
  <2>3. CASE sending' = sending
    BY <2>3
  <2> QED
    BY <2>1, <2>2, <2>3, Zenon
    DEF Next, OwnerStep, WakerStep, WorkerStep, vars, sourceVars, linkVars, closeVars, on_frame, on_sequence_header,
        wakeup_test, wakeup_spawn, on_source_status_ok, owner_close, MediaSource_close,
        do_work_start, do_work_empty, do_work_done, posted_close, wait_return, close_start
<1> QED
  BY <1>1, Invariance, PTL DEF Spec, NoSendAfterClose
=============================================================================
