------------------------------ MODULE LazySink ------------------------------
(***************************************************************************)
(* The pull side of a media sink: LazyMediaSink (core/media_sink.cpp) with *)
(* the do_work loop of RtmpMediaSink and the WaitGroup it closes with.     *)
(*                                                                         *)
(* A source appends packets on the publisher's thread and calls wakeup()   *)
(* on every registered sink; the sink posts a do_work coroutine to its own *)
(* worker, which drains the source in batches through a callback.  Wakers  *)
(* are the threads that call wakeup(): the publisher always, and for the   *)
(* sink of a bridge also the thread that creates the bridge.  Everything   *)
(* else (do_work, close, the completion handlers) runs on the sink's       *)
(* worker, one handler at a time; running_ names the handler that is on    *)
(* it.  Posted handlers are counted, so they may run in any order.         *)
(***************************************************************************)
EXTENDS Integers, FiniteSets

CONSTANTS
    Wakers,      \* threads that call wakeup()
    Publisher,   \* the one that appends packets and wakes under sinks_mtx_
    Batch,       \* packets per get_pkts call (20 in the code)
    WakeFirst,   \* every packet up to this index wakes the sinks (300)
    WakeEvery,   \* later only the multiples of this one do (20)
    MaxPkts,     \* bound: packets the publisher appends
    MaxHeaders,  \* bound: sequence headers among them
    MaxCloses    \* bound: calls of close()

ASSUME SinkAssumption ==
    /\ Publisher \in Wakers
    /\ Batch \in Nat \ {0}
    /\ WakeEvery \in Nat \ {0}
    /\ WakeFirst \in Nat
    /\ MaxPkts \in Nat /\ MaxHeaders \in Nat /\ MaxCloses \in Nat

VARIABLES
    suspends,              \* whose sink: a player's callback awaits a socket (TRUE),
                           \* a bridge's never suspends; it does not change
    latest_frame_index_,   \* the source: index of the newest packet
    headers,               \* sequence headers among those packets
    waker,                 \* [Wakers -> where each is in wakeup()]
    working_, closing_,    \* the sink's flags
    cb_, status_cb_,       \* rtmp_msg_cb_ and status_cb_ are set
    last_send_pkt_index_,  \* next index to send, -1 before the first batch
    count_,                \* the WaitGroup's counter
    source_,               \* the sink's pointer to its source is not null
    registered,            \* the sink is in the source's sinks_
    queued,                \* do_work coroutines posted, not started
    sending,               \* do_work coroutines suspended in the callback
    running_,              \* the handler on the sink's worker
    closeQ,                \* close coroutines posted, by the captured `working`
    closeReq,              \* calls of close() the closing source has posted
    waiting,               \* close coroutines inside wg_.wait()
    closes,                \* calls of close() so far
    idleSince              \* history: newest packet when do_work last ended

vars == <<suspends, latest_frame_index_, headers, waker, working_, closing_, cb_,
          status_cb_, last_send_pkt_index_, count_, source_, registered, queued, sending,
          running_, closeQ, closeReq, waiting, closes, idleSince>>

sourceVars == <<latest_frame_index_, headers>>
linkVars == <<source_, registered>>
closeVars == <<closing_, count_, closeQ, closeReq, waiting, closes>>

TypeOK ==
    /\ suspends \in BOOLEAN
    /\ latest_frame_index_ \in Nat /\ headers \in Nat
    /\ waker \in [Wakers -> {"idle", "test", "set"}]
    /\ working_ \in BOOLEAN /\ closing_ \in BOOLEAN
    /\ cb_ \in BOOLEAN /\ status_cb_ \in BOOLEAN
    /\ source_ \in BOOLEAN /\ registered \in BOOLEAN
    /\ last_send_pkt_index_ \in Int
    /\ count_ \in Int
    /\ queued \in Nat /\ sending \in Nat /\ waiting \in Nat
    /\ closeReq \in Nat /\ closes \in Nat /\ idleSince \in Nat
    /\ running_ \in {"none", "fetch", "finish"}
    /\ closeQ \in [BOOLEAN -> Nat]

\* Only a bridge has a second waker, the thread that creates it.
Init ==
    /\ suspends \in BOOLEAN
    /\ latest_frame_index_ = 0 /\ headers = 0
    /\ waker = [w \in Wakers |-> IF w = Publisher \/ suspends THEN "idle" ELSE "test"]
    /\ working_ = FALSE /\ closing_ = FALSE /\ cb_ = FALSE /\ status_cb_ = TRUE
    /\ last_send_pkt_index_ = -1
    /\ count_ = 0 /\ source_ = TRUE /\ registered = TRUE
    /\ queued = 0 /\ sending = 0 /\ running_ = "none"
    /\ closeQ = [b \in BOOLEAN |-> 0] /\ closeReq = 0 /\ waiting = 0 /\ closes = 0
    /\ idleSince = 0

-----------------------------------------------------------------------------
(* The source's thread.                                                    *)

\* mutant of WakesAt: only the first packets wake.
WakesAt_first(i) == i <= WakeFirst

WakesAt(i) == i <= WakeFirst \/ i % WakeEvery = 0

\* on_audio_packet / on_video_packet with a frame: append it, then wake the
\* registered sinks when its index says so.
on_frame ==
    /\ waker[Publisher] = "idle"
    /\ latest_frame_index_ < MaxPkts
    /\ latest_frame_index_' = latest_frame_index_ + 1
    /\ waker' = [waker EXCEPT ![Publisher] =
                    IF registered /\ WakesAt(latest_frame_index_ + 1) THEN "test" ELSE "idle"]
    /\ UNCHANGED <<idleSince, status_cb_, headers, working_, cb_, last_send_pkt_index_, linkVars,
                   queued, sending, running_, closeVars>>

\* The same handlers with a sequence header: stored, but they return before
\* the wakeup.
on_sequence_header ==
    /\ waker[Publisher] = "idle"
    /\ latest_frame_index_ < MaxPkts /\ headers < MaxHeaders
    /\ latest_frame_index_' = latest_frame_index_ + 1
    /\ headers' = headers + 1
    /\ UNCHANGED <<idleSince, status_cb_, waker, working_, cb_, last_send_pkt_index_, linkVars,
                   queued, sending, running_, closeVars>>

\* wakeup(), first half: the test of working_ and closing_.
wakeup_test(w) ==
    /\ waker[w] = "test"
    /\ waker' = [waker EXCEPT ![w] = IF working_ \/ closing_ THEN "idle" ELSE "set"]
    /\ UNCHANGED <<idleSince, status_cb_, sourceVars, working_, cb_, last_send_pkt_index_, linkVars,
                   queued, sending, running_, closeVars>>

\* mutant of wakeup_spawn: working_ is not set.
wakeup_spawn_unmarked(w) ==
    /\ waker[w] = "set"
    /\ waker' = [waker EXCEPT ![w] = "idle"]
    /\ queued' = queued + 1
    /\ UNCHANGED <<idleSince, status_cb_, sourceVars, working_, cb_, last_send_pkt_index_,
                   linkVars, sending, running_, closeVars>>

\* wakeup(), second half: working_ = true and co_spawn of do_work.
wakeup_spawn(w) ==
    /\ waker[w] = "set"
    /\ waker' = [waker EXCEPT ![w] = "idle"]
    /\ working_' = TRUE
    /\ queued' = queued + 1
    /\ UNCHANGED <<idleSince, status_cb_, sourceVars, cb_, last_send_pkt_index_, linkVars, sending,
                   running_, closeVars>>

-----------------------------------------------------------------------------
(* The sink's worker.                                                      *)

\* The source-status callback sets the packet callback (on_rtmp_message).
on_source_status_ok ==
    /\ running_ = "none" /\ registered /\ status_cb_ /\ ~cb_
    /\ cb_' = TRUE
    /\ UNCHANGED <<idleSince, status_cb_, sourceVars, waker, working_, last_send_pkt_index_, linkVars,
                   queued, sending, running_, closeVars>>

\* do_work, its early returns.
do_work_start ==
    /\ running_ = "none" /\ queued > 0
    /\ queued' = queued - 1
    /\ running_' = IF source_ /\ cb_ THEN "fetch" ELSE "finish"
    /\ UNCHANGED <<idleSince, status_cb_, sourceVars, waker, working_, cb_, last_send_pkt_index_,
                   linkVars, sending, closeVars>>

\* mutant of close: the callback stays set.
close_keeps_callback ==
    /\ closes' = closes + 1
    /\ UNCHANGED cb_
    /\ closing_' = TRUE
    /\ count_' = IF working_ THEN count_ + 1 ELSE count_
    /\ closeQ' = [closeQ EXCEPT ![working_] = @ + 1]
    /\ UNCHANGED waiting

\* LazyMediaSink::close called on the sink's worker; RtmpMediaSink::close
\* first clears the callback.
close ==
    /\ closes' = closes + 1
    /\ cb_' = FALSE
    /\ closing_' = TRUE
    /\ count_' = IF working_ THEN count_ + 1 ELSE count_
    /\ closeQ' = [closeQ EXCEPT ![working_] = @ + 1]
    /\ UNCHANGED waiting

\* What get_pkts may do with the cursor: the first call starts at an index
\* the source picks (GopCache says which), the others go on from the cursor.
Starts ==
    IF last_send_pkt_index_ = -1 THEN 1..latest_frame_index_
    ELSE {last_send_pkt_index_} \cap (1..latest_frame_index_)

AfterBatch(start) ==
    IF start + Batch <= latest_frame_index_ + 1 THEN start + Batch
    ELSE latest_frame_index_ + 1

\* get_pkts returns nothing: do_work ends.
do_work_empty ==
    /\ running_ = "fetch"
    /\ last_send_pkt_index_ = -1 \/ Starts = {}
    /\ running_' = "finish"
    /\ UNCHANGED <<idleSince, status_cb_, sourceVars, waker, working_, cb_, last_send_pkt_index_,
                   linkVars, queued, sending, closeVars>>

\* The callback's answer: TRUE goes round the loop, FALSE closes the sink.
callback_result(ok) ==
    IF ok THEN running_' = "fetch" /\ UNCHANGED <<cb_, closeVars>>
    ELSE running_' = "finish" /\ close /\ UNCHANGED closeReq

\* A batch is fetched and handed to the callback.  An empty std::function
\* throws and ends do_work; a player's callback suspends.
do_work_batch ==
    /\ running_ = "fetch"
    /\ \E start \in Starts : last_send_pkt_index_' = AfterBatch(start)
    /\ \/ ~cb_ /\ running_' = "finish" /\ UNCHANGED <<cb_, sending, closeVars>>
       \/ /\ cb_ /\ suspends
          /\ sending' = sending + 1
          /\ running_' = "none"
          /\ UNCHANGED <<cb_, closeVars>>
       \/ /\ cb_ /\ ~suspends
          /\ \E ok \in BOOLEAN : callback_result(ok)
          /\ UNCHANGED sending
    /\ UNCHANGED <<idleSince, status_cb_, sourceVars, waker, working_, linkVars, queued>>

\* A suspended callback is resumed with its answer.
do_work_resume ==
    /\ running_ = "none" /\ sending > 0
    /\ sending' = sending - 1
    /\ \E ok \in BOOLEAN : callback_result(ok)
    /\ UNCHANGED <<idleSince, status_cb_, sourceVars, waker, working_, last_send_pkt_index_, linkVars, queued>>

\* The completion handler of do_work, run by the same handler as its end.
do_work_done ==
    /\ running_ = "finish"
    /\ running_' = "none"
    /\ working_' = FALSE
    /\ count_' = IF closing_ THEN count_ - 1 ELSE count_
    /\ idleSince' = latest_frame_index_
    /\ UNCHANGED <<status_cb_, sourceVars, waker, cb_, last_send_pkt_index_, linkVars, queued,
                   sending, closing_, closeQ, closeReq, waiting, closes>>

-----------------------------------------------------------------------------
(* Closing.  remove_media_sink takes sinks_mtx_ exclusively, so it waits for *)
(* a publisher that is waking the sinks under the shared lock.               *)

SinksUnlocked == waker[Publisher] = "idle"

\* The owner of the sink (a session's do_stop, a bridge's close) detaches it
\* from the source, unless the source it finds is not the sink's, clears the
\* status callback and closes it in the same handler.
owner_close ==
    /\ running_ = "none" /\ SinksUnlocked /\ closes < MaxCloses
    /\ \/ registered' = FALSE /\ source_' = (source_ /\ ~registered)
       \/ UNCHANGED linkVars
    /\ status_cb_' = FALSE
    /\ close
    /\ UNCHANGED <<idleSince, sourceVars, waker, working_, last_send_pkt_index_, queued,
                   sending, running_, closeReq>>

\* MediaSource::close: forgets the sink, its source_ pointer is left alone,
\* and posts sink->close() to the sink's worker.
MediaSource_close ==
    /\ registered /\ SinksUnlocked
    /\ registered' = FALSE
    /\ closeReq' = closeReq + 1
    /\ UNCHANGED <<idleSince, status_cb_, sourceVars, waker, working_, cb_, last_send_pkt_index_, source_,
                   queued, sending, running_, closing_, count_, closeQ, waiting, closes>>

posted_close ==
    /\ running_ = "none" /\ closeReq > 0
    /\ closeReq' = closeReq - 1
    /\ close
    /\ UNCHANGED <<idleSince, status_cb_, sourceVars, waker, working_, last_send_pkt_index_, linkVars,
                   queued, sending, running_>>

\* MediaSink::close: the sink leaves the source it is registered with.
MediaSink_close ==
    /\ source_ => SinksUnlocked
    /\ registered' = FALSE
    /\ source_' = (source_ /\ ~registered)

\* WaitGroup::wait() with a zero counter returns at once.
Waits(b) == b /\ count_ # 0

\* The coroutine close() posts: wait for do_work if it was working, then
\* MediaSink::close.
close_start(b) ==
    /\ running_ = "none" /\ closeQ[b] > 0
    /\ closeQ' = [closeQ EXCEPT ![b] = @ - 1]
    /\ IF Waits(b) THEN waiting' = waiting + 1 /\ UNCHANGED linkVars
       ELSE MediaSink_close /\ UNCHANGED waiting
    /\ UNCHANGED <<idleSince, status_cb_, sourceVars, waker, working_, cb_, last_send_pkt_index_, queued,
                   sending, running_, closing_, count_, closeReq, closes>>

\* mutant of wait_return: the timer has an expiry time in the far future.
wait_return_by_done ==
    /\ running_ = "none" /\ waiting > 0 /\ count_ = 0
    /\ waiting' = waiting - 1
    /\ MediaSink_close
    /\ UNCHANGED <<idleSince, status_cb_, sourceVars, waker, working_, cb_, last_send_pkt_index_,
                   queued, sending, running_, closing_, count_, closeQ, closeReq, closes>>

\* WaitGroup::wait() resumes.  Its timer has no expiry time set, so async_wait
\* completes by itself; done() cancelling it only makes it earlier.
wait_return ==
    /\ running_ = "none" /\ waiting > 0
    /\ waiting' = waiting - 1
    /\ MediaSink_close
    /\ UNCHANGED <<idleSince, status_cb_, sourceVars, waker, working_, cb_, last_send_pkt_index_, queued,
                   sending, running_, closing_, count_, closeQ, closeReq, closes>>

-----------------------------------------------------------------------------
WorkerStep ==
    /\ UNCHANGED suspends
    /\ \/ do_work_start \/ do_work_empty \/ do_work_batch \/ do_work_resume
       \/ do_work_done
       \/ posted_close \/ wait_return
       \/ \E b \in BOOLEAN : close_start(b)

WakerStep(w) == UNCHANGED suspends /\ (wakeup_test(w) \/ wakeup_spawn(w))

OwnerStep ==
    /\ UNCHANGED suspends
    /\ \/ on_frame \/ on_sequence_header
       \/ on_source_status_ok
       \/ owner_close \/ MediaSource_close

Next == OwnerStep \/ (\E w \in Wakers : WakerStep(w)) \/ WorkerStep

\* The io_context of the worker runs every handler posted to it, a callback
\* ends with an answer, and a thread inside wakeup() goes on.
Fairness ==
    /\ WF_vars(WorkerStep)
    /\ \A w \in Wakers : WF_vars(WakerStep(w))

Spec == Init /\ [][Next]_vars

FairSpec == Spec /\ Fairness

-----------------------------------------------------------------------------
Idle == queued = 0 /\ sending = 0 /\ running_ = "none"

Closed == closeQ[TRUE] = 0 /\ closeQ[FALSE] = 0 /\ closeReq = 0 /\ waiting = 0

\* do_work coroutines that are past their start.
InWork == sending + (IF running_ = "none" THEN 0 ELSE 1)

\* At most one do_work is between two of its get_pkts calls: pkts_, which the
\* suspended callback reads by reference, is never refilled under it, and
\* packets cannot overtake each other (rtmp_media_sink.cpp:74-84).
OneDoWork == InWork <= 1

\* A wakeup is lost only while a do_work is ending, between its last empty
\* get_pkts and working_ = false: since it ended, an idle sink has missed fewer
\* than WakeEvery packets, plus WakeEvery for every sequence header, which
\* takes an index without waking (rtmp_media_source.cpp:142-153).
BoundedBacklog ==
    (Idle /\ ~closing_ /\ registered /\ \A w \in Wakers : waker[w] = "idle")
    => latest_frame_index_ - idleSince < WakeEvery * (1 + headers)

\* Once a sink is closing, everything posted for it ends and it is out of the
\* source's sinks_, so that the last reference to it goes away, however often
\* close() is called and whatever do_work is doing (media_sink.cpp:112-129).
CloseCompletes == closing_ ~> (Idle /\ Closed /\ ~registered)

\* A closing sink hands out no more packets, although the do_work loop does not
\* look at closing_: close() has cleared the callback, and the status callback
\* that could set it again goes first (rtmp_server_session.cpp:206-209).
NoSendAfterClose == [][closing_ => sending' <= sending]_vars

\* media_sink.cpp:120, "make sure wakeup has ended before releasing itself":
\* MediaSink::close runs only when no do_work is under way.
ReleasedAfterWork ==
    [][(wait_return \/ \E b \in BOOLEAN : close_start(b) /\ ~Waits(b)) => sending = 0]_vars
=============================================================================
