-------------------------- MODULE PublishLifecycle --------------------------
(***************************************************************************)
(* The life of one stream name: the RTMP sessions that publish it, the     *)
(* media sources they create or take over, and the registry               *)
(* (SourceManager) that maps the name to a source.                         *)
(*                                                                         *)
(* Every session lives on a worker of its own.  Its recv coroutine runs    *)
(* handle_amf0_publish_command, its do_stop coroutine takes it down, and a *)
(* cleanup coroutine removes the source some time after.  A step is what   *)
(* happens between two co_awaits or two locked regions.  A source points   *)
(* to its session weakly: the pointer can be locked as long as something   *)
(* keeps the session alive.  A source is named after its creator.          *)
(***************************************************************************)
EXTENDS Integers

CONSTANTS
    Sessions,   \* connections that come to publish the name, each once
    Null

ASSUME PublishAssumption == Null \notin Sessions

VARIABLES
    policy,              \* stream_conflict_policy: "replace" or "reject"; configured
    prompt,              \* no straight-line code takes stream_resume_timeout (10 s)
    sources_,            \* the registered source, or Null
    session_,            \* [source -> session its weak pointer names, or Null]
    srcClosed, srcClose, \* [source -> closed_ of the source], [-> close() is posted]
    recv,                \* [session -> where the recv coroutine is]
    found,               \* [session -> the local rtmp_media_source]
    old_session,         \* [session -> the local old_session]
    rtmp_media_source_,  \* [session -> its source]
    closed_,             \* [session -> closed_ flag]
    do_stop,             \* [session -> where do_stop is]
    cleanup,             \* [session -> where the delayed check is]
    busy,                \* [session -> straight-line code under way when its timer started]
    conn                 \* [session -> the socket is open and holds the session]

srcVars == <<sources_, session_, srcClosed, srcClose>>
pubVars == <<found, old_session, rtmp_media_source_>>
vars == <<policy, prompt, srcVars, recv, pubVars, closed_, do_stop, cleanup, busy, conn>>

RecvPc == {"none", "cmd", "found", "kick", "stopping", "bind", "replace", "notify",
           "add", "publishing", "ended", "refused"}

TypeOK ==
    /\ policy \in {"replace", "reject"} /\ prompt \in BOOLEAN
    /\ sources_ \in Sessions \cup {Null}
    /\ session_ \in [Sessions -> Sessions \cup {Null}]
    /\ srcClosed \in [Sessions -> BOOLEAN] /\ srcClose \in [Sessions -> BOOLEAN]
    /\ recv \in [Sessions -> RecvPc]
    /\ found \in [Sessions -> Sessions \cup {Null}]
    /\ old_session \in [Sessions -> Sessions \cup {Null}]
    /\ rtmp_media_source_ \in [Sessions -> Sessions \cup {Null}]
    /\ closed_ \in [Sessions -> BOOLEAN]
    /\ do_stop \in [Sessions -> {"no", "posted", "wait", "unpublish", "done"}]
    /\ cleanup \in [Sessions -> {"no", "timer", "remove", "close", "done"}]
    /\ \A s \in Sessions : cleanup[s] # "no" => rtmp_media_source_[s] \in Sessions
    /\ busy \in [Sessions -> SUBSET (Sessions \X (1..3))]
    /\ conn \in [Sessions -> BOOLEAN]

Init ==
    /\ policy \in {"replace", "reject"} /\ prompt \in BOOLEAN
    /\ sources_ = Null
    /\ session_ = [s \in Sessions |-> Null]
    /\ srcClosed = [s \in Sessions |-> FALSE] /\ srcClose = [s \in Sessions |-> FALSE]
    /\ recv = [s \in Sessions |-> "none"]
    /\ found = [s \in Sessions |-> Null] /\ old_session = [s \in Sessions |-> Null]
    /\ rtmp_media_source_ = [s \in Sessions |-> Null]
    /\ closed_ = [s \in Sessions |-> FALSE]
    /\ do_stop = [s \in Sessions |-> "no"] /\ cleanup = [s \in Sessions |-> "no"]
    /\ busy = [s \in Sessions |-> {}]
    /\ conn = [s \in Sessions |-> FALSE]

-----------------------------------------------------------------------------
\* Something holds a shared_ptr to the session: its socket, one of its
\* coroutines, or the session that is kicking it.
Alive(s) ==
    \/ conn[s]
    \/ recv[s] \notin {"none", "ended", "refused"}
    \/ do_stop[s] \notin {"no", "done"}
    \/ cleanup[s] \notin {"no", "done"}
    \/ \E t \in Sessions : old_session[t] = s

\* get_session: lock the source's weak pointer.
get_session(src) ==
    IF session_[src] # Null /\ Alive(session_[src]) THEN session_[src] ELSE Null

\* mutants of CanBind: a session may take any source; a do_stop may unbind.
CanBind_steals(src, s) == s # Null \/ get_session(src) = Null
CanBind_unbinds(src, s) == s = Null \/ get_session(src) \in {Null, s}

\* set_session refuses to take the source from another session that is alive;
\* with s = Null (do_stop) that includes the caller.
CanBind(src, s) == get_session(src) \in {Null, s}
set_session(src, s) ==
    session_' = IF CanBind(src, s) THEN [session_ EXCEPT ![src] = s] ELSE session_

\* Sections of the publish handler without a co_await; a session passes each once.
Section(s) == CASE recv[s] \in {"found", "kick", "bind"} -> 1
                [] recv[s] = "replace" -> 2
                [] recv[s] = "add" -> 3
                [] OTHER -> 0
StraightLine == IF prompt THEN {<<t, Section(t)>> : t \in {u \in Sessions : Section(u) # 0}}
                ELSE {}

-----------------------------------------------------------------------------
(* Stopping a session.                                                     *)

\* stop() and the first half of sync_stop: the first caller posts do_stop.
stop(s) ==
    /\ closed_' = [closed_ EXCEPT ![s] = TRUE]
    /\ do_stop' = IF closed_[s] THEN do_stop ELSE [do_stop EXCEPT ![s] = "posted"]

\* The recv coroutine ends: its completion handler calls stop().
Ends(s) ==
    /\ recv' = [recv EXCEPT ![s] = "ended"]
    /\ stop(s)

\* do_stop up to wg_.wait(): the connection, the channel and the timers.
do_stop_begin(s) ==
    /\ do_stop[s] = "posted"
    /\ conn' = [conn EXCEPT ![s] = FALSE]
    /\ do_stop' = [do_stop EXCEPT ![s] = "wait"]
    /\ UNCHANGED <<srcVars, recv, pubVars, closed_, cleanup, busy>>

\* wg_.wait() is over; it does not wait for the other coroutines (see
\* LazySink).  The source is unbound and the delayed check started.
do_stop_unbind(s) ==
    LET src == rtmp_media_source_[s]
    IN  /\ do_stop[s] = "wait"
        /\ \/ /\ src = Null
              /\ do_stop' = [do_stop EXCEPT ![s] = "done"]
              /\ UNCHANGED <<session_, cleanup, busy>>
           \/ /\ src # Null
              /\ set_session(src, Null)
              /\ cleanup' = [cleanup EXCEPT ![s] = "timer"]
              /\ busy' = [busy EXCEPT ![s] = StraightLine]
              /\ do_stop' = [do_stop EXCEPT ![s] = "unpublish"]
        /\ UNCHANGED <<sources_, srcClosed, srcClose, recv, pubVars, closed_, conn>>

\* on_unpublish has run its http callbacks.
do_stop_end(s) ==
    /\ do_stop[s] = "unpublish"
    /\ do_stop' = [do_stop EXCEPT ![s] = "done"]
    /\ UNCHANGED <<srcVars, recv, pubVars, closed_, cleanup, busy, conn>>

\* The socket closes by itself (inactive, reset): it lets the session go.
on_socket_close(s) ==
    /\ conn[s]
    /\ conn' = [conn EXCEPT ![s] = FALSE]
    /\ stop(s)
    /\ UNCHANGED <<srcVars, recv, pubVars, cleanup, busy>>

\* start_alive_checker: a publishing session that has been silent is stopped.
alive_checker(s) ==
    /\ recv[s] = "publishing" /\ ~closed_[s]
    /\ stop(s)
    /\ UNCHANGED <<srcVars, recv, pubVars, cleanup, busy, conn>>

-----------------------------------------------------------------------------
(* The recv coroutine.                                                     *)

Goto(s, pc) == recv' = [recv EXCEPT ![s] = pc]

\* on_socket_open: a session for the new connection, and its coroutines.
on_socket_open(s) ==
    /\ recv[s] = "none"
    /\ conn' = [conn EXCEPT ![s] = TRUE]
    /\ Goto(s, "cmd")
    /\ UNCHANGED <<srcVars, pubVars, closed_, do_stop, cleanup, busy>>

\* The connection breaks, or the peer sends what a handler refuses.
recv_ends(s) ==
    /\ recv[s] \in {"cmd", "publishing"}
    /\ Ends(s)
    /\ UNCHANGED <<srcVars, pubVars, cleanup, busy, conn>>

\* handle_amf0_publish_command: the lookup.  A new source is bound to its
\* creator by its constructor.
publish_lookup(s) ==
    /\ recv[s] = "cmd"
    /\ \/ /\ sources_ = Null
          /\ rtmp_media_source_' = [rtmp_media_source_ EXCEPT ![s] = s]
          /\ session_' = [session_ EXCEPT ![s] = s]
          /\ Goto(s, "bind")
          /\ UNCHANGED found
       \/ /\ sources_ # Null
          /\ found' = [found EXCEPT ![s] = sources_]
          /\ Goto(s, "found")
          /\ UNCHANGED <<rtmp_media_source_, session_>>
    /\ UNCHANGED <<sources_, srcClosed, srcClose, old_session, closed_, do_stop, cleanup, busy, conn>>

\* A registered source: does a session own it?
publish_conflict(s) ==
    LET cur == get_session(found[s])
    IN  /\ recv[s] = "found"
        /\ \/ /\ cur = Null
              /\ rtmp_media_source_' = [rtmp_media_source_ EXCEPT ![s] = found[s]]
              /\ Goto(s, "bind")
              /\ UNCHANGED <<old_session, closed_, do_stop>>
           \/ /\ cur # Null /\ policy = "replace"
              /\ old_session' = [old_session EXCEPT ![s] = cur]
              /\ Goto(s, "kick")
              /\ UNCHANGED <<rtmp_media_source_, closed_, do_stop>>
           \/ /\ cur # Null /\ policy = "reject"
              /\ Ends(s)
              /\ UNCHANGED <<rtmp_media_source_, old_session>>
        /\ UNCHANGED <<srcVars, found, cleanup, busy, conn>>

\* old_session->sync_stop(): FALSE when the old session is closing already.
sync_stop(s) ==
    LET cur == old_session[s]
    IN  /\ recv[s] = "kick"
        /\ \/ /\ closed_[cur]
              /\ Ends(s)
              /\ old_session' = [old_session EXCEPT ![s] = Null]
           \/ /\ ~closed_[cur]
              /\ stop(cur)
              /\ Goto(s, "stopping")
              /\ UNCHANGED old_session
        /\ UNCHANGED <<srcVars, found, rtmp_media_source_, cleanup, busy, conn>>

\* stop_wg.wait() returns, whether or not do_stop of the old session is over.
sync_stop_return(s) ==
    /\ recv[s] = "stopping"
    /\ old_session' = [old_session EXCEPT ![s] = Null]
    /\ rtmp_media_source_' = [rtmp_media_source_ EXCEPT ![s] = found[s]]
    /\ Goto(s, "replace")
    /\ UNCHANGED <<srcVars, found, closed_, do_stop, cleanup, busy, conn>>

\* set_session(self).  A handler that loses the race for the source ends, and
\* its session keeps the source it was refused.
publish_bind(s) ==
    LET src == rtmp_media_source_[s]
    IN  /\ recv[s] \in {"bind", "replace"}
        /\ set_session(src, s)
        /\ IF CanBind(src, s) THEN Goto(s, "notify") /\ UNCHANGED <<closed_, do_stop>>
           ELSE Goto(s, "refused") /\ stop(s)
        /\ UNCHANGED <<sources_, srcClosed, srcClose, pubVars, cleanup, busy, conn>>

\* publish_app->on_publish answers and the status message is queued, unless
\* the answer is an error or do_stop has closed the channel.
on_publish_return(s) ==
    /\ recv[s] = "notify"
    /\ \/ Ends(s)
       \/ do_stop[s] \in {"no", "posted"} /\ Goto(s, "add") /\ UNCHANGED <<closed_, do_stop>>
    /\ UNCHANGED <<srcVars, pubVars, cleanup, busy, conn>>

\* MediaSource::close, the flag and the posted coroutine.
MediaSource_close(src) ==
    /\ srcClosed' = [srcClosed EXCEPT ![src] = TRUE]
    /\ srcClose' = IF srcClosed[src] THEN srcClose ELSE [srcClose EXCEPT ![src] = TRUE]

\* add_source: the name is free or already this source's; otherwise the source
\* is closed again.
publish_add(s) ==
    LET src == rtmp_media_source_[s]
    IN  /\ recv[s] = "add"
        /\ \/ /\ sources_ \in {Null, src}
              /\ sources_' = src
              /\ Goto(s, "publishing")
              /\ UNCHANGED <<srcClosed, srcClose, closed_, do_stop>>
           \/ /\ sources_ \notin {Null, src}
              /\ MediaSource_close(src)
              /\ Ends(s)
              /\ UNCHANGED sources_
        /\ UNCHANGED <<session_, pubVars, cleanup, busy, conn>>

-----------------------------------------------------------------------------
(* start_delayed_source_check_and_delete, stream_resume_timeout later.     *)

\* mutant of cleanup_check: the timer is armed again while a session is bound.
cleanup_check_rearms(s) ==
    /\ cleanup[s] = "timer"
    /\ get_session(rtmp_media_source_[s]) = Null
    /\ cleanup' = [cleanup EXCEPT ![s] = "remove"]
    /\ UNCHANGED <<srcVars, recv, pubVars, closed_, do_stop, busy, conn>>

cleanup_check(s) ==
    /\ cleanup[s] = "timer"
    /\ \A e \in busy[s] : Section(e[1]) # e[2]
    /\ cleanup' = [cleanup EXCEPT ![s] =
                     IF get_session(rtmp_media_source_[s]) = Null THEN "remove" ELSE "done"]
    /\ UNCHANGED <<srcVars, recv, pubVars, closed_, do_stop, busy, conn>>

\* remove_source, by name.
cleanup_remove(s) ==
    /\ cleanup[s] = "remove"
    /\ sources_' = Null
    /\ cleanup' = [cleanup EXCEPT ![s] = "close"]
    /\ UNCHANGED <<session_, srcClosed, srcClose, recv, pubVars, closed_, do_stop, busy, conn>>

cleanup_close(s) ==
    /\ cleanup[s] = "close"
    /\ MediaSource_close(rtmp_media_source_[s])
    /\ cleanup' = [cleanup EXCEPT ![s] = "done"]
    /\ UNCHANGED <<sources_, session_, recv, pubVars, closed_, do_stop, busy, conn>>

\* The coroutine MediaSource::close posts: stop the session, if there is one.
source_close_run(src) ==
    /\ srcClose[src]
    /\ srcClose' = [srcClose EXCEPT ![src] = FALSE]
    /\ IF get_session(src) = Null THEN UNCHANGED <<closed_, do_stop>>
       ELSE stop(get_session(src))
    /\ UNCHANGED <<sources_, session_, srcClosed, recv, pubVars, cleanup, busy, conn>>

-----------------------------------------------------------------------------
\* Steps a worker takes by itself once they are enabled.
WorkerStep(s) ==
    \/ publish_conflict(s) \/ sync_stop(s) \/ sync_stop_return(s) \/ publish_bind(s)
    \/ on_publish_return(s) \/ publish_add(s)
    \/ do_stop_begin(s) \/ do_stop_unbind(s) \/ do_stop_end(s)
    \/ cleanup_check(s) \/ cleanup_remove(s) \/ cleanup_close(s)
    \/ source_close_run(s)

Kept == UNCHANGED <<policy, prompt>>

Next == Kept /\ \E s \in Sessions :
    \/ on_socket_open(s) \/ on_socket_close(s) \/ publish_lookup(s)
    \/ recv_ends(s) \/ alive_checker(s)
    \/ WorkerStep(s)

Spec == Init /\ [][Next]_vars

PublishStep(s) == \/ publish_conflict(s) \/ sync_stop(s) \/ sync_stop_return(s)
                  \/ publish_bind(s) \/ on_publish_return(s) \/ publish_add(s)
StopStep(s) == do_stop_begin(s) \/ do_stop_unbind(s) \/ do_stop_end(s)
CleanupStep(s) == cleanup_check(s) \/ cleanup_remove(s) \/ cleanup_close(s)

\* Every handler posted to a worker runs and every timer fires; reading from a
\* closed connection fails.
FairSpec ==
    /\ Spec
    /\ \A s \in Sessions : /\ WF_vars(Kept /\ PublishStep(s))
                           /\ WF_vars(Kept /\ StopStep(s))
                           /\ WF_vars(Kept /\ CleanupStep(s))
                           /\ WF_vars(Kept /\ source_close_run(s))
                           /\ WF_vars(Kept /\ ~conn[s] /\ recv_ends(s))

-----------------------------------------------------------------------------
Feeding(s) == recv[s] \in {"notify", "add", "publishing"}

\* Two sessions never feed the same source, whatever kicks, reconnects and
\* delayed checks run at the same time (media_source.cpp:90-102).
SingleFeeder == \A s, t \in Sessions :
    s # t /\ Feeding(s) /\ Feeding(t) => rtmp_media_source_[s] # rtmp_media_source_[t]

\* As long as a session feeds a source, the source is bound to it: another
\* session's do_stop never takes it away (rtmp_server_session.cpp:215).
FeederIsBound == \A s \in Sessions :
    Feeding(s) => get_session(rtmp_media_source_[s]) = s

\* Nobody closes a source that a session feeds, although delayed checks of
\* earlier sessions on the same source may still be running
\* (stream_session.cpp:80-85).  It rests on the length of the delay: no handler
\* takes that long between its lookup of the source and its set_session.  And
\* it rests on no session having lost the race for a source: the delayed check
\* of such a session may outlive the winner and meet the next one.
FedStaysOpen == \A s \in Sessions :
    /\ prompt /\ Feeding(s)
    /\ \A t \in Sessions : recv[t] # "refused"
    => ~srcClose[rtmp_media_source_[s]]

\* A session that is closed is destroyed in the end: no cycle of coroutines,
\* delayed checks and kicking sessions keeps it (stream_session.cpp:61-96).
ClosedIsDestroyed == \A s \in Sessions : closed_[s] ~> ~Alive(s)

\* app_config.h:120, "the stream is deleted after 10 seconds": when no session
\* is left, the name is free again in the end.
StreamDeleted == []<>(sources_ = Null \/ \E s \in Sessions : Alive(s))

\* rtmp_server_session.cpp:482, "kick the old client off and take its place":
\* a session that has stopped the old one gets the source.
ReplaceTakesOver == [][\A s \in Sessions :
    recv[s] = "replace" /\ recv'[s] # "replace" => session_'[rtmp_media_source_[s]] = s]_vars

\* stream_session.cpp:81, "the session has been unbound, so it can be deleted":
\* a source that the delayed check unregisters has no session.
RemovesUnbound == [][\A s \in Sessions :
    cleanup[s] = "remove" /\ cleanup'[s] = "close" /\ sources_ # Null
        => get_session(sources_) = Null]_vars
=============================================================================
