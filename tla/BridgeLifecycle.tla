-------------------------- MODULE BridgeLifecycle ---------------------------
(***************************************************************************)
(* Protocol bridges (RtmpToFlv and its siblings): created by the first     *)
(* player of a protocol, shared by the later ones, closed by a timer when  *)
(* nobody plays, or when the origin source closes (bridge/rtmp/            *)
(* rtmp_to_flv.cpp, core/media_source.cpp, get_or_create_bridge).          *)
(*                                                                         *)
(* The origin source has one bridge id; its instances over time are        *)
(* numbered.  The origin, every player and the bridge run on workers of    *)
(* their own; a step is one locked region or the code between co_awaits.   *)
(* Time advances in units of half the no-players timeout.                  *)
(***************************************************************************)
EXTENDS Integers, FiniteSets

CONSTANTS
    Players,     \* each plays once
    MaxBridges,  \* bound: instances of the bridge
    Timeout      \* no_players_timeout_ms in time units; checked every Timeout \div 2

ASSUME BridgeAssumption ==
    /\ IsFiniteSet(Players) /\ MaxBridges \in Nat
    /\ Timeout \in Nat /\ Timeout % 2 = 0 /\ Timeout > 0

Bridges == 1..MaxBridges
Period == Timeout \div 2

VARIABLES
    origin,        \* the origin source: "open", "closing" (posted), "closed"
    bridges_,      \* the instance in the origin's bridges_, 0 if none
    originSinks,   \* instances whose sink is in the origin's sinks_
    made,          \* instances created so far
    closed_,       \* [instance -> closed_ flag]
    closing,       \* [instance -> how far its close coroutine is]
    source,        \* [instance -> flv_media_source_ is not null]
    srcClosed,     \* [instance -> closed_ of its source]
    srcClose,      \* [instance -> close() of its source is posted]
    sinks_,        \* [instance -> players whose sink is in its source]
    sinks_count_,  \* [instance -> the counter beside it]
    sinceLeave,    \* [instance -> time since last_sinks_or_bridges_leave_time_]
    unused,        \* [instance -> time since it was created or last had a sink]
    loop,          \* [instance -> the check_closable_timer_ loop runs]
    check,         \* [instance -> time to the next check]
    sinkClose,     \* instances whose sink->close() the origin has posted
    player, has,   \* [player -> where it is], [player -> the instance it holds]
    kicked         \* players whose sink->close() is posted

originVars == <<origin, bridges_, originSinks, made>>
srcVars == <<source, srcClosed, srcClose, sinks_, sinks_count_>>
timeVars == <<sinceLeave, unused, loop, check>>
vars == <<originVars, closed_, closing, srcVars, timeVars, sinkClose, player, has, kicked>>

TypeOK ==
    /\ origin \in {"open", "closing", "closed"}
    /\ bridges_ \in 0..made /\ made \in 0..MaxBridges
    /\ originSinks \subseteq Bridges /\ sinkClose \subseteq Bridges
    /\ closed_ \in [Bridges -> BOOLEAN]
    /\ closing \in [Bridges -> {"no", "posted", "wait", "sink", "bridge", "done"}]
    /\ source \in [Bridges -> BOOLEAN]
    /\ srcClosed \in [Bridges -> BOOLEAN] /\ srcClose \in [Bridges -> BOOLEAN]
    /\ sinks_ \in [Bridges -> SUBSET Players] /\ sinks_count_ \in [Bridges -> Nat]
    /\ sinceLeave \in [Bridges -> 0..Timeout] /\ unused \in [Bridges -> 0..Timeout]
    /\ loop \in [Bridges -> BOOLEAN] /\ check \in [Bridges -> 0..Period]
    /\ player \in [Players -> {"idle", "found", "got", "source", "null", "playing", "gone"}]
    /\ has \in [Players -> 0..made]
    /\ kicked \subseteq Players

\* last_sinks_or_bridges_leave_time_ starts at -1: as if a sink had left a
\* long time ago.
Init ==
    /\ origin = "open" /\ bridges_ = 0 /\ originSinks = {} /\ made = 0
    /\ closed_ = [b \in Bridges |-> FALSE] /\ closing = [b \in Bridges |-> "no"]
    /\ source = [b \in Bridges |-> TRUE]
    /\ srcClosed = [b \in Bridges |-> FALSE] /\ srcClose = [b \in Bridges |-> FALSE]
    /\ sinks_ = [b \in Bridges |-> {}] /\ sinks_count_ = [b \in Bridges |-> 0]
    /\ sinceLeave = [b \in Bridges |-> Timeout] /\ unused = [b \in Bridges |-> 0]
    /\ loop = [b \in Bridges |-> TRUE] /\ check = [b \in Bridges |-> Period]
    /\ sinkClose = {}
    /\ player = [p \in Players |-> "idle"] /\ has = [p \in Players |-> 0]
    /\ kicked = {}

-----------------------------------------------------------------------------
(* Players.                                                                *)

Goto(p, pc) == player' = [player EXCEPT ![p] = pc]

\* SourceManager::get_source finds the origin.
find_source(p) ==
    /\ player[p] = "idle" /\ origin = "open"
    /\ Goto(p, "found")
    /\ UNCHANGED <<originVars, closed_, closing, srcVars, timeVars, sinkClose, has, kicked>>

\* mutant of get_or_create_bridge: a closing instance is not reused, but
\* bridges_.insert does not replace it.
get_or_create_bridge_inserts(p) ==
    /\ player[p] = "found"
    /\ \/ /\ bridges_ # 0 /\ ~closed_[bridges_]
          /\ has' = [has EXCEPT ![p] = bridges_]
          /\ UNCHANGED originVars
       \/ /\ (IF bridges_ = 0 THEN TRUE ELSE closed_[bridges_]) /\ made < MaxBridges
          /\ made' = made + 1
          /\ bridges_' = IF bridges_ = 0 THEN made + 1 ELSE bridges_
          /\ originSinks' = originSinks \cup {made + 1}
          /\ has' = [has EXCEPT ![p] = made + 1]
          /\ UNCHANGED origin
    /\ Goto(p, "got")
    /\ UNCHANGED <<closed_, closing, srcVars, timeVars, sinkClose, kicked>>

\* get_or_create_bridge, under bridges_mtx_.
get_or_create_bridge(p) ==
    /\ player[p] = "found"
    /\ \/ /\ bridges_ # 0
          /\ has' = [has EXCEPT ![p] = bridges_]
          /\ UNCHANGED originVars
       \/ /\ bridges_ = 0 /\ made < MaxBridges
          /\ made' = made + 1
          /\ bridges_' = made + 1
          /\ originSinks' = originSinks \cup {made + 1}
          /\ has' = [has EXCEPT ![p] = made + 1]
          /\ UNCHANGED origin
    /\ Goto(p, "got")
    /\ UNCHANGED <<closed_, closing, srcVars, timeVars, sinkClose, kicked>>

\* bridge->get_media_source(): null once the bridge has closed its source; the
\* caller goes on with the null pointer.
get_media_source(p) ==
    /\ player[p] = "got"
    /\ Goto(p, IF source[has[p]] THEN "source" ELSE "null")
    /\ UNCHANGED <<originVars, closed_, closing, srcVars, timeVars, sinkClose, has, kicked>>

\* add_media_sink does not ask whether the source is closed.
add_media_sink(p) ==
    /\ player[p] = "source"
    /\ sinks_' = [sinks_ EXCEPT ![has[p]] = @ \cup {p}]
    /\ sinks_count_' = [sinks_count_ EXCEPT ![has[p]] = @ + 1]
    /\ unused' = [unused EXCEPT ![has[p]] = 0]
    /\ Goto(p, "playing")
    /\ UNCHANGED <<originVars, closed_, closing, source, srcClosed, srcClose, sinceLeave,
                   loop, check, sinkClose, has, kicked>>

\* mutant of remove_media_sink: the counter is not lowered.
remove_media_sink_counted(p) ==
    LET b == has[p]
    IN  IF p \in sinks_[b]
        THEN /\ sinks_' = [sinks_ EXCEPT ![b] = @ \ {p}]
             /\ sinceLeave' = [sinceLeave EXCEPT ![b] = 0]
             /\ unused' = [unused EXCEPT ![b] = 0]
             /\ UNCHANGED sinks_count_
        ELSE UNCHANGED <<sinks_, sinks_count_, sinceLeave, unused>>

\* remove_media_sink, if the sink is still registered.
remove_media_sink(p) ==
    LET b == has[p]
    IN  IF p \in sinks_[b]
        THEN /\ sinks_' = [sinks_ EXCEPT ![b] = @ \ {p}]
             /\ sinks_count_' = [sinks_count_ EXCEPT ![b] = @ - 1]
             /\ sinceLeave' = [sinceLeave EXCEPT ![b] = 0]
             /\ unused' = [unused EXCEPT ![b] = 0]
        ELSE UNCHANGED <<sinks_, sinks_count_, sinceLeave, unused>>

\* The viewer goes away, or its sink was closed: the session stops.
player_stop(p) ==
    /\ player[p] = "playing"
    /\ remove_media_sink(p)
    /\ kicked' = kicked \ {p}
    /\ Goto(p, "gone")
    /\ UNCHANGED <<originVars, closed_, closing, source, srcClosed, srcClose, loop,
                   check, sinkClose, has>>

\* The session stops before it has a sink in the source.
player_abort(p) ==
    /\ player[p] = "source"
    /\ Goto(p, "gone")
    /\ UNCHANGED <<originVars, closed_, closing, srcVars, timeVars, sinkClose, has, kicked>>

-----------------------------------------------------------------------------
(* The bridge.                                                             *)

\* The loop waits on its timer.  A loop that outlives flv_media_source_ calls
\* through a null pointer when its timer fires, where this model ends.
Waits(b) == b <= made /\ loop[b] /\ source[b]

\* MediaSource::has_no_sinks_for_time; these sources have no bridges.
has_no_sinks_for_time(b) == sinks_count_[b] = 0 /\ sinceLeave[b] >= Timeout

\* close(): the first caller posts the coroutine.
close(b) ==
    /\ closed_' = [closed_ EXCEPT ![b] = TRUE]
    /\ closing' = IF closed_[b] THEN closing ELSE [closing EXCEPT ![b] = "posted"]

\* The check_closable_timer_ loop of init().
check_closable(b) ==
    /\ Waits(b) /\ check[b] = 0
    /\ \/ /\ has_no_sinks_for_time(b)
          /\ close(b)
          /\ loop' = [loop EXCEPT ![b] = FALSE]
          /\ UNCHANGED check
       \/ /\ ~has_no_sinks_for_time(b)
          /\ check' = [check EXCEPT ![b] = Period]
          /\ UNCHANGED <<closed_, closing, loop>>
    /\ UNCHANGED <<originVars, srcVars, sinceLeave, unused, sinkClose, player, has, kicked>>

\* The close coroutine: cancel the timer, which ends the loop unless the timer
\* has already expired, and wait for the loop; WaitGroup::wait returns anyway.
close_wait(b) ==
    /\ closing[b] = "posted"
    /\ closing' = [closing EXCEPT ![b] = "wait"]
    /\ loop' = [loop EXCEPT ![b] = @ /\ check[b] = 0]
    /\ UNCHANGED <<originVars, closed_, srcVars, sinceLeave, unused, check, sinkClose,
                   player, has, kicked>>

\* close the source and forget it,
close_source(b) ==
    /\ closing[b] = "wait"
    /\ closing' = [closing EXCEPT ![b] = "sink"]
    /\ source' = [source EXCEPT ![b] = FALSE]
    /\ srcClosed' = [srcClosed EXCEPT ![b] = TRUE]
    /\ srcClose' = IF srcClosed[b] THEN srcClose ELSE [srcClose EXCEPT ![b] = TRUE]
    /\ UNCHANGED <<originVars, closed_, sinks_, sinks_count_, timeVars, sinkClose,
                   player, has, kicked>>

\* take the sink out of the origin,
close_sink(b) ==
    /\ closing[b] = "sink"
    /\ closing' = [closing EXCEPT ![b] = "bridge"]
    /\ originSinks' = originSinks \ {b}
    /\ UNCHANGED <<origin, bridges_, made, closed_, srcVars, timeVars, sinkClose,
                   player, has, kicked>>

\* and the bridge itself, if it is this instance that is registered.
remove_bridge(b) ==
    /\ closing[b] = "bridge"
    /\ closing' = [closing EXCEPT ![b] = "done"]
    /\ bridges_' = IF bridges_ = b THEN 0 ELSE bridges_
    /\ UNCHANGED <<origin, originSinks, made, closed_, srcVars, timeVars, sinkClose,
                   player, has, kicked>>

\* The coroutine of MediaSource::close: close the sinks; the counter stays.
source_close_run(b) ==
    /\ srcClose[b]
    /\ srcClose' = [srcClose EXCEPT ![b] = FALSE]
    /\ kicked' = kicked \cup sinks_[b]
    /\ sinks_' = [sinks_ EXCEPT ![b] = {}]
    /\ UNCHANGED <<originVars, closed_, closing, source, srcClosed, sinks_count_, timeVars,
                   sinkClose, player, has>>

-----------------------------------------------------------------------------
(* The origin source.                                                      *)

origin_close ==
    /\ origin = "open"
    /\ origin' = "closing"
    /\ UNCHANGED <<bridges_, originSinks, made, closed_, closing, srcVars, timeVars,
                   sinkClose, player, has, kicked>>

origin_close_run ==
    /\ origin = "closing"
    /\ origin' = "closed"
    /\ sinkClose' = sinkClose \cup originSinks
    /\ originSinks' = {}
    /\ UNCHANGED <<bridges_, made, closed_, closing, srcVars, timeVars, player, has, kicked>>

\* sink->close() on the bridge's worker: its close callback closes the bridge,
\* unless the bridge has cleared the callback.
sink_close(b) ==
    /\ b \in sinkClose
    /\ sinkClose' = sinkClose \ {b}
    /\ close(b)
    /\ UNCHANGED <<originVars, srcVars, timeVars, player, has, kicked>>

-----------------------------------------------------------------------------
\* Time passes when no timer is due.
Tick ==
    /\ \A b \in Bridges : Waits(b) => check[b] > 0
    /\ \E b \in Bridges : b <= made
    /\ check' = [b \in Bridges |-> IF Waits(b) THEN check[b] - 1 ELSE check[b]]
    /\ sinceLeave' = [b \in Bridges |-> IF sinceLeave[b] < Timeout THEN sinceLeave[b] + 1 ELSE Timeout]
    /\ unused' = [b \in Bridges |->
                    IF b <= made /\ sinks_[b] = {} /\ unused[b] < Timeout THEN unused[b] + 1 ELSE unused[b]]
    /\ UNCHANGED <<originVars, closed_, closing, srcVars, loop, sinkClose, player, has, kicked>>

PlayerStep(p) == get_or_create_bridge(p) \/ get_media_source(p) \/ add_media_sink(p)
                 \/ (p \in kicked /\ player_stop(p))

CloseStep(b) == close_wait(b) \/ close_source(b) \/ close_sink(b) \/ remove_bridge(b)

BridgeStep(b) == check_closable(b) \/ CloseStep(b) \/ source_close_run(b) \/ sink_close(b)

Next ==
    \/ \E p \in Players : find_source(p) \/ PlayerStep(p) \/ player_stop(p) \/ player_abort(p)
    \/ \E b \in Bridges : BridgeStep(b)
    \/ origin_close \/ origin_close_run
    \/ Tick

Spec == Init /\ [][Next]_vars

\* Posted handlers run, coroutines go on, the clock does not stop; a viewer may
\* stay for ever.
FairSpec ==
    /\ Spec
    /\ \A p \in Players : WF_vars(PlayerStep(p))
    /\ \A b \in Bridges : /\ WF_vars(check_closable(b)) /\ WF_vars(CloseStep(b))
                          /\ WF_vars(source_close_run(b)) /\ WF_vars(sink_close(b))
    /\ WF_vars(origin_close_run) /\ WF_vars(Tick)

-----------------------------------------------------------------------------
\* An open bridge is the one in the origin's bridges_, and as long as the
\* origin is open its sink is fed: the close of an earlier instance, which may
\* overlap with the creation of this one, does not unlink it
\* (media_source.cpp:136-149, rtmp_to_flv.cpp:180-194).  Nor is a player given
\* the null source that a closing bridge leaves behind (rtmp_to_flv.cpp:177).
OpenBridgeLinked == \A b \in 1..made : ~closed_[b] =>
    /\ bridges_ = b
    /\ origin = "open" => b \in originSinks
    /\ \A p \in Players : player[p] = "null" => has[p] # b

\* A bridge nobody plays and nobody is about to play is closed in the end and
\* leaves bridges_, although players come and go between the checks of the
\* timer (rtmp_to_flv.cpp:42-57).
UnusedIsClosed == \A b \in Bridges :
    []<>(b > made \/ closing[b] = "done" \/ \E p \in Players : has[p] = b /\ player[p] # "gone")

\* rtmp_to_flv.cpp:52, "nobody has played for 10 seconds": the timer closes a
\* bridge only when it has had no sink for the whole timeout.
ClosedAfterTimeout == [][\A b \in Bridges :
    check_closable(b) /\ closed_'[b] /\ ~closed_[b] => unused[b] >= Timeout]_vars

\* media_source.cpp:249, "close all playing": a player of a closed source is
\* closed in the end.
ClosesAllPlayers == \A p \in Players :
    (player[p] = "playing" /\ srcClosed[has[p]]) ~> player[p] = "gone"

\* media_source.cpp:264, "once the sinks are closed, the bridges are deleted
\* too": when the origin has closed, so have its bridges in the end.
OriginClosesBridges == \A b \in Bridges :
    (origin = "closed" /\ b <= made) ~> closing[b] = "done"
=============================================================================
