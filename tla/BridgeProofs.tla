---------------------------- MODULE BridgeProofs ----------------------------
(***************************************************************************)
(* Why an open bridge is linked, for every number of players and instances *)
(* and every timeout.                                                      *)
(***************************************************************************)
EXTENDS BridgeLifecycle, TLAPS

Closing == {"no", "posted", "wait", "sink", "bridge", "done"}

\* The types of what decides which instance is linked.
LinkType ==
    /\ made \in 0..MaxBridges /\ bridges_ \in 0..made
    /\ closed_ \in [Bridges -> BOOLEAN] /\ source \in [Bridges -> BOOLEAN]
    /\ closing \in [Bridges -> Closing]
    /\ player \in [Players -> {"idle", "found", "got", "source", "null", "playing", "gone"}]
    /\ has \in [Players -> 0..made]

\* Only an instance that exists is closed or about to be, its coroutine runs
\* only when closed_ is set, and its source is forgotten only by that coroutine.
CloseOrder ==
    /\ originSinks \subseteq 1..made /\ sinkClose \subseteq 1..made
    /\ \A b \in Bridges : /\ closed_[b] => b <= made
                          /\ closing[b] # "no" => closed_[b]
                          /\ ~source[b] => closing[b] \in {"sink", "bridge", "done"}

\* A player that asked its bridge holds an instance, and one that was given no
\* source asked one that had forgotten it.
HolderInv == \A p \in Players :
    /\ player[p] \in {"got", "source", "null", "playing"} => has[p] \in 1..made
    /\ player[p] = "null" => ~source[has[p]]

\* OpenBridgeLinked without the players.
Linked == \A b \in 1..made : ~closed_[b] =>
    /\ bridges_ = b
    /\ origin = "open" => b \in originSinks

LinkInv == LinkType /\ CloseOrder /\ HolderInv /\ Linked

-----------------------------------------------------------------------------
LEMMA InitLink == Init => LinkInv
  BY BridgeAssumption DEF Init, LinkInv, LinkType, CloseOrder, HolderInv, Linked, Bridges, Closing

\* An instance that is made is one of the numbers.
LEMMA MadeIsBridge == ASSUME LinkType PROVE 1..made \subseteq Bridges /\ made \in Nat
  BY BridgeAssumption DEF LinkType, Bridges

\* A player's step leaves the instances alone, except where it makes one.
LEMMA PlayerLink ==
    ASSUME LinkInv, NEW p \in Players, UNCHANGED <<originVars, closed_, closing, source, sinkClose, has>>,
           \/ find_source(p) \/ get_media_source(p) \/ add_media_sink(p)
           \/ player_stop(p) \/ player_abort(p)
    PROVE  LinkInv'
  <1>1. LinkType'
    BY DEF LinkInv, LinkType, originVars, find_source, get_media_source, add_media_sink,
           player_stop, player_abort, Goto
  <1>2. CloseOrder' /\ Linked'
    BY DEF LinkInv, CloseOrder, Linked, originVars
  <1>3. HolderInv'
    BY DEF LinkInv, LinkType, HolderInv, originVars, find_source, get_media_source,
           add_media_sink, player_stop, player_abort, Goto
  <1> QED
    BY <1>1, <1>2, <1>3 DEF LinkInv

\* An instance is made only if bridges_ is empty, and then every earlier one is
\* closed: the new one is the only one that must be linked.
LEMMA CreateLink == ASSUME LinkInv, NEW p \in Players, get_or_create_bridge(p) PROVE LinkInv'
  <1>0. 1..made \subseteq Bridges /\ made \in Nat
    BY MadeIsBridge DEF LinkInv
  <1>1. CASE bridges_ # 0
    <2>1. /\ has' = [has EXCEPT ![p] = bridges_] /\ player' = [player EXCEPT ![p] = "got"]
          /\ UNCHANGED <<origin, bridges_, originSinks, made, closed_, closing, source, sinkClose>>
      BY <1>1 DEF get_or_create_bridge, Goto, originVars, srcVars
    <2>2. LinkType'
      BY <2>1 DEF LinkInv, LinkType
    <2>3. CloseOrder' /\ Linked'
      BY <2>1 DEF LinkInv, CloseOrder, Linked
    <2>4. HolderInv'
      BY <1>1, <2>1 DEF LinkInv, LinkType, HolderInv
    <2> QED
      BY <2>2, <2>3, <2>4 DEF LinkInv
  <1>2. CASE bridges_ = 0
    <2>1. /\ made < MaxBridges /\ made' = made + 1 /\ bridges_' = made + 1
          /\ originSinks' = originSinks \cup {made + 1}
          /\ has' = [has EXCEPT ![p] = made + 1] /\ player' = [player EXCEPT ![p] = "got"]
          /\ UNCHANGED <<origin, closed_, closing, source, sinkClose>>
      BY <1>2 DEF get_or_create_bridge, Goto, originVars, srcVars
    <2>2. LinkType'
      BY <1>0, <2>1, BridgeAssumption DEF LinkInv, LinkType
    <2>3. CloseOrder'
      BY <1>0, <2>1 DEF LinkInv, LinkType, CloseOrder, Bridges
    <2>4. HolderInv'
      BY <1>0, <2>1 DEF LinkInv, LinkType, HolderInv
    <2>5. \A b \in 1..made : closed_[b]
      BY <1>2, <1>0 DEF LinkInv, Linked
    <2>6. Linked'
      BY <1>0, <2>1, <2>5 DEF Linked
    <2> QED
      BY <2>2, <2>3, <2>4, <2>6 DEF LinkInv
  <1> QED
    BY <1>1, <1>2

\* close() sets closed_ before the coroutine starts.
LEMMA CloseLink ==
    ASSUME LinkInv, NEW b \in 1..made, close(b), sinkClose' \subseteq sinkClose,
           UNCHANGED <<originVars, source, player, has>>
    PROVE  LinkInv'
  <1>0. b \in Bridges /\ made \in Nat
    BY MadeIsBridge DEF LinkInv
  <1>1. LinkType'
    BY <1>0 DEF LinkInv, LinkType, Closing, originVars, close
  <1>2. CloseOrder'
    BY <1>0 DEF LinkInv, LinkType, CloseOrder, originVars, close
  <1>3. HolderInv'
    BY DEF LinkInv, HolderInv, originVars
  <1>4. Linked'
    BY <1>0, MadeIsBridge DEF LinkInv, LinkType, Linked, originVars, close
  <1> QED
    BY <1>1, <1>2, <1>3, <1>4 DEF LinkInv

\* The close coroutine of an instance undoes what that instance set up, and the
\* instance is closed by then.
LEMMA CoroutineLink == ASSUME LinkInv, NEW b \in Bridges, CloseStep(b) PROVE LinkInv'
  <1>0. 1..made \subseteq Bridges /\ made \in Nat
    BY MadeIsBridge DEF LinkInv
  <1>1. closing[b] # "no" /\ closed_[b]
    BY DEF LinkInv, CloseOrder, CloseStep, close_wait, close_source, close_sink, remove_bridge
  <1>2. UNCHANGED <<origin, made, closed_, sinkClose, player, has>>
    BY DEF CloseStep, close_wait, close_source, close_sink, remove_bridge, originVars
  <1>3. LinkType'
    <2>1. bridges_' \in {0, bridges_}
      BY DEF CloseStep, close_wait, close_source, close_sink, remove_bridge, originVars
    <2>2. source' = source \/ source' = [source EXCEPT ![b] = FALSE]
      BY DEF CloseStep, close_wait, close_source, close_sink, remove_bridge, srcVars
    <2>3. \E pc \in Closing : closing' = [closing EXCEPT ![b] = pc]
      BY DEF CloseStep, close_wait, close_source, close_sink, remove_bridge, Closing
    <2>4. bridges_' \in 0..made
      BY <1>0, <2>1 DEF LinkInv, LinkType
    <2>5. source' \in [Bridges -> BOOLEAN]
      BY <2>2, Zenon DEF LinkInv, LinkType
    <2>6. closing' \in [Bridges -> Closing]
      BY <2>3 DEF LinkInv, LinkType
    <2> QED
      BY <1>2, <2>4, <2>5, <2>6 DEF LinkInv, LinkType
  <1>4. CloseOrder'
    BY <1>1, <1>2, Zenon DEF LinkInv, LinkType, CloseOrder, CloseStep, close_wait, close_source,
                      close_sink, remove_bridge, originVars, srcVars
  <1>5. HolderInv'
    <2>1. source' = source \/ source' = [source EXCEPT ![b] = FALSE]
      BY DEF CloseStep, close_wait, close_source, close_sink, remove_bridge, srcVars
    <2> QED
      BY <1>0, <1>2, <2>1 DEF LinkInv, LinkType, HolderInv
  <1>6. Linked'
    BY <1>0, <1>1, <1>2 DEF LinkInv, Linked, CloseStep, close_wait, close_source, close_sink,
                            remove_bridge, originVars
  <1> QED
    BY <1>3, <1>4, <1>5, <1>6 DEF LinkInv

\* The origin forgets its sinks only when it is no longer open.
LEMMA OriginLink == ASSUME LinkInv, origin_close \/ origin_close_run PROVE LinkInv'
  <1>1. /\ UNCHANGED <<bridges_, made, closed_, closing, source, player, has>>
        /\ origin' # "open"
        /\ originSinks' \subseteq originSinks /\ sinkClose' \subseteq sinkClose \cup originSinks
    BY DEF origin_close, origin_close_run, srcVars
  <1> QED
    BY <1>1 DEF LinkInv, LinkType, CloseOrder, HolderInv, Linked

\* What no step of the link reads or writes.
LEMMA OtherLink ==
    ASSUME LinkInv, UNCHANGED <<originVars, closed_, closing, source, sinkClose, player, has>>
    PROVE  LinkInv'
  BY DEF LinkInv, LinkType, CloseOrder, HolderInv, Linked, originVars

LEMMA StepLink == LinkInv /\ [Next]_vars => LinkInv'
<1> SUFFICES ASSUME LinkInv, [Next]_vars PROVE LinkInv'
  OBVIOUS
<1>1. ASSUME NEW p \in Players,
             find_source(p) \/ get_media_source(p) \/ add_media_sink(p) \/ player_stop(p) \/ player_abort(p)
      PROVE  LinkInv'
  <2>1. UNCHANGED <<originVars, closed_, closing, source, sinkClose, has>>
    BY <1>1 DEF find_source, get_media_source, add_media_sink, player_stop, player_abort, srcVars
  <2> QED
    BY <1>1, <2>1, PlayerLink
<1>2. ASSUME NEW p \in Players, get_or_create_bridge(p) PROVE LinkInv'
  BY <1>2, CreateLink
<1>3. ASSUME NEW b \in Bridges, check_closable(b) PROVE LinkInv'
  <2>1. CASE close(b)
    <3>1. b \in 1..made
      BY <1>3 DEF check_closable, Waits, Bridges, LinkInv, LinkType
    <3>2. sinkClose' \subseteq sinkClose /\ UNCHANGED <<originVars, source, player, has>>
      BY <1>3 DEF check_closable, srcVars
    <3> QED
      BY <2>1, <3>1, <3>2, CloseLink
  <2>2. CASE ~close(b)
    BY <1>3, <2>2, OtherLink DEF check_closable, srcVars
  <2> QED
    BY <2>1, <2>2
<1>4. ASSUME NEW b \in Bridges, CloseStep(b) PROVE LinkInv'
  BY <1>4, CoroutineLink
<1>5. ASSUME NEW b \in Bridges, source_close_run(b) PROVE LinkInv'
  BY <1>5, OtherLink DEF source_close_run
<1>6. ASSUME NEW b \in Bridges, sink_close(b) PROVE LinkInv'
  <2>1. b \in 1..made
    BY <1>6 DEF sink_close, LinkInv, CloseOrder
  <2>2. close(b) /\ sinkClose' \subseteq sinkClose /\ UNCHANGED <<originVars, source, player, has>>
    BY <1>6 DEF sink_close, srcVars
  <2> QED
    BY <2>1, <2>2, CloseLink
<1>7. CASE origin_close \/ origin_close_run
  BY <1>7, OriginLink
<1>8. CASE Tick
  BY <1>8, OtherLink DEF Tick, srcVars
<1>9. CASE UNCHANGED vars
  BY <1>9, OtherLink DEF vars, srcVars
<1> QED
  BY <1>1, <1>2, <1>3, <1>4, <1>5, <1>6, <1>7, <1>8, <1>9 DEF Next, PlayerStep, BridgeStep

\* A source is forgotten only by a closed instance, so the instance whose source
\* was null is not an open one.
LEMMA LinkImplies == LinkInv => OpenBridgeLinked
<1> SUFFICES ASSUME LinkInv, NEW b \in 1..made, ~closed_[b]
             PROVE  /\ bridges_ = b
                    /\ origin = "open" => b \in originSinks
                    /\ \A p \in Players : player[p] = "null" => has[p] # b
  BY DEF OpenBridgeLinked
<1>1. b \in Bridges
  BY MadeIsBridge DEF LinkInv
<1>2. source[b]
  BY <1>1 DEF LinkInv, CloseOrder
<1> QED
  BY <1>2 DEF LinkInv, Linked, HolderInv

\* For every number of players and of instances, and every timeout: an open
\* bridge is the registered one, is fed while the origin is open, and gave no
\* player a null source (media_source.cpp:136-149, rtmp_to_flv.cpp:163-194).
THEOREM OpenBridgeLinkedHolds == Spec => []OpenBridgeLinked
<1>1. Init => LinkInv
  BY InitLink
<1>2. LinkInv /\ [Next]_vars => LinkInv'
  BY StepLink
<1>3. LinkInv => OpenBridgeLinked
  BY LinkImplies
<1> QED
  BY <1>1, <1>2, <1>3, PTL DEF Spec
=============================================================================
