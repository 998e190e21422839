-------------------------- MODULE PublishProofs -----------------------------
(***************************************************************************)
(* Proofs about PublishLifecycle, for any number of sessions and either    *)
(* conflict policy: its types, FeederIsBound, SingleFeeder, FedStaysOpen.   *)
(***************************************************************************)
EXTENDS PublishLifecycle, TLAPS

\* The locals of the publish handler are set where it uses them.
LocalsInv == \A s \in Sessions :
    /\ recv[s] \in {"found", "kick", "stopping"} => found[s] \in Sessions
    /\ recv[s] \in {"kick", "stopping"} => old_session[s] \in Sessions
    /\ recv[s] \in {"bind", "replace", "notify", "add", "publishing"}
          => rtmp_media_source_[s] \in Sessions

\* A source that somebody can name has been created: its creator is past the
\* lookup.
CreatedInv == \A s \in Sessions : recv[s] \in {"none", "cmd"} =>
    /\ sources_ # s
    /\ \A t \in Sessions : found[t] # s /\ rtmp_media_source_[t] # s

\* The weak pointer of a source that is being fed names its feeder.
BoundInv == \A s \in Sessions : Feeding(s) => session_[rtmp_media_source_[s]] = s

IInv == TypeOK /\ LocalsInv /\ CreatedInv /\ BoundInv

\* A session that has bound its source stays bound to it as long as it is
\* alive, feeding or not.
Binding == {"bind", "replace", "refused"}
AliveBound == \A s \in Sessions :
    /\ recv[s] \in {"none", "cmd", "found", "kick", "stopping"} => rtmp_media_source_[s] = Null
    /\ Alive(s) /\ rtmp_media_source_[s] # Null /\ recv[s] \notin Binding
          => session_[rtmp_media_source_[s]] = s

\* A delayed check started while its own session was about to bind waits for
\* that; so only a session that was refused its source removes it.
OnlyRefusedRemove == prompt => \A s \in Sessions :
    /\ cleanup[s] = "timer" /\ recv[s] \in {"bind", "replace"} => <<s, Section(s)>> \in busy[s]
    /\ cleanup[s] \in {"remove", "close"} => recv[s] = "refused"

\* Nobody has been refused: then a registered source stays, a session has its
\* own source or the registered one, and a source that is being closed is one
\* that its creator, now gone, could not register.
Calm == prompt /\ \A t \in Sessions : recv[t] # "refused"
StaysRegistered == Calm =>
    /\ \A s \in Sessions : /\ found[s] \in {Null, sources_}
                           /\ rtmp_media_source_[s] \in {Null, s, sources_}
    /\ \A x \in Sessions : srcClose[x] => x # sources_ /\ recv[x] = "ended"

KInv == IInv /\ AliveBound /\ OnlyRefusedRemove /\ StaysRegistered

-----------------------------------------------------------------------------
\* stop keeps the types.
LEMMA StopTypes ==
    ASSUME TypeOK, NEW s \in Sessions, stop(s)
    PROVE  /\ closed_' \in [Sessions -> BOOLEAN]
           /\ do_stop' \in [Sessions -> {"no", "posted", "wait", "unpublish", "done"}]
  BY Zenon DEF TypeOK, stop

\* What a timer notes of the straight-line code under way is well typed.
LEMMA StraightLineType == StraightLine \in SUBSET (Sessions \X (1..3))
  BY DEF StraightLine, Section

\* Types, with the locals the handlers rely on.
LEMMA TypeStep == TypeOK /\ LocalsInv /\ [Next]_vars => TypeOK'
<1> SUFFICES ASSUME TypeOK, LocalsInv, [Next]_vars PROVE TypeOK'
  BY Zenon
<1>0. policy' = policy /\ prompt' = prompt
  BY Zenon DEF Next, Kept, vars
<1> USE <1>0
<1> USE PublishAssumption DEF TypeOK, LocalsInv, RecvPc, srcVars, pubVars, Goto
<1>1. ASSUME NEW s \in Sessions, on_socket_open(s) PROVE TypeOK'
  BY <1>1, Zenon DEF on_socket_open
<1>2. ASSUME NEW s \in Sessions, on_socket_close(s) PROVE TypeOK'
  BY <1>2, Zenon DEF on_socket_close, stop
<1>3. ASSUME NEW s \in Sessions, publish_lookup(s) PROVE TypeOK'
  <2>1. CASE sources_ = Null
    <3>1. /\ rtmp_media_source_' = [rtmp_media_source_ EXCEPT ![s] = s]
          /\ session_' = [session_ EXCEPT ![s] = s] /\ recv' = [recv EXCEPT ![s] = "bind"]
          /\ UNCHANGED <<sources_, srcClosed, srcClose, found, old_session>>
          /\ UNCHANGED <<closed_, do_stop, cleanup, busy, conn>>
      BY <1>3, <2>1, Zenon DEF publish_lookup
    <3>2. \A u \in Sessions : cleanup'[u] # "no" => rtmp_media_source_'[u] \in Sessions
      BY <3>1, Zenon
    <3> QED BY <3>1, <3>2, Zenon
  <2>2. CASE sources_ # Null
    BY <1>3, <2>2 DEF publish_lookup
  <2> QED
    BY <2>1, <2>2, Zenon
<1>4. ASSUME NEW s \in Sessions, recv_ends(s) PROVE TypeOK'
  BY <1>4, Zenon DEF recv_ends, Ends, stop
<1>5. ASSUME NEW s \in Sessions, alive_checker(s) PROVE TypeOK'
  BY <1>5, Zenon DEF alive_checker, stop
<1>6. ASSUME NEW s \in Sessions, publish_conflict(s) PROVE TypeOK'
  <2>0. found[s] \in Sessions /\ get_session(found[s]) \in Sessions \cup {Null}
    BY <1>6, Zenon DEF publish_conflict, get_session
  <2>1. CASE recv' = [recv EXCEPT ![s] = "ended"] /\ stop(s)
    BY <1>6, <2>0, <2>1, StopTypes DEF publish_conflict, Ends
  <2>2. CASE UNCHANGED <<closed_, do_stop>>
    BY <1>6, <2>0, <2>2 DEF publish_conflict, Ends
  <2> QED
    BY <1>6, <2>1, <2>2, Zenon DEF publish_conflict, Ends
<1>7. ASSUME NEW s \in Sessions, sync_stop(s) PROVE TypeOK'
  <2>1. old_session[s] \in Sessions
    BY <1>7, Zenon DEF sync_stop
  <2>2. CASE Ends(s)
    BY <1>7, <2>2, StopTypes, Zenon DEF sync_stop, Ends
  <2>3. CASE stop(old_session[s]) /\ Goto(s, "stopping")
    BY <1>7, <2>1, <2>3, StopTypes, Zenon DEF sync_stop
  <2> QED
    BY <1>7, <2>2, <2>3, Zenon DEF sync_stop
<1>8. ASSUME NEW s \in Sessions, sync_stop_return(s) PROVE TypeOK'
  BY <1>8, Zenon DEF sync_stop_return
<1>9. ASSUME NEW s \in Sessions, publish_bind(s) PROVE TypeOK'
  <2>1. session_' \in [Sessions -> Sessions \cup {Null}]
    BY <1>9, Zenon DEF publish_bind, set_session
  <2>2. CASE Goto(s, "refused") /\ stop(s)
    BY <1>9, <2>1, <2>2, StopTypes, Zenon DEF publish_bind
  <2>3. CASE Goto(s, "notify") /\ UNCHANGED <<closed_, do_stop>>
    BY <1>9, <2>1, <2>3, Zenon DEF publish_bind
  <2> QED
    BY <1>9, <2>2, <2>3, Zenon DEF publish_bind
<1>10. ASSUME NEW s \in Sessions, on_publish_return(s) PROVE TypeOK'
  <2>1. CASE Ends(s)
    BY <1>10, <2>1, StopTypes, Zenon DEF on_publish_return, Ends
  <2>2. CASE Goto(s, "add") /\ UNCHANGED <<closed_, do_stop>>
    BY <1>10, <2>2, Zenon DEF on_publish_return
  <2> QED
    BY <1>10, <2>1, <2>2, Zenon DEF on_publish_return
<1>11. ASSUME NEW s \in Sessions, publish_add(s) PROVE TypeOK'
  <2>1. CASE Ends(s) /\ MediaSource_close(rtmp_media_source_[s]) /\ UNCHANGED sources_
    <3>1. srcClosed' \in [Sessions -> BOOLEAN] /\ srcClose' \in [Sessions -> BOOLEAN]
      BY <2>1, Zenon DEF MediaSource_close
    <3> QED
      BY <1>11, <2>1, <3>1, StopTypes, Zenon DEF publish_add, Ends
  <2>2. CASE UNCHANGED <<srcClosed, srcClose, closed_, do_stop>> /\ Goto(s, "publishing")
             /\ sources_' = rtmp_media_source_[s]
    BY <1>11, <2>2, Zenon DEF publish_add
  <2> QED
    BY <1>11, <2>1, <2>2, Zenon DEF publish_add
<1>12. ASSUME NEW s \in Sessions, do_stop_begin(s) PROVE TypeOK'
  BY <1>12, Zenon DEF do_stop_begin
<1>13. ASSUME NEW s \in Sessions, do_stop_unbind(s) PROVE TypeOK'
  BY <1>13, StraightLineType, SMTT(30) DEF do_stop_unbind, set_session
<1>14. ASSUME NEW s \in Sessions, do_stop_end(s) PROVE TypeOK'
  BY <1>14, Zenon DEF do_stop_end
<1>15. ASSUME NEW s \in Sessions, cleanup_check(s) PROVE TypeOK'
  BY <1>15, Zenon DEF cleanup_check
<1>16. ASSUME NEW s \in Sessions, cleanup_remove(s) PROVE TypeOK'
  BY <1>16, Zenon DEF cleanup_remove
<1>17. ASSUME NEW s \in Sessions, cleanup_close(s) PROVE TypeOK'
  BY <1>17, Zenon DEF cleanup_close, MediaSource_close
<1>18. ASSUME NEW s \in Sessions, source_close_run(s) PROVE TypeOK'
  BY <1>18, ZenonT(30) DEF source_close_run, stop, get_session
<1>19. CASE UNCHANGED vars
  BY <1>19, Zenon DEF vars
<1> QED
  BY <1>1, <1>2, <1>3, <1>4, <1>5, <1>6, <1>7, <1>8, <1>9, <1>10, <1>11, <1>12, <1>13, <1>14, <1>15, <1>16, <1>17, <1>18, <1>19, Zenon
  DEF Next, WorkerStep

\* LocalsInv is inductive under the types.
LEMMA LocalsStep == TypeOK /\ LocalsInv /\ [Next]_vars => LocalsInv'
<1> SUFFICES ASSUME TypeOK, LocalsInv, [Next]_vars PROVE LocalsInv'
  BY Zenon
<1> USE PublishAssumption DEF TypeOK, LocalsInv, RecvPc, srcVars, pubVars, Goto
<1>1. ASSUME NEW s \in Sessions, on_socket_open(s) PROVE LocalsInv'
  BY <1>1, Zenon DEF on_socket_open
<1>2. ASSUME NEW s \in Sessions, on_socket_close(s) PROVE LocalsInv'
  BY <1>2, Zenon DEF on_socket_close, stop
<1>3. ASSUME NEW s \in Sessions, publish_lookup(s) PROVE LocalsInv'
  BY <1>3 DEF publish_lookup
<1>4. ASSUME NEW s \in Sessions, recv_ends(s) PROVE LocalsInv'
  BY <1>4, Zenon DEF recv_ends, Ends, stop
<1>5. ASSUME NEW s \in Sessions, alive_checker(s) PROVE LocalsInv'
  BY <1>5, Zenon DEF alive_checker, stop
<1>6. ASSUME NEW s \in Sessions, publish_conflict(s) PROVE LocalsInv'
  BY <1>6 DEF publish_conflict, Ends, stop, get_session
<1>7. ASSUME NEW s \in Sessions, sync_stop(s) PROVE LocalsInv'
  BY <1>7 DEF sync_stop, Ends, stop
<1>8. ASSUME NEW s \in Sessions, sync_stop_return(s) PROVE LocalsInv'
  BY <1>8, Zenon DEF sync_stop_return
<1>9. ASSUME NEW s \in Sessions, publish_bind(s) PROVE LocalsInv'
  BY <1>9 DEF publish_bind, stop, set_session, CanBind, get_session
<1>10. ASSUME NEW s \in Sessions, on_publish_return(s) PROVE LocalsInv'
  BY <1>10 DEF on_publish_return, Ends, stop
<1>11. ASSUME NEW s \in Sessions, publish_add(s) PROVE LocalsInv'
  BY <1>11 DEF publish_add, Ends, stop, MediaSource_close
<1>12. ASSUME NEW s \in Sessions, do_stop_begin(s) PROVE LocalsInv'
  BY <1>12, Zenon DEF do_stop_begin
<1>13. ASSUME NEW s \in Sessions, do_stop_unbind(s) PROVE LocalsInv'
  BY <1>13, Zenon DEF do_stop_unbind, set_session, CanBind, get_session
<1>14. ASSUME NEW s \in Sessions, do_stop_end(s) PROVE LocalsInv'
  BY <1>14, Zenon DEF do_stop_end
<1>15. ASSUME NEW s \in Sessions, cleanup_check(s) PROVE LocalsInv'
  BY <1>15, Zenon DEF cleanup_check
<1>16. ASSUME NEW s \in Sessions, cleanup_remove(s) PROVE LocalsInv'
  BY <1>16, Zenon DEF cleanup_remove
<1>17. ASSUME NEW s \in Sessions, cleanup_close(s) PROVE LocalsInv'
  BY <1>17, Zenon DEF cleanup_close, MediaSource_close
<1>18. ASSUME NEW s \in Sessions, source_close_run(s) PROVE LocalsInv'
  BY <1>18, Zenon DEF source_close_run, stop, get_session
<1>19. CASE UNCHANGED vars
  BY <1>19, Zenon DEF vars
<1> QED
  BY <1>1, <1>2, <1>3, <1>4, <1>5, <1>6, <1>7, <1>8, <1>9, <1>10, <1>11, <1>12, <1>13, <1>14, <1>15, <1>16, <1>17, <1>18, <1>19, Zenon
  DEF Next, WorkerStep

\* CreatedInv is inductive under the types and LocalsInv.
LEMMA CreatedStep == TypeOK /\ LocalsInv /\ CreatedInv /\ [Next]_vars => CreatedInv'
<1> SUFFICES ASSUME TypeOK, LocalsInv, CreatedInv, [Next]_vars PROVE CreatedInv'
  BY Zenon
<1> USE PublishAssumption DEF TypeOK, LocalsInv, CreatedInv, RecvPc, srcVars, pubVars, Goto
<1>1. ASSUME NEW s \in Sessions, on_socket_open(s) PROVE CreatedInv'
  BY <1>1 DEF on_socket_open
<1>2. ASSUME NEW s \in Sessions, on_socket_close(s) PROVE CreatedInv'
  BY <1>2, Zenon DEF on_socket_close, stop
<1>3. ASSUME NEW s \in Sessions, publish_lookup(s) PROVE CreatedInv'
  BY <1>3 DEF publish_lookup
<1>4. ASSUME NEW s \in Sessions, recv_ends(s) PROVE CreatedInv'
  BY <1>4 DEF recv_ends, Ends, stop
<1>5. ASSUME NEW s \in Sessions, alive_checker(s) PROVE CreatedInv'
  BY <1>5, Zenon DEF alive_checker, stop
<1>6. ASSUME NEW s \in Sessions, publish_conflict(s) PROVE CreatedInv'
  BY <1>6 DEF publish_conflict, Ends, stop, get_session
<1>7. ASSUME NEW s \in Sessions, sync_stop(s) PROVE CreatedInv'
  BY <1>7 DEF sync_stop, Ends, stop
<1>8. ASSUME NEW s \in Sessions, sync_stop_return(s) PROVE CreatedInv'
  BY <1>8, Zenon DEF sync_stop_return
<1>9. ASSUME NEW s \in Sessions, publish_bind(s) PROVE CreatedInv'
  BY <1>9 DEF publish_bind, stop, set_session, CanBind, get_session
<1>10. ASSUME NEW s \in Sessions, on_publish_return(s) PROVE CreatedInv'
  BY <1>10 DEF on_publish_return, Ends, stop
<1>11. ASSUME NEW s \in Sessions, publish_add(s) PROVE CreatedInv'
  BY <1>11 DEF publish_add, Ends, stop, MediaSource_close
<1>12. ASSUME NEW s \in Sessions, do_stop_begin(s) PROVE CreatedInv'
  BY <1>12, Zenon DEF do_stop_begin
<1>13. ASSUME NEW s \in Sessions, do_stop_unbind(s) PROVE CreatedInv'
  BY <1>13, Zenon DEF do_stop_unbind, set_session, CanBind, get_session
<1>14. ASSUME NEW s \in Sessions, do_stop_end(s) PROVE CreatedInv'
  BY <1>14, Zenon DEF do_stop_end
<1>15. ASSUME NEW s \in Sessions, cleanup_check(s) PROVE CreatedInv'
  BY <1>15, Zenon DEF cleanup_check
<1>16. ASSUME NEW s \in Sessions, cleanup_remove(s) PROVE CreatedInv'
  BY <1>16, Zenon DEF cleanup_remove
<1>17. ASSUME NEW s \in Sessions, cleanup_close(s) PROVE CreatedInv'
  BY <1>17, Zenon DEF cleanup_close, MediaSource_close
<1>18. ASSUME NEW s \in Sessions, source_close_run(s) PROVE CreatedInv'
  BY <1>18, Zenon DEF source_close_run, stop, get_session
<1>19. CASE UNCHANGED vars
  BY <1>19, Zenon DEF vars
<1> QED
  BY <1>1, <1>2, <1>3, <1>4, <1>5, <1>6, <1>7, <1>8, <1>9, <1>10, <1>11, <1>12, <1>13, <1>14, <1>15, <1>16, <1>17, <1>18, <1>19, Zenon
  DEF Next, WorkerStep

\* BoundInv is inductive: a bind or an unbind never touches a source with a live feeder.
LEMMA BoundStep == IInv /\ [Next]_vars => BoundInv'
<1> SUFFICES ASSUME IInv, [Next]_vars PROVE BoundInv'
  BY Zenon
<1> USE PublishAssumption DEF IInv, TypeOK, LocalsInv, CreatedInv, BoundInv, RecvPc, Feeding, Alive, srcVars, pubVars, Goto
<1>1. ASSUME NEW s \in Sessions, on_socket_open(s) PROVE BoundInv'
  BY <1>1, Zenon DEF on_socket_open
<1>2. ASSUME NEW s \in Sessions, on_socket_close(s) PROVE BoundInv'
  BY <1>2, Zenon DEF on_socket_close, stop
<1>3. ASSUME NEW s \in Sessions, publish_lookup(s) PROVE BoundInv'
  BY <1>3 DEF publish_lookup
<1>4. ASSUME NEW s \in Sessions, recv_ends(s) PROVE BoundInv'
  BY <1>4 DEF recv_ends, Ends, stop
<1>5. ASSUME NEW s \in Sessions, alive_checker(s) PROVE BoundInv'
  BY <1>5, Zenon DEF alive_checker, stop
<1>6. ASSUME NEW s \in Sessions, publish_conflict(s) PROVE BoundInv'
  BY <1>6 DEF publish_conflict, Ends, stop, get_session
<1>7. ASSUME NEW s \in Sessions, sync_stop(s) PROVE BoundInv'
  BY <1>7 DEF sync_stop, Ends, stop
<1>8. ASSUME NEW s \in Sessions, sync_stop_return(s) PROVE BoundInv'
  BY <1>8, Zenon DEF sync_stop_return
<1>9. ASSUME NEW s \in Sessions, publish_bind(s) PROVE BoundInv'
  BY <1>9 DEF publish_bind, stop, set_session, CanBind, get_session
<1>10. ASSUME NEW s \in Sessions, on_publish_return(s) PROVE BoundInv'
  BY <1>10 DEF on_publish_return, Ends, stop
<1>11. ASSUME NEW s \in Sessions, publish_add(s) PROVE BoundInv'
  BY <1>11 DEF publish_add, Ends, stop, MediaSource_close
<1>12. ASSUME NEW s \in Sessions, do_stop_begin(s) PROVE BoundInv'
  BY <1>12, Zenon DEF do_stop_begin
<1>13. ASSUME NEW s \in Sessions, do_stop_unbind(s) PROVE BoundInv'
  BY <1>13 DEF do_stop_unbind, set_session, CanBind, get_session
<1>14. ASSUME NEW s \in Sessions, do_stop_end(s) PROVE BoundInv'
  BY <1>14, Zenon DEF do_stop_end
<1>15. ASSUME NEW s \in Sessions, cleanup_check(s) PROVE BoundInv'
  BY <1>15, Zenon DEF cleanup_check
<1>16. ASSUME NEW s \in Sessions, cleanup_remove(s) PROVE BoundInv'
  BY <1>16, Zenon DEF cleanup_remove
<1>17. ASSUME NEW s \in Sessions, cleanup_close(s) PROVE BoundInv'
  BY <1>17, Zenon DEF cleanup_close, MediaSource_close
<1>18. ASSUME NEW s \in Sessions, source_close_run(s) PROVE BoundInv'
  BY <1>18, Zenon DEF source_close_run, stop, get_session
<1>19. CASE UNCHANGED vars
  BY <1>19, Zenon DEF vars
<1> QED
  BY <1>1, <1>2, <1>3, <1>4, <1>5, <1>6, <1>7, <1>8, <1>9, <1>10, <1>11, <1>12, <1>13, <1>14, <1>15, <1>16, <1>17, <1>18, <1>19, Zenon
  DEF Next, WorkerStep

\* No session comes back to life.
LEMMA StaysDead ==
    ASSUME IInv, [Next]_vars, NEW s \in Sessions, recv[s] # "none", Alive(s)' PROVE Alive(s)
<1> USE PublishAssumption DEF IInv, TypeOK, LocalsInv, RecvPc, Alive, srcVars, pubVars, Goto
<1>1. ASSUME NEW t \in Sessions, on_socket_open(t) PROVE Alive(s)
  BY <1>1, Zenon DEF on_socket_open
<1>2. ASSUME NEW t \in Sessions, on_socket_close(t) PROVE Alive(s)
  BY <1>2, Zenon DEF on_socket_close, stop
<1>3. ASSUME NEW t \in Sessions, publish_lookup(t) PROVE Alive(s)
  BY <1>3 DEF publish_lookup
<1>4. ASSUME NEW t \in Sessions, recv_ends(t) PROVE Alive(s)
  BY <1>4, Zenon DEF recv_ends, Ends, stop
<1>5. ASSUME NEW t \in Sessions, alive_checker(t) PROVE Alive(s)
  BY <1>5, Zenon DEF alive_checker, stop
<1>6. ASSUME NEW t \in Sessions, publish_conflict(t) PROVE Alive(s)
  BY <1>6 DEF publish_conflict, Ends, stop, get_session
<1>7. ASSUME NEW t \in Sessions, sync_stop(t) PROVE Alive(s)
  BY <1>7 DEF sync_stop, Ends, stop
<1>8. ASSUME NEW t \in Sessions, sync_stop_return(t) PROVE Alive(s)
  BY <1>8, Zenon DEF sync_stop_return
<1>9. ASSUME NEW t \in Sessions, publish_bind(t) PROVE Alive(s)
  BY <1>9 DEF publish_bind, stop, set_session, CanBind, get_session
<1>10. ASSUME NEW t \in Sessions, on_publish_return(t) PROVE Alive(s)
  BY <1>10 DEF on_publish_return, Ends, stop
<1>11. ASSUME NEW t \in Sessions, publish_add(t) PROVE Alive(s)
  BY <1>11 DEF publish_add, Ends, stop, MediaSource_close
<1>12. ASSUME NEW t \in Sessions, do_stop_begin(t) PROVE Alive(s)
  BY <1>12, Zenon DEF do_stop_begin
<1>13. ASSUME NEW t \in Sessions, do_stop_unbind(t) PROVE Alive(s)
  BY <1>13 DEF do_stop_unbind, set_session, CanBind, get_session
<1>14. ASSUME NEW t \in Sessions, do_stop_end(t) PROVE Alive(s)
  BY <1>14, Zenon DEF do_stop_end
<1>15. ASSUME NEW t \in Sessions, cleanup_check(t) PROVE Alive(s)
  BY <1>15, Zenon DEF cleanup_check
<1>16. ASSUME NEW t \in Sessions, cleanup_remove(t) PROVE Alive(s)
  BY <1>16, Zenon DEF cleanup_remove
<1>17. ASSUME NEW t \in Sessions, cleanup_close(t) PROVE Alive(s)
  BY <1>17, Zenon DEF cleanup_close, MediaSource_close
<1>18. ASSUME NEW t \in Sessions, source_close_run(t) PROVE Alive(s)
  BY <1>18 DEF source_close_run, stop, get_session
<1>19. CASE UNCHANGED vars
  BY <1>19, Zenon DEF vars
<1> QED
  BY <1>1, <1>2, <1>3, <1>4, <1>5, <1>6, <1>7, <1>8, <1>9, <1>10, <1>11, <1>12, <1>13, <1>14, <1>15, <1>16, <1>17, <1>18, <1>19, Zenon
  DEF Next, WorkerStep

\* AliveBound is inductive: whoever binds or unbinds has found the bound
\* session dead.
LEMMA AliveBoundStep == IInv /\ AliveBound /\ [Next]_vars => AliveBound'
<1> SUFFICES ASSUME IInv, AliveBound, [Next]_vars PROVE AliveBound'
  BY Zenon
<1>0. \A s \in Sessions : recv[s] # "none" /\ Alive(s)' => Alive(s)
  BY StaysDead, Zenon
<1> USE <1>0, PublishAssumption DEF IInv, TypeOK, LocalsInv, CreatedInv, AliveBound, Binding, RecvPc, srcVars, pubVars, Goto
<1>1. ASSUME NEW t \in Sessions, on_socket_open(t) PROVE AliveBound'
  BY <1>1, Zenon DEF on_socket_open
<1>2. ASSUME NEW t \in Sessions, on_socket_close(t) PROVE AliveBound'
  BY <1>2, Zenon DEF on_socket_close, stop
<1>3. ASSUME NEW t \in Sessions, publish_lookup(t) PROVE AliveBound'
  BY <1>3 DEF publish_lookup
<1>4. ASSUME NEW t \in Sessions, recv_ends(t) PROVE AliveBound'
  BY <1>4 DEF recv_ends, Ends, stop
<1>5. ASSUME NEW t \in Sessions, alive_checker(t) PROVE AliveBound'
  BY <1>5, Zenon DEF alive_checker, stop
<1>6. ASSUME NEW t \in Sessions, publish_conflict(t) PROVE AliveBound'
  BY <1>6 DEF publish_conflict, Ends, stop, get_session
<1>7. ASSUME NEW t \in Sessions, sync_stop(t) PROVE AliveBound'
  BY <1>7 DEF sync_stop, Ends, stop
<1>8. ASSUME NEW t \in Sessions, sync_stop_return(t) PROVE AliveBound'
  BY <1>8 DEF sync_stop_return
<1>9. ASSUME NEW t \in Sessions, publish_bind(t) PROVE AliveBound'
  BY <1>9 DEF publish_bind, stop, set_session, CanBind, get_session
<1>10. ASSUME NEW t \in Sessions, on_publish_return(t) PROVE AliveBound'
  BY <1>10 DEF on_publish_return, Ends, stop
<1>11. ASSUME NEW t \in Sessions, publish_add(t) PROVE AliveBound'
  BY <1>11 DEF publish_add, Ends, stop, MediaSource_close
<1>12. ASSUME NEW t \in Sessions, do_stop_begin(t) PROVE AliveBound'
  BY <1>12, Zenon DEF do_stop_begin
<1>13. ASSUME NEW t \in Sessions, do_stop_unbind(t) PROVE AliveBound'
  BY <1>13 DEF do_stop_unbind, set_session, CanBind, get_session
<1>14. ASSUME NEW t \in Sessions, do_stop_end(t) PROVE AliveBound'
  BY <1>14, Zenon DEF do_stop_end
<1>15. ASSUME NEW t \in Sessions, cleanup_check(t) PROVE AliveBound'
  BY <1>15, Zenon DEF cleanup_check
<1>16. ASSUME NEW t \in Sessions, cleanup_remove(t) PROVE AliveBound'
  BY <1>16, Zenon DEF cleanup_remove
<1>17. ASSUME NEW t \in Sessions, cleanup_close(t) PROVE AliveBound'
  BY <1>17, Zenon DEF cleanup_close, MediaSource_close
<1>18. ASSUME NEW t \in Sessions, source_close_run(t) PROVE AliveBound'
  BY <1>18, Zenon DEF source_close_run, stop, get_session
<1>19. CASE UNCHANGED vars
  BY <1>19, Zenon DEF vars
<1> QED
  BY <1>1, <1>2, <1>3, <1>4, <1>5, <1>6, <1>7, <1>8, <1>9, <1>10, <1>11, <1>12, <1>13, <1>14, <1>15, <1>16, <1>17, <1>18, <1>19, Zenon
  DEF Next, WorkerStep

\* A handler that goes on, to anything but a bind, disturbs no delayed check.
LEMMA GoesOn ==
    ASSUME TypeOK, OnlyRefusedRemove, NEW t \in Sessions, NEW pc \in RecvPc \ {"bind", "replace"},
           recv[t] # "refused", Goto(t, pc), UNCHANGED <<cleanup, busy, prompt>>
    PROVE  OnlyRefusedRemove'
<1> SUFFICES ASSUME prompt, NEW s \in Sessions
             PROVE  /\ cleanup[s] = "timer" /\ recv'[s] \in {"bind", "replace"}
                          => <<s, Section(s)'>> \in busy[s]
                    /\ cleanup[s] \in {"remove", "close"} => recv'[s] = "refused"
  BY Zenon DEF OnlyRefusedRemove
<1>1. recv'[s] = IF s = t THEN pc ELSE recv[s]
  BY Zenon DEF TypeOK, Goto
<1>2. CASE s = t
  BY <1>1, <1>2, Zenon DEF OnlyRefusedRemove
<1>3. CASE s # t
  <2>1. Section(s)' = Section(s)
    BY <1>1, <1>3, Zenon DEF Section
  <2> QED BY <1>1, <1>3, <2>1, Zenon DEF OnlyRefusedRemove
<1> QED BY <1>2, <1>3, Zenon

\* OnlyRefusedRemove is inductive: a delayed check that has waited finds its
\* own session, unless that was refused.
LEMMA OnlyRefusedStep ==
    IInv /\ AliveBound /\ OnlyRefusedRemove /\ [Next]_vars => OnlyRefusedRemove'
<1> SUFFICES ASSUME IInv, AliveBound, OnlyRefusedRemove, [Next]_vars PROVE OnlyRefusedRemove'
  BY Zenon
<1>0. prompt' = prompt
  BY Zenon DEF Next, Kept, vars
<1> USE <1>0, PublishAssumption DEF IInv, TypeOK, LocalsInv, AliveBound, OnlyRefusedRemove, Binding, RecvPc, Section, srcVars, pubVars, Goto
<1>1. ASSUME NEW t \in Sessions, on_socket_open(t) PROVE OnlyRefusedRemove'
  BY <1>1, Zenon DEF on_socket_open
<1>2. ASSUME NEW t \in Sessions, on_socket_close(t) PROVE OnlyRefusedRemove'
  BY <1>2, Zenon DEF on_socket_close, stop
<1>3. ASSUME NEW t \in Sessions, publish_lookup(t) PROVE OnlyRefusedRemove'
  BY <1>3 DEF publish_lookup
<1>4. ASSUME NEW t \in Sessions, recv_ends(t) PROVE OnlyRefusedRemove'
  BY <1>4, Zenon DEF recv_ends, Ends, stop
<1>5. ASSUME NEW t \in Sessions, alive_checker(t) PROVE OnlyRefusedRemove'
  BY <1>5, Zenon DEF alive_checker, stop
<1>6. ASSUME NEW t \in Sessions, publish_conflict(t) PROVE OnlyRefusedRemove'
  BY <1>6 DEF publish_conflict, Ends, stop, get_session
<1>7. ASSUME NEW t \in Sessions, sync_stop(t) PROVE OnlyRefusedRemove'
  BY <1>7 DEF sync_stop, Ends, stop
<1>8. ASSUME NEW t \in Sessions, sync_stop_return(t) PROVE OnlyRefusedRemove'
  BY <1>8, Zenon DEF sync_stop_return
<1>9. ASSUME NEW t \in Sessions, publish_bind(t) PROVE OnlyRefusedRemove'
  <2>1. PICK pc \in {"notify", "refused"} : Goto(t, pc)
    BY <1>9, Zenon DEF publish_bind
  <2> QED BY <1>0, <1>9, <2>1, GoesOn, Zenon DEF publish_bind
<1>10. ASSUME NEW t \in Sessions, on_publish_return(t) PROVE OnlyRefusedRemove'
  <2>1. PICK pc \in {"ended", "add"} : Goto(t, pc)
    BY <1>10, Zenon DEF on_publish_return, Ends, Goto
  <2> QED BY <1>0, <1>10, <2>1, GoesOn, Zenon DEF on_publish_return
<1>11. ASSUME NEW t \in Sessions, publish_add(t) PROVE OnlyRefusedRemove'
  <2>1. PICK pc \in {"ended", "publishing"} : Goto(t, pc)
    BY <1>11, Zenon DEF publish_add, Ends, Goto
  <2> QED BY <1>0, <1>11, <2>1, GoesOn, Zenon DEF publish_add
<1>12. ASSUME NEW t \in Sessions, do_stop_begin(t) PROVE OnlyRefusedRemove'
  BY <1>12, Zenon DEF do_stop_begin
<1>13. ASSUME NEW t \in Sessions, do_stop_unbind(t) PROVE OnlyRefusedRemove'
  BY <1>13 DEF do_stop_unbind, StraightLine
<1>14. ASSUME NEW t \in Sessions, do_stop_end(t) PROVE OnlyRefusedRemove'
  BY <1>14, Zenon DEF do_stop_end
<1>15. ASSUME NEW t \in Sessions, cleanup_check(t) PROVE OnlyRefusedRemove'
  BY <1>15 DEF cleanup_check, get_session, Alive
<1>16. ASSUME NEW t \in Sessions, cleanup_remove(t) PROVE OnlyRefusedRemove'
  BY <1>16, Zenon DEF cleanup_remove
<1>17. ASSUME NEW t \in Sessions, cleanup_close(t) PROVE OnlyRefusedRemove'
  BY <1>17, Zenon DEF cleanup_close, MediaSource_close
<1>18. ASSUME NEW t \in Sessions, source_close_run(t) PROVE OnlyRefusedRemove'
  BY <1>18, Zenon DEF source_close_run, stop, get_session
<1>19. CASE UNCHANGED vars
  BY <1>19 DEF vars
<1> QED
  BY <1>1, <1>2, <1>3, <1>4, <1>5, <1>6, <1>7, <1>8, <1>9, <1>10, <1>11, <1>12, <1>13, <1>14, <1>15, <1>16, <1>17, <1>18, <1>19, Zenon
  DEF Next, WorkerStep

\* StaysRegistered is inductive: no check removes the name, so the registered
\* source is the only one that is ever found.
LEMMA StaysRegisteredStep == KInv /\ [Next]_vars => StaysRegistered'
<1> SUFFICES ASSUME KInv, [Next]_vars PROVE StaysRegistered'
  OBVIOUS
<1>0. prompt' = prompt
  BY Zenon DEF Next, Kept, vars
<1> USE <1>0, PublishAssumption DEF KInv, IInv, TypeOK, LocalsInv, OnlyRefusedRemove, StaysRegistered, Calm, RecvPc, srcVars, pubVars, Goto
<1>1. ASSUME NEW t \in Sessions, on_socket_open(t) PROVE StaysRegistered'
  BY <1>1 DEF on_socket_open
<1>2. ASSUME NEW t \in Sessions, on_socket_close(t) PROVE StaysRegistered'
  BY <1>2, Zenon DEF on_socket_close, stop
<1>3. ASSUME NEW t \in Sessions, publish_lookup(t) PROVE StaysRegistered'
  BY <1>3 DEF publish_lookup
<1>4. ASSUME NEW t \in Sessions, recv_ends(t) PROVE StaysRegistered'
  BY <1>4 DEF recv_ends, Ends, stop
<1>5. ASSUME NEW t \in Sessions, alive_checker(t) PROVE StaysRegistered'
  BY <1>5, Zenon DEF alive_checker, stop
<1>6. ASSUME NEW t \in Sessions, publish_conflict(t) PROVE StaysRegistered'
  BY <1>6 DEF publish_conflict, Ends, stop, get_session
<1>7. ASSUME NEW t \in Sessions, sync_stop(t) PROVE StaysRegistered'
  BY <1>7 DEF sync_stop, Ends, stop
<1>8. ASSUME NEW t \in Sessions, sync_stop_return(t) PROVE StaysRegistered'
  BY <1>8 DEF sync_stop_return
<1>9. ASSUME NEW t \in Sessions, publish_bind(t) PROVE StaysRegistered'
  BY <1>9 DEF publish_bind, stop, set_session, CanBind, get_session
<1>10. ASSUME NEW t \in Sessions, on_publish_return(t) PROVE StaysRegistered'
  BY <1>10 DEF on_publish_return, Ends, stop
<1>11. ASSUME NEW t \in Sessions, publish_add(t) PROVE StaysRegistered'
  BY <1>11 DEF publish_add, Ends, stop, MediaSource_close
<1>12. ASSUME NEW t \in Sessions, do_stop_begin(t) PROVE StaysRegistered'
  BY <1>12, Zenon DEF do_stop_begin
<1>13. ASSUME NEW t \in Sessions, do_stop_unbind(t) PROVE StaysRegistered'
  BY <1>13, Zenon DEF do_stop_unbind, set_session, CanBind, get_session
<1>14. ASSUME NEW t \in Sessions, do_stop_end(t) PROVE StaysRegistered'
  BY <1>14, Zenon DEF do_stop_end
<1>15. ASSUME NEW t \in Sessions, cleanup_check(t) PROVE StaysRegistered'
  BY <1>15, Zenon DEF cleanup_check
<1>16. ASSUME NEW t \in Sessions, cleanup_remove(t) PROVE StaysRegistered'
  BY <1>16, Zenon DEF cleanup_remove
<1>17. ASSUME NEW t \in Sessions, cleanup_close(t) PROVE StaysRegistered'
  BY <1>17, Zenon DEF cleanup_close, MediaSource_close
<1>18. ASSUME NEW t \in Sessions, source_close_run(t) PROVE StaysRegistered'
  BY <1>18 DEF source_close_run, stop, get_session
<1>19. CASE UNCHANGED vars
  BY <1>19 DEF vars
<1> QED
  BY <1>1, <1>2, <1>3, <1>4, <1>5, <1>6, <1>7, <1>8, <1>9, <1>10, <1>11, <1>12, <1>13, <1>14, <1>15, <1>16, <1>17, <1>18, <1>19, Zenon
  DEF Next, WorkerStep

\* The inductive invariant.
THEOREM Invariance == Spec => []KInv
<1>1. Init => KInv
  <2>1. Init => IInv
    BY PublishAssumption DEF Init, IInv, TypeOK, RecvPc, LocalsInv, CreatedInv, BoundInv, Feeding
  <2>2. Init => AliveBound /\ OnlyRefusedRemove /\ StaysRegistered
    BY DEF Init, AliveBound, OnlyRefusedRemove, StaysRegistered
  <2> QED BY <2>1, <2>2, Zenon DEF KInv
<1>2. KInv /\ [Next]_vars => KInv'
  BY TypeStep, LocalsStep, CreatedStep, BoundStep, AliveBoundStep, OnlyRefusedStep, StaysRegisteredStep, Zenon
  DEF IInv, KInv
<1> QED
  BY <1>1, <1>2, PTL DEF Spec

\* Type correctness; in particular a delayed check always has a source.
THEOREM TypeCorrect == Spec => []TypeOK
  BY Invariance, PTL DEF KInv, IInv

\* A source stays bound to the session that feeds it
\* (rtmp_server_session.cpp:215, media_source.cpp:90-102).
THEOREM FeederIsBoundHolds == Spec => []FeederIsBound
<1>1. KInv => FeederIsBound
  BY PublishAssumption, Zenon DEF KInv, IInv, TypeOK, LocalsInv, BoundInv, FeederIsBound, Feeding, get_session, Alive
<1> QED
  BY <1>1, Invariance, PTL

\* No source has two feeders (media_source.cpp:90-102).
THEOREM SingleFeederHolds == Spec => []SingleFeeder
<1>1. FeederIsBound => SingleFeeder
  BY Zenon DEF FeederIsBound, SingleFeeder
<1> QED
  BY <1>1, FeederIsBoundHolds, PTL

\* A source that is fed is not being closed, as long as straight-line code is
\* faster than the delayed check and no session has lost the race for a source
\* (stream_session.cpp:80-85).
THEOREM FedStaysOpenHolds == Spec => []FedStaysOpen
<1>1. KInv => FedStaysOpen
  BY PublishAssumption DEF KInv, IInv, TypeOK, LocalsInv, StaysRegistered, Calm, Feeding, FedStaysOpen
<1> QED
  BY <1>1, Invariance, PTL
=============================================================================
