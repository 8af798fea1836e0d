---------------------------- MODULE DjangoScope -----------------------------
(***************************************************************************)
(* MonitorScope under Django's ASGI handler.  OneloMonitorMiddleware says  *)
(* async_capable, so Django hands it a get_response that is a coroutine    *)
(* function; its synchronous __call__ returns the coroutine, and the block *)
(* is over before the coroutine runs.                                      *)
(***************************************************************************)
EXTENDS MonitorScope

\* A request's task starts with the start-up task's context; all the middleware leaves
\* behind is the isolation scope it found, or made where there was none.
ServeCoroutine(t) ==
  /\ app = "asgi" /\ status[t] = "new" /\ Running(Main)
  /\ Begins(t, served + 1)
  /\ Fits(Lazy(iso[Main]))
  /\ heap' = Lazy(iso[Main])
  /\ iso' = [iso EXCEPT ![t] = Ref(iso[Main])]
  /\ cur' = [cur EXCEPT ![t] = cur[Main]]
  /\ UNCHANGED <<app, blocks, carriers>>

DjangoNext == Working \/ \E t \in Tasks : ServeCoroutine(t)
DjangoSpec == Init /\ [][DjangoNext]_vars
-----------------------------------------------------------------------------
\* "Forks an isolation scope per request (so concurrent threads / async handlers don't
\* leak user / breadcrumbs)", and "For Django ASGI deployments ... this still works": an
\* event captured for one request never names a user another request set.
AsyncHandlersStayHome ==
  \A t \in Tasks : Running(t) /\ home[t] # StartUp /\ EventUser(t).id # Nobody
                    => EventUser(t).by \in {home[t], StartUp}
=============================================================================
