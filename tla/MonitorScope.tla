---------------------------- MODULE MonitorScope ----------------------------
(***************************************************************************)
(* The isolation and current scopes of monitor/_scope.py: mutable objects  *)
(* that tasks and worker threads reach through two ContextVars.  A task    *)
(* starts with a copy of the variables of the task that creates it, so     *)
(* both then share the same objects; a worker thread keeps its variables   *)
(* from one request to the next.  A block forks a scope and puts the       *)
(* variable back when it ends.                                             *)
(*                                                                         *)
(* A scope is abstracted to its user and to whose breadcrumbs it holds, a  *)
(* user to who he is and which work set him.  Start-up code is work 0, and *)
(* requests are numbered in the order they are served.  What runs for a    *)
(* request outside any block that isolates it is one more work, Outside: a *)
(* body Django or Flask streams when the block is over, a WebSocket's code *)
(* under ASGI.  init() leaves no user on the global scope.                 *)
(***************************************************************************)
EXTENDS Naturals, Sequences, FiniteSets, SequencesExt

CONSTANTS Tasks,       \* tasks and worker threads
          Main,        \* the one that runs start-up code and the server
          People,
          Nobody,
          MaxRequests, \* bound: requests
          MaxCarriers, \* bound: carriers sent with a job
          MaxScopes,   \* bound: Scope objects
          MaxCrumbs,   \* bound: scopes with breadcrumbs when one is added
          MaxDepth     \* bound: nested blocks of a task, the request's apart

ASSUME TasksAssumption == Main \in Tasks
ASSUME PeopleAssumption == Nobody \notin People
ASSUME SizesAssumption ==
  {MaxRequests, MaxCarriers, MaxScopes, MaxCrumbs} \subseteq Nat /\ MaxDepth \in Nat \ {0}

StartUp == 0
Outside == MaxRequests + 1
Works == 0..Outside                 \* whatever code runs for
Unset == 0                          \* a ContextVar without a value
NoUser == [id |-> Nobody, by |-> StartUp]
UserRecords == [id : People \cup {Nobody}, by : Works]
Apps == {"asgi", "wsgi", "django", "flask"}

VARIABLES
  app,      \* the integration in use
  heap,     \* the Scope objects; spans: the works whose new_scope() led to a current one
  iso,      \* _isolation_scope_var of each task
  cur,      \* _current_scope_var of each task
  blocks,   \* the blocks of each task: kind, the scope it works on, the value and the
            \* home to go back to
  home,     \* what a task works for
  status,   \* "new" | "running" | "streaming", a body after the request's block |
            \* "idle", a thread between requests | "ended"
  served,   \* requests begun
  carriers  \* what carrier() returned, with the work that sent it

ctx == <<iso, cur>>
vars == <<app, heap, ctx, blocks, home, status, served, carriers>>

Blank == [user |-> NoUser, crumbs |-> {}, spans |-> {}]
Scopes == [user : UserRecords, crumbs : SUBSET Works, spans : SUBSET Works]
Payloads == [user : UserRecords, crumbs : SUBSET Works, from : Works]
Kinds == {"middleware", "flask", "identified", "current", "job"}
Blocks == [kind : Kinds, scope : 1..Len(heap), saved : 0..Len(heap), home : Works]
InBlock(t, kind) == blocks[t] # <<>> /\ Last(blocks[t]).kind = kind
InRequest(t) == blocks[t] # <<>> /\ blocks[t][1].kind \in {"middleware", "flask"}

\* A request has a scope from its first block to its last.
TypeOK ==
  /\ app \in Apps
  /\ heap \in Seq(Scopes)
  /\ iso \in [Tasks -> 0..Len(heap)] /\ cur \in [Tasks -> 0..Len(heap)]
  /\ blocks \in [Tasks -> Seq(Blocks)]
  /\ \A t \in Tasks : InRequest(t) => iso[t] # Unset
  /\ home \in [Tasks -> Works] /\ served \in 0..MaxRequests
  /\ status \in [Tasks -> {"new", "running", "streaming", "idle", "ended"}]
  /\ carriers \subseteq Payloads /\ Cardinality(carriers) <= MaxCarriers

Init ==
  /\ app \in Apps
  /\ heap = <<>>
  /\ iso = [t \in Tasks |-> Unset] /\ cur = [t \in Tasks |-> Unset]
  /\ blocks = [t \in Tasks |-> <<>>]
  /\ home = [t \in Tasks |-> StartUp]
  /\ status = [t \in Tasks |-> IF t = Main THEN "running" ELSE "new"]
  /\ served = 0 /\ carriers = {}

Running(t) == status[t] \in {"running", "streaming"}

\* get_isolation_scope(): a variable without a value gets a clone of the global one
Lazy(ref) == IF ref = Unset THEN Append(heap, Blank) ELSE heap
Ref(ref) == IF ref = Unset THEN Len(heap) + 1 ELSE ref

\* Mutant: the copy keeps the breadcrumbs.
CloneAll(scope) == scope

\* clone(): everything but the breadcrumbs
Clone(scope) == [scope EXCEPT !.crumbs = {}]

\* the scope a block works on
Fork(scopes, ref) == [heap |-> Append(scopes, Clone(scopes[ref])), ref |-> Len(scopes) + 1]
Fits(scopes) == Len(scopes) <= MaxScopes
FewCrumbs(scopes) ==
  Cardinality({ref \in 1..Len(scopes) : scopes[ref].crumbs # {}}) <= MaxCrumbs

Named(scope, person, t) ==
  [scope EXCEPT !.user = IF person = Nobody THEN NoUser ELSE [id |-> person, by |-> home[t]]]

\* a block that works on `scope` and puts the variable back to `saved`
Opens(t, kind, scope, saved) ==
  blocks' = [blocks EXCEPT ![t] =
    Append(@, [kind |-> kind, scope |-> scope, saved |-> saved, home |-> home[t]])]

(***************************************************************************)
(* Requests and tasks                                                      *)
(***************************************************************************)
\* Task t begins the next request, as `work`.
Begins(t, work) ==
  /\ t # Main /\ served < MaxRequests
  /\ served' = served + 1
  /\ home' = [home EXCEPT ![t] = work]
  /\ status' = [status EXCEPT ![t] = "running"]

\* isolation_scope(), entered with the isolation scope `outer` of the context
EntersIsolation(t, kind, outer) ==
  LET f == Fork(Lazy(outer), Ref(outer)) IN
  /\ Fits(f.heap)
  /\ heap' = f.heap
  /\ iso' = [iso EXCEPT ![t] = f.ref]
  /\ Opens(t, kind, f.ref, Ref(outer))

\* An ASGI server creates a task for a request; the middleware forks the isolation
\* scope before the application sees it.
ServeTask(t) ==
  /\ app = "asgi" /\ status[t] = "new" /\ Running(Main)
  /\ Begins(t, served + 1)
  /\ cur' = [cur EXCEPT ![t] = cur[Main]]
  /\ EntersIsolation(t, "middleware", iso[Main])
  /\ UNCHANGED <<app, carriers>>

\* A WebSocket, and the server's lifespan, pass the middleware by: the task works on the
\* server's own scope.
ServeSocket(t) ==
  /\ app = "asgi" /\ status[t] = "new" /\ Running(Main)
  /\ Begins(t, Outside)
  /\ iso' = [iso EXCEPT ![t] = iso[Main]]
  /\ cur' = [cur EXCEPT ![t] = cur[Main]]
  /\ UNCHANGED <<app, heap, blocks, carriers>>

\* A WSGI server or Django serves it on a worker thread that has served before, or has
\* an empty context.
ServeThread(t) ==
  /\ app \in {"wsgi", "django"} /\ status[t] \in {"new", "idle"}
  /\ Begins(t, served + 1)
  /\ EntersIsolation(t, "middleware", iso[t])
  /\ UNCHANGED <<app, cur, carriers>>

\* Mutant: the request forks what the thread was left with.
BeforeRequestForksContext(t) ==
  /\ app = "flask" /\ status[t] \in {"new", "idle"}
  /\ Begins(t, served + 1)
  /\ EntersIsolation(t, "flask", iso[t])
  /\ UNCHANGED <<app, cur, carriers>>

\* Flask's before_request hook forks the global scope.
BeforeRequest(t) ==
  /\ app = "flask" /\ status[t] \in {"new", "idle"}
  /\ Begins(t, served + 1)
  /\ Fits(Append(heap, Blank))
  /\ heap' = Append(heap, Blank)
  /\ iso' = [iso EXCEPT ![t] = Len(heap) + 1]
  /\ Opens(t, "flask", Len(heap) + 1, iso[t])
  /\ UNCHANGED <<app, cur, carriers>>

\* create_task(), or submit() of a ScopeAwareExecutor
Spawn(t, child) ==
  /\ Running(t) /\ status[child] = "new"
  /\ status' = [status EXCEPT ![child] = "running"]
  /\ iso' = [iso EXCEPT ![child] = iso[t]]
  /\ cur' = [cur EXCEPT ![child] = cur[t]]
  /\ home' = [home EXCEPT ![child] = home[t]]
  /\ UNCHANGED <<app, heap, blocks, served, carriers>>

(***************************************************************************)
(* Blocks: identified_scope(person or None), new_scope(), continue_trace() *)
(***************************************************************************)
\* blocks that count for the bound: a request's own does not, running outside it does
Nested(t) ==
  IF home[t] = Outside THEN Len(blocks[t]) + 1
  ELSE IF InRequest(t) THEN Len(blocks[t]) - 1 ELSE Len(blocks[t])
MayOpen(t) == Running(t) /\ Nested(t) < MaxDepth

\* The application does, or the auth middleware around it, with the user it resolved.
Identified(t, person) ==
  LET f == Fork(Lazy(iso[t]), Ref(iso[t])) IN
  /\ MayOpen(t) /\ Fits(f.heap)
  /\ heap' = IF person = Nobody THEN f.heap
             ELSE [f.heap EXCEPT ![f.ref] = Named(@, person, t)]
  /\ iso' = [iso EXCEPT ![t] = f.ref]
  /\ Opens(t, "identified", f.ref, Ref(iso[t]))
  /\ UNCHANGED <<app, cur, home, status, served, carriers>>

\* the parent is the current scope or else the isolation scope
NewScope(t) ==
  LET bare == cur[t] = Unset
      f == IF bare THEN Fork(Lazy(iso[t]), Ref(iso[t])) ELSE Fork(heap, cur[t]) IN
  /\ MayOpen(t) /\ Fits(f.heap)
  /\ heap' = [f.heap EXCEPT ![f.ref].spans = @ \cup {home[t]}]
  /\ iso' = IF bare THEN [iso EXCEPT ![t] = Ref(@)] ELSE iso
  /\ cur' = [cur EXCEPT ![t] = f.ref]
  /\ Opens(t, "current", f.ref, cur[t])
  /\ UNCHANGED <<app, home, status, served, carriers>>

\* carrier(), sent with a job
Carrier(t) ==
  /\ Running(t) /\ Fits(Lazy(iso[t])) /\ Cardinality(carriers) < MaxCarriers
  /\ heap' = Lazy(iso[t])
  /\ iso' = [iso EXCEPT ![t] = Ref(@)]
  /\ LET scope == heap'[iso'[t]] IN
       carriers' =
         carriers \cup {[user |-> scope.user, crumbs |-> scope.crumbs, from |-> home[t]]}
  /\ UNCHANGED <<app, cur, blocks, home, status, served>>

\* what continue_trace() makes of a job's carrier: it is trusted, and breadcrumbs came
\* along on demand, or it is missing or rejected
Received ==
  carriers \cup {[sent EXCEPT !.crumbs = {}] : sent \in carriers}
           \cup {[user |-> NoUser, crumbs |-> {}, from |-> sent.from] : sent \in carriers}

\* A job runs in continue_trace(): on a fresh clone of the global scope, with what its
\* carrier brought.
Continue(t, data) ==
  LET scope == [Blank EXCEPT !.user = data.user, !.crumbs = data.crumbs] IN
  /\ MayOpen(t) /\ t # Main /\ Fits(Append(heap, scope))
  /\ heap' = Append(heap, scope)
  /\ iso' = [iso EXCEPT ![t] = Len(heap) + 1]
  /\ home' = [home EXCEPT ![t] = data.from]
  /\ Opens(t, "job", Len(heap) + 1, iso[t])
  /\ UNCHANGED <<app, cur, status, served, carriers>>

\* What comes after a task's innermost block.  A request's own is its last: under ASGI
\* the task ends with it, and a thread waits for the next request.
EndsWithBlock(t) ==
  /\ home' = [home EXCEPT ![t] = Last(blocks[t]).home]
  /\ status' = [status EXCEPT ![t] =
       IF InRequest(t) /\ Len(blocks[t]) = 1
       THEN (IF app = "asgi" THEN "ended" ELSE "idle") ELSE @]

\* Django's middleware has returned the response, and Flask has torn the request down,
\* before a streamed body runs; the WSGI middleware's block lasts until it is sent.
StreamsAfterBlock(t) ==
  /\ app \in {"django", "flask"} /\ InRequest(t) /\ Len(blocks[t]) = 1
  /\ home' = [home EXCEPT ![t] = Outside]
  /\ status' = [status EXCEPT ![t] = "streaming"]

\* Mutant: leaving a block clears the variable.
LeaveClears(t) ==
  /\ Running(t) /\ blocks[t] # <<>>
  /\ IF Last(blocks[t]).kind = "current"
     THEN cur' = [cur EXCEPT ![t] = Unset] /\ UNCHANGED iso
     ELSE iso' = [iso EXCEPT ![t] = Unset] /\ UNCHANGED cur
  /\ blocks' = [blocks EXCEPT ![t] = Front(@)]
  /\ EndsWithBlock(t) \/ StreamsAfterBlock(t)
  /\ UNCHANGED <<app, heap, served, carriers>>

\* The innermost block ends: ContextVar.reset().
Leave(t) ==
  /\ Running(t) /\ blocks[t] # <<>>
  /\ LET b == Last(blocks[t]) IN
       /\ IF b.kind = "current" THEN cur' = [cur EXCEPT ![t] = b.saved] /\ UNCHANGED iso
          ELSE iso' = [iso EXCEPT ![t] = b.saved] /\ UNCHANGED cur
  /\ blocks' = [blocks EXCEPT ![t] = Front(@)]
  /\ EndsWithBlock(t) \/ StreamsAfterBlock(t)
  /\ UNCHANGED <<app, heap, served, carriers>>

\* Flask runs teardown_request in another context: reset() raises ValueError, the hook
\* swallows it, and the thread keeps the request's scope.  A body was sent over there.
TeardownElsewhere(t) ==
  /\ Running(t) /\ InBlock(t, "flask")
  /\ blocks' = [blocks EXCEPT ![t] = Front(@)]
  /\ EndsWithBlock(t)
  /\ UNCHANGED <<app, heap, ctx, served, carriers>>

\* The body is sent; the thread keeps the variables it was left with.
BodySent(t) ==
  /\ status[t] = "streaming" /\ blocks[t] = <<>> /\ home[t] = Outside
  /\ home' = [home EXCEPT ![t] = StartUp]
  /\ status' = [status EXCEPT ![t] = "idle"]
  /\ UNCHANGED <<app, heap, ctx, blocks, served, carriers>>

(***************************************************************************)
(* set_user(), add_breadcrumb() and capture                                *)
(***************************************************************************)
\* by the application, or by RequireUser for the user it admits
SetUser(t, person) ==
  /\ Running(t) /\ Fits(Lazy(iso[t]))
  /\ iso' = [iso EXCEPT ![t] = Ref(@)]
  /\ heap' = [Lazy(iso[t]) EXCEPT ![Ref(iso[t])] = Named(@, person, t)]
  /\ UNCHANGED <<app, cur, blocks, home, status, served, carriers>>

\* set_user() of the scope a new_scope() block hands out
SetCurrentUser(t, person) ==
  /\ Running(t) /\ InBlock(t, "current")
  /\ heap' = [heap EXCEPT ![Last(blocks[t]).scope] = Named(@, person, t)]
  /\ UNCHANGED <<app, ctx, blocks, home, status, served, carriers>>

AddBreadcrumb(t) ==
  /\ Running(t) /\ Fits(Lazy(iso[t]))
  /\ iso' = [iso EXCEPT ![t] = Ref(@)]
  /\ heap' = [Lazy(iso[t]) EXCEPT ![Ref(iso[t])].crumbs = @ \cup {home[t]}]
  /\ FewCrumbs(heap')
  /\ UNCHANGED <<app, cur, blocks, home, status, served, carriers>>

\* add_breadcrumb() of that scope
AddCurrentBreadcrumb(t) ==
  /\ Running(t) /\ InBlock(t, "current")
  /\ heap' = [heap EXCEPT ![Last(blocks[t]).scope].crumbs = @ \cup {home[t]}]
  /\ FewCrumbs(heap')
  /\ UNCHANGED <<app, ctx, blocks, home, status, served, carriers>>

\* apply_scopes_to_event() changes no scope: what an event captured now carries.
\* Isolation comes first, then current; apply_to() sets a user only where there is
\* none yet and adds the breadcrumbs.
Layers(t) == {iso[t], cur[t]} \ {Unset}
EventUser(t) ==
  LET Names(ref) == ref # Unset /\ heap[ref].user.id # Nobody IN
  CASE Names(iso[t]) -> heap[iso[t]].user
    [] ~Names(iso[t]) /\ Names(cur[t]) -> heap[cur[t]].user
    [] OTHER -> NoUser
EventBreadcrumbs(t) == UNION {heap[ref].crumbs : ref \in Layers(t)}

Serving == \E t \in Tasks :
  \/ ServeTask(t) \/ ServeSocket(t) \/ ServeThread(t)
  \/ BeforeRequest(t) \/ TeardownElsewhere(t) \/ BodySent(t)
Working == \E t \in Tasks :
  \/ NewScope(t) \/ Leave(t) \/ AddBreadcrumb(t) \/ AddCurrentBreadcrumb(t) \/ Carrier(t)
  \/ \E child \in Tasks : Spawn(t, child)
  \/ \E data \in Received : Continue(t, data)
  \/ \E person \in People \cup {Nobody} :
       Identified(t, person) \/ SetUser(t, person) \/ SetCurrentUser(t, person)

Next == Serving \/ Working
Spec == Init /\ [][Next]_vars
-----------------------------------------------------------------------------
\* The works an event of t may speak for: its own, and those inside whose new_scope() it
\* runs.  A job continued inside another work's new_scope() keeps that current scope, as
\* does what it opens and spawns there.
Spans(t) == IF cur[t] = Unset THEN {} ELSE heap[cur[t]].spans
Near(t) == {home[t]} \cup Spans(t)

\* Code in the block of its request, its tasks and jobs, and start-up code.
Isolated(t) == Running(t) /\ Outside \notin Near(t)

\* "concurrent requests don't bleed user IDs ... into each other": an event captured for
\* one request or for its jobs never names a user whom another request set while it was
\* isolated, however tasks share scope objects and threads are reused.  Whom start-up
\* code sets is for everybody; so is, and should not be, whom a request sets outside its
\* block: a streamed body leaves him to the thread, a WebSocket to the server.
UsersStayHome ==
  \A t \in Tasks : Isolated(t) /\ EventUser(t).id # Nobody
                    => EventUser(t).by \in Near(t) \cup {StartUp, Outside}

\* Nor does it carry the breadcrumbs another request left while isolated, or, unless it
\* runs inside a new_scope() of theirs, those of start-up code.
BreadcrumbsStayHome ==
  \A t \in Tasks : Isolated(t) => EventBreadcrumbs(t) \subseteq Near(t) \cup {Outside}
=============================================================================
