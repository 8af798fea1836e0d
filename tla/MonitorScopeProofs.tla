------------------------- MODULE MonitorScopeProofs -------------------------
(***************************************************************************)
(* What MonitorScope guarantees, for every number of tasks, people,        *)
(* requests, carriers, scopes and nested blocks.                           *)
(*                                                                         *)
(* No action mentions another task's user, so whether an event is right    *)
(* depends on who may write to the objects a task can reach.  Each         *)
(* isolation scope has an owner, the one work whose code can reach it, but *)
(* for what runs outside every block; a current scope lists the works that *)
(* may have written to it.                                                 *)
(***************************************************************************)
EXTENDS MonitorScope, FiniteSetTheorems, SequenceTheorems, TLAPS

\* Tasks that have yet to be given a request work for nobody; start-up code goes on.
Homes ==
  /\ Running(Main) /\ home[Main] = StartUp
  /\ \A t \in Tasks :
       /\ status[t] \in {"new", "idle"} => home[t] = StartUp
       /\ status[t] = "new" => iso[t] = Unset
       /\ ~Running(t) => blocks[t] = <<>>

\* A request's own block is the outermost and was opened by a task that had no work; the
\* others keep the work they are opened for, until a job brings its sender's.
Nesting ==
  \A t \in Tasks : \A i \in 1..Len(blocks[t]) :
    /\ blocks[t][i].kind \in {"middleware", "flask"} => i = 1 /\ blocks[t][i].home = StartUp
    /\ blocks[t][i].kind = "flask" => app = "flask"
    /\ blocks[t][i].kind = "middleware" => app # "flask"
    /\ blocks[t][i].kind = "current" =>
         blocks[t][i].home = IF i = Len(blocks[t]) THEN home[t] ELSE blocks[t][i + 1].home
    /\ t = Main =>
         blocks[t][i].home = StartUp /\ blocks[t][i].kind \notin {"middleware", "flask"}
    /\ InRequest(t) /\ i > 1 /\ blocks[t][i].kind # "current" => blocks[t][i].saved # Unset

\* No scope is an isolation scope and a current one; a new_scope() block works on a scope
\* that lists its work.
ScopesApart ==
  \A t \in Tasks :
    /\ iso[t] # Unset => heap[iso[t]].spans = {}
    /\ cur[t] # Unset => heap[cur[t]].spans # {}
    /\ \A i \in 1..Len(blocks[t]) :
         LET b == blocks[t][i] IN
         /\ b.kind = "current" => b.home \in heap[b.scope].spans
         /\ b.kind = "current" /\ b.saved # Unset => heap[b.saved].spans # {}
         /\ b.kind # "current" /\ b.saved # Unset => heap[b.saved].spans = {}

\* A current scope names people its works set and has no breadcrumbs but theirs.
CurrentsSound ==
  \A ref \in 1..Len(heap) : heap[ref].spans # {} =>
    /\ Outside \notin heap[ref].spans
         => heap[ref].user.by \in heap[ref].spans \cup {StartUp, Outside}
    /\ heap[ref].crumbs \subseteq heap[ref].spans

\* Outside its block a request works where start-up code does, on the scope of its thread
\* or of the server; in Flask, on whatever scope the thread was left with.
Side(work) == IF work = Outside /\ app # "flask" THEN StartUp ELSE work

\* What may be in a scope, or in a carrier, that `owner` put together.
Holds(scope, owner) == owner # Outside =>
  scope.user.by \in {owner, StartUp, Outside} /\ scope.crumbs \subseteq {owner, Outside}

\* The works that may have a scope of this owner for their isolation scope.
Suits(owner, work) == owner = Side(work) \/ Side(work) = Outside

\* A carrier brings what its sender's scope held.
CarriersSound ==
  /\ IsFiniteSet(carriers)
  /\ \A sent \in carriers : Holds(sent, Side(sent.from))

\* The code that can come back to its isolation scope: a thread between two requests
\* does, except Flask's, whose hook forks the global scope.
Keeps(t) == Running(t) \/ (status[t] = "idle" /\ app \in {"wsgi", "django"})

\* Every isolation scope is reached by its owner's code alone, and holds what that put
\* there, or what came from outside.
Owned(owner) ==
  /\ \A ref \in 1..Len(heap) : heap[ref].spans = {} => Holds(heap[ref], owner[ref])
  /\ \A t \in Tasks : Keeps(t) /\ iso[t] # Unset => Suits(owner[iso[t]], home[t])
  /\ \A t \in Tasks : \A i \in 1..Len(blocks[t]) :
       blocks[t][i].kind \notin {"current", "flask"} /\ blocks[t][i].saved # Unset
         => Suits(owner[blocks[t][i].saved], blocks[t][i].home)

Ownership == \E owner \in [1..Len(heap) -> Works] : Owned(owner)

IInv ==
  /\ TypeOK /\ Homes /\ Nesting /\ ScopesApart
  /\ CurrentsSound /\ CarriersSound /\ Ownership
-----------------------------------------------------------------------------
(***************************************************************************)
(* Scopes and blocks                                                       *)
(***************************************************************************)
LEMMA WorksFacts ==
  /\ StartUp \in Works /\ Outside \in Works /\ StartUp # Outside
  /\ \A n \in 0..MaxRequests : n \in Works
  BY SizesAssumption DEF Works, StartUp, Outside

LEMMA SideFacts ==
  ASSUME NEW work \in Works
  PROVE  /\ Side(work) \in Works /\ work \in {Side(work), Outside}
         /\ Side(work) = Outside => work = Outside
         /\ Side(StartUp) = StartUp
  BY WorksFacts DEF Side

\* A new scope suits everybody.
LEMMA BlankHolds ==
  ASSUME NEW owner PROVE Holds(Blank, owner)
  BY DEF Holds, Blank, NoUser

\* get_isolation_scope() gives a scope there is, and leaves the others as they were.
LEMMA LazyFacts ==
  ASSUME heap \in Seq(Scopes), NEW ref \in 0..Len(heap)
  PROVE  /\ Lazy(ref) \in Seq(Scopes)
         /\ Ref(ref) \in 1..Len(Lazy(ref))
         /\ Len(Lazy(ref)) \in {Len(heap), Len(heap) + 1}
         /\ \A r \in 1..Len(heap) : Lazy(ref)[r] = heap[r]
         /\ ref # Unset => Lazy(ref) = heap /\ Ref(ref) = ref
         /\ ref = Unset => /\ Ref(ref) = Len(heap) + 1 /\ Len(Lazy(ref)) = Len(heap) + 1
                           /\ Lazy(ref)[Len(heap) + 1] = Blank
<1>1. Blank \in Scopes
  BY PeopleAssumption, WorksFacts DEF Blank, Scopes, UserRecords, NoUser
<1>. QED
  BY <1>1 DEF Lazy, Ref, Unset

\* clone() makes a scope of its own with the user of the original and no breadcrumbs.
LEMMA ForkFacts ==
  ASSUME NEW scopes \in Seq(Scopes), NEW ref \in 1..Len(scopes)
  PROVE  /\ Fork(scopes, ref).heap \in Seq(Scopes)
         /\ Fork(scopes, ref).ref = Len(scopes) + 1
         /\ Len(Fork(scopes, ref).heap) = Len(scopes) + 1
         /\ \A r \in 1..Len(scopes) : Fork(scopes, ref).heap[r] = scopes[r]
         /\ Fork(scopes, ref).heap[Len(scopes) + 1].user = scopes[ref].user
         /\ Fork(scopes, ref).heap[Len(scopes) + 1].crumbs = {}
         /\ Fork(scopes, ref).heap[Len(scopes) + 1].spans = scopes[ref].spans
<1>1. scopes[ref] \in Scopes
  OBVIOUS
<1>2. /\ Clone(scopes[ref]) \in Scopes
      /\ Clone(scopes[ref]).user = scopes[ref].user
      /\ Clone(scopes[ref]).crumbs = {}
      /\ Clone(scopes[ref]).spans = scopes[ref].spans
  BY <1>1 DEF Clone, Scopes
<1>. QED
  BY <1>2 DEF Fork

LEMMA FrontFacts ==
  ASSUME NEW S, NEW s \in Seq(S), s # <<>>
  PROVE  /\ Front(s) \in Seq(S) /\ Len(Front(s)) = Len(s) - 1 /\ Len(s) \in Nat \ {0}
         /\ \A i \in 1..(Len(s) - 1) : Front(s)[i] = s[i]
         /\ Last(s) = s[Len(s)] /\ Last(s) \in S
<1>1. Len(s) \in Nat \ {0}
  OBVIOUS
<1>. DEFINE n == Len(s) - 1
<1>2. n \in Int /\ 1 \in Int /\ \A i \in 1..n : s[i] \in S
  BY <1>1
<1>3. /\ SubSeq(s, 1, n) \in Seq(S)
      /\ Len(SubSeq(s, 1, n)) = IF 1 <= n THEN n - 1 + 1 ELSE 0
      /\ \A i \in 1..(n - 1 + 1) : SubSeq(s, 1, n)[i] = s[1 + i - 1]
  <2>. HIDE DEF n
  <2>. QED
    BY <1>2, SubSeqProperties
<1>4. Front(s) = SubSeq(s, 1, n)
  BY DEF Front
<1>5. /\ Front(s) \in Seq(S)
      /\ Len(Front(s)) = n
      /\ \A i \in 1..n : Front(s)[i] = s[i]
  <2>1. n \in Nat
    BY <1>1
  <2>. HIDE DEF n
  <2>. QED
    BY <2>1, <1>3, <1>4
<1>. QED
  BY <1>1, <1>5 DEF Last

LEMMA NamedFacts ==
  ASSUME NEW scope \in Scopes, NEW person \in People \cup {Nobody}, NEW t \in Tasks,
         home \in [Tasks -> Works]
  PROVE  /\ Named(scope, person, t) \in Scopes
         /\ Named(scope, person, t).user.by \in {home[t], StartUp}
         /\ Named(scope, person, t).crumbs = scope.crumbs
         /\ Named(scope, person, t).spans = scope.spans
  BY PeopleAssumption, WorksFacts DEF Named, Scopes, UserRecords, NoUser

\* What the blocks of a task refer to stays in a heap that grows.
LEMMA BlocksGrow ==
  ASSUME heap \in Seq(Scopes), heap' \in Seq(Scopes), Len(heap) <= Len(heap')
  PROVE  Blocks \subseteq Blocks' /\ \A s \in Seq(Blocks) : s \in Seq(Blocks')
<1>1. Blocks \subseteq Blocks'
  BY DEF Blocks
<1>. QED
  BY <1>1, SeqMonotonic


\* A block `b` more, of task t.
Deeper(t, b) ==
  /\ blocks' \in [Tasks -> Seq(Blocks')]
  /\ \A u \in Tasks :
       /\ blocks[u] \in Seq(Blocks) /\ Len(blocks[u]) \in Nat
       /\ Len(blocks'[u]) = IF u = t THEN Len(blocks[u]) + 1 ELSE Len(blocks[u])
       /\ \A i \in 1..Len(blocks[u]) : blocks'[u][i] = blocks[u][i] /\ blocks[u][i] \in Blocks
  /\ blocks'[t][Len(blocks[t]) + 1] = b

LEMMA OpensDeeper ==
  ASSUME TypeOK, NEW t \in Tasks, NEW kind \in Kinds, NEW scope \in 1..Len(heap'),
         NEW saved \in 0..Len(heap'), Opens(t, kind, scope, saved),
         heap' \in Seq(Scopes), Len(heap) <= Len(heap')
  PROVE  Deeper(t, [kind |-> kind, scope |-> scope, saved |-> saved, home |-> home[t]])
<1>. DEFINE b == [kind |-> kind, scope |-> scope, saved |-> saved, home |-> home[t]]
<1>1. blocks \in [Tasks -> Seq(Blocks)] /\ heap \in Seq(Scopes) /\ home[t] \in Works
  BY DEF TypeOK
<1>2. \A s \in Seq(Blocks) : s \in Seq(Blocks')
  BY <1>1, BlocksGrow
<1>3. b \in Blocks'
  BY <1>1 DEF Blocks
<1>4. blocks' = [blocks EXCEPT ![t] = Append(@, b)]
  BY DEF Opens
<1>. HIDE DEF b
<1>5. blocks[t] \in Seq(Blocks') /\ Append(blocks[t], b) \in Seq(Blocks')
  BY <1>1, <1>2, <1>3
<1>6. blocks' \in [Tasks -> Seq(Blocks')]
  BY <1>1, <1>2, <1>4, <1>5
<1>7. Deeper(t, b)
  BY <1>1, <1>4, <1>5, <1>6 DEF Deeper
<1>. QED
  BY <1>7 DEF b

\* Every block is the new one or one there was.
LEMMA DeeperCases ==
  ASSUME NEW t \in Tasks, NEW b, Deeper(t, b), NEW u \in Tasks, NEW i \in 1..Len(blocks'[u])
  PROVE  \/ u = t /\ i = Len(blocks[t]) + 1 /\ blocks'[u][i] = b
         \/ i \in 1..Len(blocks[u]) /\ blocks'[u][i] = blocks[u][i] /\ blocks[u][i] \in Blocks
  BY DEF Deeper

\* A block is nested rightly when it notes the work it was opened in.
LEMMA NestingDeeper ==
  ASSUME Nesting, NEW t \in Tasks, NEW b, Deeper(t, b), b.home = home[t],
         \A u \in Tasks \ {t} : home'[u] = home[u],
         t = Main => b.home = StartUp /\ b.kind \notin {"middleware", "flask"},
         b.kind \in {"middleware", "flask"} => blocks[t] = <<>> /\ b.home = StartUp,
         b.kind = "flask" => app = "flask", b.kind = "middleware" => app # "flask",
         b.kind = "current" => home'[t] = home[t],
         InRequest(t) /\ b.kind # "current" => b.saved # Unset,
         app' = app
  PROVE  Nesting'
<1>1. ASSUME NEW u \in Tasks, blocks[u] # <<>>
      PROVE  InRequest(u)' <=> InRequest(u)
  <2>1. Len(blocks[u]) >= 1 /\ Len(blocks'[u]) >= 1
    BY <1>1 DEF Deeper
  <2>2. blocks'[u][1] = blocks[u][1] /\ blocks'[u] # <<>>
    BY <2>1 DEF Deeper
  <2>. QED
    BY <1>1, <2>2 DEF InRequest
<1>. SUFFICES ASSUME NEW u \in Tasks, NEW i \in 1..Len(blocks'[u])
              PROVE  /\ blocks'[u][i].kind \in {"middleware", "flask"} =>
                          i = 1 /\ blocks'[u][i].home = StartUp
                     /\ blocks'[u][i].kind = "flask" => app = "flask"
                     /\ blocks'[u][i].kind = "middleware" => app # "flask"
                     /\ blocks'[u][i].kind = "current" =>
                          blocks'[u][i].home =
                            IF i = Len(blocks'[u]) THEN home'[u] ELSE blocks'[u][i + 1].home
                     /\ u = Main =>
                          blocks'[u][i].home = StartUp
                            /\ blocks'[u][i].kind \notin {"middleware", "flask"}
                     /\ InRequest(u)' /\ i > 1 /\ blocks'[u][i].kind # "current"
                          => blocks'[u][i].saved # Unset
  BY DEF Nesting
<1>2. CASE u = t /\ i = Len(blocks[t]) + 1
  <2>1. blocks'[u][i] = b /\ i = Len(blocks'[u])
    BY <1>2 DEF Deeper
  <2>2. i > 1 => blocks[t] # <<>>
    BY <1>2
  <2>3. blocks[t] = <<>> => i = 1
    BY <1>2
  <2>. QED
    BY <1>1, <1>2, <2>1, <2>2, <2>3
<1>3. CASE ~(u = t /\ i = Len(blocks[t]) + 1)
  <2>1. i \in 1..Len(blocks[u]) /\ blocks'[u][i] = blocks[u][i] /\ blocks[u] # <<>>
    BY <1>3, DeeperCases
  <2>2. blocks[u][i].kind = "current" =>
          blocks[u][i].home = IF i = Len(blocks[u]) THEN home[u] ELSE blocks[u][i + 1].home
    BY <2>1 DEF Nesting
  <2>3. blocks[u][i].kind = "current" =>
          blocks[u][i].home = IF i = Len(blocks'[u]) THEN home'[u] ELSE blocks'[u][i + 1].home
    <3>1. CASE u # t
      <4>1. home'[u] = home[u] /\ Len(blocks'[u]) = Len(blocks[u])
        BY <3>1 DEF Deeper
      <4>2. i # Len(blocks[u]) => blocks'[u][i + 1] = blocks[u][i + 1]
        BY <2>1, <3>1 DEF Deeper
      <4>. QED
        BY <2>2, <4>1, <4>2
    <3>2. CASE u = t /\ i = Len(blocks[t])
      <4>1. i # Len(blocks'[u]) /\ blocks'[u][i + 1] = b
        BY <2>1, <3>2 DEF Deeper
      <4>. QED
        BY <2>2, <3>2, <4>1
    <3>3. CASE u = t /\ i # Len(blocks[t])
      <4>1. i # Len(blocks'[u]) /\ blocks'[u][i + 1] = blocks[u][i + 1]
        <5>1. /\ i \in Nat /\ i + 1 \in 1..Len(blocks[u]) /\ Len(blocks[u]) \in Nat
              /\ Len(blocks'[u]) = Len(blocks[u]) + 1
          BY <2>1, <3>3 DEF Deeper
        <5>2. i # Len(blocks'[u])
          BY <5>1
        <5>3. \A j \in 1..Len(blocks[u]) : blocks'[u][j] = blocks[u][j]
          BY DEF Deeper
        <5>. QED
          BY <5>1, <5>2, <5>3
      <4>. QED
        BY <2>2, <3>3, <4>1
    <3>. QED
      BY <3>1, <3>2, <3>3
  <2>. QED
    BY <1>1, <2>1, <2>3 DEF Nesting
<1>. QED
  BY <1>2, <1>3

\* What ScopesApart says of one block.
LEMMA BlockApart ==
  ASSUME ScopesApart, NEW u \in Tasks, NEW i \in 1..Len(blocks[u])
  PROVE  LET a == blocks[u][i] IN
         /\ a.kind = "current" => a.home \in heap[a.scope].spans
         /\ a.kind = "current" /\ a.saved # Unset => heap[a.saved].spans # {}
         /\ a.kind # "current" /\ a.saved # Unset => heap[a.saved].spans = {}
BY DEF ScopesApart

\* Scopes stay apart when a block, and what it makes of the variables, keep them apart.
LEMMA ApartDeeper ==
  ASSUME ScopesApart, heap \in Seq(Scopes), NEW t \in Tasks, NEW b, Deeper(t, b),
         \A ref \in 1..Len(heap) : heap'[ref].spans = heap[ref].spans,
         \A u \in Tasks : iso'[u] # Unset => heap'[iso'[u]].spans = {},
         \A u \in Tasks : cur'[u] # Unset => heap'[cur'[u]].spans # {},
         b.kind = "current" => b.home \in heap'[b.scope].spans,
         b.kind = "current" /\ b.saved # Unset => heap'[b.saved].spans # {},
         b.kind # "current" /\ b.saved # Unset => heap'[b.saved].spans = {}
  PROVE  ScopesApart'
<1>1. ASSUME NEW u \in Tasks, NEW i \in 1..Len(blocks'[u])
      PROVE  LET a == blocks'[u][i] IN
             /\ a.kind = "current" => a.home \in heap'[a.scope].spans
             /\ a.kind = "current" /\ a.saved # Unset => heap'[a.saved].spans # {}
             /\ a.kind # "current" /\ a.saved # Unset => heap'[a.saved].spans = {}
  <2>1. CASE blocks'[u][i] = b
    BY <2>1
  <2>2. CASE i \in 1..Len(blocks[u]) /\ blocks'[u][i] = blocks[u][i] /\ blocks[u][i] \in Blocks
    <3>1. LET a == blocks[u][i] IN
          /\ a.kind = "current" => a.home \in heap[a.scope].spans
          /\ a.kind = "current" /\ a.saved # Unset => heap[a.saved].spans # {}
          /\ a.kind # "current" /\ a.saved # Unset => heap[a.saved].spans = {}
      BY <2>2, BlockApart
    <3>2. /\ blocks[u][i].scope \in 1..Len(heap)
          /\ blocks[u][i].saved # Unset => blocks[u][i].saved \in 1..Len(heap)
      BY <2>2 DEF Blocks, Unset
    <3>. QED
      BY <2>2, <3>1, <3>2
  <2>. QED
    BY <1>1, <2>1, <2>2, DeeperCases
<1>. QED
  BY <1>1 DEF ScopesApart

\* Owners stay owners, and what is new belongs to the work that made it.
LEMMA OwnershipDeeper ==
  ASSUME TypeOK, Ownership, NEW t \in Tasks, NEW b, Deeper(t, b), b.home = home[t],
         app' = app, heap' \in Seq(Scopes), Len(heap) <= Len(heap'), home' \in [Tasks -> Works],
         \A ref \in 1..Len(heap) : heap'[ref] = heap[ref],
         \A ref \in 1..Len(heap') : ref > Len(heap) /\ ref < Len(heap') => heap'[ref] = Blank,
         Len(heap') > Len(heap) /\ heap'[Len(heap')].spans = {} =>
           Holds(heap'[Len(heap')], Side(home'[t])),
         \A u \in Tasks \ {t} : Keeps(u)' => Keeps(u) /\ home'[u] = home[u] /\ iso'[u] = iso[u],
         iso'[t] # Len(heap') =>
           /\ Keeps(t) /\ home'[t] = home[t]
           /\ iso'[t] = iso[t] \/ iso'[t] \in (Len(heap) + 1)..(Len(heap') - 1),
         iso'[t] = Len(heap') => Len(heap') > Len(heap),
         b.kind \notin {"current", "flask"} =>
           \/ b.saved = Unset
           \/ b.saved \in (Len(heap) + 1)..(Len(heap') - 1)
           \/ \E u \in Tasks : Keeps(u) /\ iso[u] = b.saved /\ home[u] = home[t]
  PROVE  Ownership'
<1>1. /\ heap \in Seq(Scopes) /\ Len(heap) \in Nat /\ Len(heap') \in Nat
      /\ iso \in [Tasks -> 0..Len(heap)] /\ home \in [Tasks -> Works]
  BY DEF TypeOK
<1>2. PICK owner \in [1..Len(heap) -> Works] : Owned(owner)
  BY DEF Ownership
<1>3. PICK next \in [1..Len(heap') -> Works] :
        /\ \A ref \in 1..Len(heap) : next[ref] = owner[ref]
        /\ Len(heap') > Len(heap) => next[Len(heap')] = Side(home'[t])
        /\ \A ref \in 1..Len(heap') : ref > Len(heap) /\ ref < Len(heap') => next[ref] = Side(home[t])
  <2>. DEFINE w == [ref \in 1..Len(heap') |->
                     IF ref <= Len(heap) THEN owner[ref]
                     ELSE IF ref = Len(heap') THEN Side(home'[t]) ELSE Side(home[t])]
  <2>1. w \in [1..Len(heap') -> Works]
    <3>1. Side(home[t]) \in Works /\ Side(home'[t]) \in Works
      BY <1>1, SideFacts
    <3>. QED
      BY <1>1, <1>2, <3>1
  <2>2. /\ \A ref \in 1..Len(heap) : w[ref] = owner[ref]
        /\ Len(heap') > Len(heap) => w[Len(heap')] = Side(home'[t])
        /\ \A ref \in 1..Len(heap') : ref > Len(heap) /\ ref < Len(heap') => w[ref] = Side(home[t])
    BY <1>1
  <2>. HIDE DEF w
  <2>. QED
    BY <2>1, <2>2
<1>4. ASSUME NEW ref \in 1..Len(heap'), heap'[ref].spans = {}
      PROVE  Holds(heap'[ref], next[ref])
  <2>1. CASE ref \in 1..Len(heap)
    BY <1>2, <1>3, <1>4, <2>1 DEF Owned
  <2>2. CASE ref = Len(heap') /\ Len(heap') > Len(heap)
    BY <1>3, <1>4, <2>2
  <2>3. CASE ref > Len(heap) /\ ref < Len(heap')
    BY <2>3, BlankHolds
  <2>. QED
    BY <1>1, <2>1, <2>2, <2>3
<1>5. \A u \in Tasks : Keeps(u) /\ iso[u] # Unset => Suits(next[iso[u]], home[u])
  BY <1>1, <1>2, <1>3 DEF Owned, Unset
<1>6. \A u \in Tasks : Keeps(u)' /\ iso'[u] # Unset => Suits(next[iso'[u]], home'[u])
  <2>1. \A ref \in (Len(heap) + 1)..(Len(heap') - 1) : next[ref] = Side(home[t])
    <3>1. \A ref \in (Len(heap) + 1)..(Len(heap') - 1) :
            ref \in 1..Len(heap') /\ ref > Len(heap) /\ ref < Len(heap')
      BY <1>1
    <3>. QED
      BY <1>3, <3>1
  <2>2. \A u \in Tasks \ {t} : Keeps(u)' /\ iso'[u] # Unset => Suits(next[iso'[u]], home'[u])
    BY <1>5
  <2>3. iso'[t] = Len(heap') => Suits(next[iso'[t]], home'[t])
    BY <1>3 DEF Suits
  <2>4. iso'[t] # Len(heap') /\ iso'[t] # Unset => Suits(next[iso'[t]], home'[t])
    BY <1>5, <2>1 DEF Suits
  <2>. QED
    BY <2>2, <2>3, <2>4
<1>7. ASSUME NEW u \in Tasks, NEW i \in 1..Len(blocks'[u]),
             blocks'[u][i].kind \notin {"current", "flask"}, blocks'[u][i].saved # Unset
      PROVE  Suits(next[blocks'[u][i].saved], blocks'[u][i].home)
  <2>1. CASE blocks'[u][i] = b
    <3>1. b.saved # Unset /\ b.kind \notin {"current", "flask"}
      BY <1>7, <2>1
    <3>2. b.saved \in (Len(heap) + 1)..(Len(heap') - 1) => Suits(next[b.saved], home[t])
      <4>1. \A ref \in (Len(heap) + 1)..(Len(heap') - 1) :
              ref \in 1..Len(heap') /\ ref > Len(heap) /\ ref < Len(heap')
        BY <1>1
      <4>. QED
        BY <1>3, <4>1 DEF Suits
    <3>3. (\E v \in Tasks : Keeps(v) /\ iso[v] = b.saved /\ home[v] = home[t])
            => Suits(next[b.saved], home[t])
      BY <1>5, <3>1
    <3>4. Suits(next[b.saved], home[t])
      BY <3>1, <3>2, <3>3
    <3>. QED
      BY <2>1, <3>4
  <2>2. CASE i \in 1..Len(blocks[u]) /\ blocks'[u][i] = blocks[u][i] /\ blocks[u][i] \in Blocks
    <3>1. blocks[u][i].saved \in 1..Len(heap)
      BY <1>1, <1>7, <2>2 DEF Blocks, Unset
    <3>2. Suits(owner[blocks[u][i].saved], blocks[u][i].home)
      BY <1>2, <1>7, <2>2 DEF Owned
    <3>. QED
      BY <1>3, <2>2, <3>1, <3>2
  <2>. QED
    BY <1>7, <2>1, <2>2, DeeperCases
<1>8. Owned(next)'
  BY <1>4, <1>6, <1>7 DEF Owned, Holds, Suits, Side
<1>. QED
  BY <1>3, <1>8 DEF Ownership

\* The isolation scope a task works on holds what its work put there.
LEMMA OwnScope ==
  ASSUME IInv, NEW t \in Tasks, Keeps(t) \/ iso[t] = Unset
  PROVE  Holds(Lazy(iso[t])[Ref(iso[t])], Side(home[t]))
<1>1. heap \in Seq(Scopes) /\ iso \in [Tasks -> 0..Len(heap)] /\ Len(heap) \in Nat
  BY DEF IInv, TypeOK
<1>2. CASE iso[t] = Unset
  <2>1. Lazy(iso[t])[Ref(iso[t])] = Blank
    BY <1>1, <1>2, LazyFacts
  <2>. QED
    BY <2>1, BlankHolds
<1>3. CASE iso[t] # Unset
  <2>1. PICK owner \in [1..Len(heap) -> Works] : Owned(owner)
    BY DEF IInv, Ownership
  <2>2. iso[t] \in 1..Len(heap) /\ heap[iso[t]].spans = {}
    BY <1>1, <1>3 DEF IInv, ScopesApart, Unset
  <2>3. Suits(owner[iso[t]], home[t]) /\ Holds(heap[iso[t]], owner[iso[t]])
    BY <1>3, <2>1, <2>2 DEF Owned
  <2>4. Lazy(iso[t])[Ref(iso[t])] = heap[iso[t]]
    BY <1>1, <1>3, LazyFacts
  <2>. QED
    BY <2>3, <2>4 DEF Suits, Holds
<1>. QED
  BY <1>2, <1>3

-----------------------------------------------------------------------------
(***************************************************************************)
(* Requests and jobs: a block on an isolation scope of their own           *)
(***************************************************************************)
\* A task that begins to work on a new isolation scope, the heap's last.
LEMMA IsolationBlockKeeps ==
  ASSUME IInv, NEW t \in Tasks, NEW b, Deeper(t, b), b.home = home[t], b.kind # "current",
         heap' \in Seq(Scopes), Len(heap) < Len(heap'),
         \A ref \in 1..Len(heap) : heap'[ref] = heap[ref],
         \A ref \in 1..Len(heap') : ref > Len(heap) /\ ref < Len(heap') => heap'[ref] = Blank,
         heap'[Len(heap')].spans = {},
         Holds(heap'[Len(heap')], Side(home'[t])),
         b.saved # Unset => heap'[b.saved].spans = {},
         b.kind # "flask" =>
           \/ b.saved = Unset
           \/ b.saved \in (Len(heap) + 1)..(Len(heap') - 1)
           \/ \E u \in Tasks : Keeps(u) /\ iso[u] = b.saved /\ home[u] = home[t],
         InRequest(t) => b.saved # Unset,
         b.kind \in {"middleware", "flask"} => blocks[t] = <<>> /\ home[t] = StartUp /\ t # Main,
         b.kind = "flask" => app = "flask", b.kind = "middleware" => app # "flask",
         iso' = [iso EXCEPT ![t] = Len(heap')],
         cur' \in [Tasks -> 0..Len(heap')], \A u \in Tasks : cur'[u] \in {cur[u], cur[Main]},
         home' \in [Tasks -> Works], \A u \in Tasks \ {t} : home'[u] = home[u],
         t = Main => home'[t] = home[t],
         NEW s \in {"running", "streaming"}, status' = [status EXCEPT ![t] = s],
         app' = app, carriers' = carriers, served' \in 0..MaxRequests
  PROVE  IInv'
<1>. USE DEF IInv
<1>1. /\ heap \in Seq(Scopes) /\ Len(heap) \in Nat /\ Len(heap') \in Nat
      /\ iso \in [Tasks -> 0..Len(heap)] /\ cur \in [Tasks -> 0..Len(heap)]
      /\ status \in [Tasks -> {"new", "running", "streaming", "idle", "ended"}]
  BY DEF TypeOK
<1>2. iso' \in [Tasks -> 0..Len(heap')] /\ iso'[t] = Len(heap')
      /\ \A u \in Tasks \ {t} : iso'[u] = iso[u]
  BY <1>1
<1>3. TypeOK'
  <2>1. \A u \in Tasks : InRequest(u)' => iso'[u] # Unset
    <3>1. ASSUME NEW u \in Tasks, u # t, InRequest(u)' PROVE InRequest(u)
      BY <3>1 DEF Deeper, InRequest
    <3>. QED
      BY <1>1, <1>2, <3>1 DEF TypeOK, Unset
  <2>2. status' \in [Tasks -> {"new", "running", "streaming", "idle", "ended"}]
    BY <1>1
  <2>. QED
    BY <1>2, <2>1, <2>2 DEF TypeOK, Deeper
<1>4. Homes'
  <2>1. Running(Main)' /\ home'[Main] = StartUp
    BY <1>1, TasksAssumption DEF Homes, Running
  <2>2. ASSUME NEW u \in Tasks
        PROVE  /\ status'[u] \in {"new", "idle"} => home'[u] = StartUp
               /\ status'[u] = "new" => iso'[u] = Unset
               /\ ~Running(u)' => blocks'[u] = <<>>
    <3>1. CASE u = t
      BY <1>1, <3>1 DEF Running
    <3>2. CASE u # t
      <4>1. blocks[u] = <<>> => blocks'[u] = <<>>
        BY <3>2 DEF Deeper
      <4>. QED
        BY <1>1, <1>2, <3>2, <4>1 DEF Homes, Running
    <3>. QED
      BY <3>1, <3>2
  <2>. QED
    BY <2>1, <2>2 DEF Homes
<1>5. Nesting'
  BY NestingDeeper, TasksAssumption DEF Homes
<1>6. ScopesApart'
  <2>1. \A u \in Tasks : iso'[u] # Unset => heap'[iso'[u]].spans = {}
    <3>1. ASSUME NEW u \in Tasks, u # t, iso'[u] # Unset
          PROVE  iso[u] \in 1..Len(heap) /\ iso'[u] = iso[u] /\ heap[iso[u]].spans = {}
      BY <1>1, <1>2, <3>1 DEF ScopesApart, Unset
    <3>. QED
      BY <1>2, <3>1
  <2>2. \A u \in Tasks : cur'[u] # Unset => heap'[cur'[u]].spans # {}
    <3>1. ASSUME NEW u \in Tasks, cur[u] # Unset
          PROVE  cur[u] \in 1..Len(heap) /\ heap[cur[u]].spans # {}
      <4>1. cur[u] \in 0..Len(heap) /\ heap[cur[u]].spans # {}
        BY <1>1, <3>1 DEF ScopesApart
      <4>. QED
        BY <1>1, <3>1, <4>1 DEF Unset
    <3>2. \A u \in Tasks : cur[u] # Unset => heap'[cur[u]].spans # {}
      BY <3>1
    <3>. QED
      BY <3>2, TasksAssumption
  <2>3. \A ref \in 1..Len(heap) : heap'[ref].spans = heap[ref].spans
    OBVIOUS
  <2>. QED
    BY <1>1, <2>1, <2>2, <2>3, ApartDeeper
<1>7. CurrentsSound'
  <2>1. ASSUME NEW ref \in 1..Len(heap'), heap'[ref].spans # {} PROVE ref \in 1..Len(heap)
    <3>1. ref \in 1..Len(heap) \/ (ref > Len(heap) /\ ref < Len(heap')) \/ ref = Len(heap')
      BY <1>1, <2>1
    <3>. QED
      BY <2>1, <3>1 DEF Blank
  <2>. QED
    BY <2>1 DEF CurrentsSound
<1>8. CarriersSound'
  BY DEF CarriersSound, Holds, Side
<1>9. Ownership'
  <2>1. \A u \in Tasks \ {t} : Keeps(u)' => Keeps(u) /\ home'[u] = home[u] /\ iso'[u] = iso[u]
    BY <1>1, <1>2 DEF Keeps, Running
  <2>. QED
    <3>1. /\ Len(heap) <= Len(heap') /\ Len(heap') > Len(heap)
          /\ iso'[t] = Len(heap')
      BY <1>1, <1>2
    <3>2. TypeOK /\ Ownership
      OBVIOUS
    <3>. QED
      BY <2>1, <3>1, <3>2, OwnershipDeeper
<1>. QED
  BY <1>3, <1>4, <1>5, <1>6, <1>7, <1>8, <1>9

\* What a task that forks its isolation scope, or one of code that works for the same,
\* leaves in the heap.
LEMMA IsolationForkKeeps ==
  ASSUME IInv, NEW t \in Tasks, NEW u \in Tasks, NEW kind \in Kinds \ {"current", "flask"},
         Keeps(u) \/ iso[u] = Unset, home[u] = home[t], InRequest(t) => u = t,
         heap' \in Seq(Scopes), Len(heap') = Len(Lazy(iso[u])) + 1,
         \A ref \in 1..Len(Lazy(iso[u])) : heap'[ref] = Lazy(iso[u])[ref],
         heap'[Len(heap')].user.by \in
           {Lazy(iso[u])[Ref(iso[u])].user.by, home'[t], StartUp},
         heap'[Len(heap')].crumbs = {},
         heap'[Len(heap')].spans = Lazy(iso[u])[Ref(iso[u])].spans,
         Opens(t, kind, Len(heap'), Ref(iso[u])),
         kind = "middleware" => blocks[t] = <<>> /\ home[t] = StartUp /\ t # Main /\ app # "flask",
         home[t] \in {home'[t], StartUp},
         iso' = [iso EXCEPT ![t] = Len(heap')],
         cur' \in [Tasks -> 0..Len(heap')], \A v \in Tasks : cur'[v] \in {cur[v], cur[Main]},
         home' \in [Tasks -> Works], \A v \in Tasks \ {t} : home'[v] = home[v],
         t = Main => home'[t] = home[t],
         NEW s \in {"running", "streaming"}, status' = [status EXCEPT ![t] = s],
         app' = app, carriers' = carriers, served' \in 0..MaxRequests
  PROVE  IInv'
<1>. DEFINE b == [kind |-> kind, scope |-> Len(heap'), saved |-> Ref(iso[u]), home |-> home[t]]
<1>1. heap \in Seq(Scopes) /\ iso \in [Tasks -> 0..Len(heap)] /\ Len(heap) \in Nat
      /\ Len(heap') \in Nat
  BY DEF IInv, TypeOK
<1>2. /\ Ref(iso[u]) \in 1..Len(Lazy(iso[u]))
      /\ Len(Lazy(iso[u])) \in {Len(heap), Len(heap) + 1}
      /\ \A ref \in 1..Len(heap) : Lazy(iso[u])[ref] = heap[ref]
      /\ iso[u] # Unset => Lazy(iso[u]) = heap /\ Ref(iso[u]) = iso[u]
      /\ iso[u] = Unset => /\ Ref(iso[u]) = Len(heap) + 1 /\ Len(Lazy(iso[u])) = Len(heap) + 1
                           /\ Lazy(iso[u])[Len(heap) + 1] = Blank
  BY <1>1, LazyFacts
<1>3. /\ Len(heap) < Len(heap') /\ Len(heap') \in 1..Len(heap')
      /\ Ref(iso[u]) \in 1..(Len(heap') - 1) /\ Ref(iso[u]) \in 0..Len(heap')
      /\ \A ref \in 1..Len(heap) : heap'[ref] = heap[ref]
  BY <1>1, <1>2
<1>4. \A ref \in 1..Len(heap') : ref > Len(heap) /\ ref < Len(heap') => heap'[ref] = Blank
  BY <1>1, <1>2
<1>5. Deeper(t, b)
  <2>1. TypeOK /\ kind \in Kinds /\ Len(heap) <= Len(heap')
    BY <1>1, <1>3 DEF IInv
  <2>. QED
    BY <1>3, <2>1, OpensDeeper
<1>6. Lazy(iso[u])[Ref(iso[u])].spans = {}
  BY <1>2 DEF IInv, ScopesApart, Blank
<1>7. Holds(Lazy(iso[u])[Ref(iso[u])], Side(home[t]))
  BY OwnScope
<1>8. heap'[b.saved].spans = {}
  BY <1>2, <1>6
<1>9. \/ b.saved \in (Len(heap) + 1)..(Len(heap') - 1)
      \/ \E v \in Tasks : Keeps(v) /\ iso[v] = b.saved /\ home[v] = home[t]
  BY <1>1, <1>2
<1>10. b.saved # Unset
  BY <1>3 DEF Unset
<1>11. /\ b.home = home[t] /\ b.kind \notin {"current", "flask"}
       /\ b.kind = "middleware" =>
            blocks[t] = <<>> /\ home[t] = StartUp /\ t # Main /\ app # "flask"
  OBVIOUS
<1>12. heap'[Len(heap')].spans = {}
  BY <1>6
<1>13. Holds(heap'[Len(heap')], Side(home'[t]))
  <2>1. home[t] \in Works /\ home'[t] \in Works
    BY DEF IInv, TypeOK
  <2>2. Side(home[t]) \in {Side(home'[t]), StartUp}
        /\ (Side(home[t]) = Outside => Side(home'[t]) = Outside)
        /\ home'[t] \in {Side(home'[t]), Outside}
    BY <2>1, SideFacts, WorksFacts
  <2>. QED
    BY <1>7, <2>2 DEF Holds
<1>. HIDE DEF b
<1>. QED
  BY <1>3, <1>4, <1>5, <1>8, <1>9, <1>10, <1>11, <1>12, <1>13, IsolationBlockKeeps

LEMMA ServeTaskKeeps ==
  ASSUME IInv, NEW t \in Tasks, ServeTask(t)
  PROVE  IInv'
<1>1. TypeOK /\ Homes
  BY DEF IInv
<1>2. /\ heap \in Seq(Scopes) /\ iso \in [Tasks -> 0..Len(heap)]
      /\ cur \in [Tasks -> 0..Len(heap)] /\ home \in [Tasks -> Works]
      /\ Len(heap) \in Nat /\ MaxRequests \in Nat
  BY <1>1, SizesAssumption DEF TypeOK
<1>3. Lazy(iso[Main]) \in Seq(Scopes) /\ Ref(iso[Main]) \in 1..Len(Lazy(iso[Main]))
      /\ Len(Lazy(iso[Main])) >= Len(heap) /\ Len(Lazy(iso[Main])) \in Nat
  BY <1>2, LazyFacts, TasksAssumption
<1>4. /\ heap' = Fork(Lazy(iso[Main]), Ref(iso[Main])).heap
      /\ heap' \in Seq(Scopes) /\ Len(heap') = Len(Lazy(iso[Main])) + 1
      /\ Fork(Lazy(iso[Main]), Ref(iso[Main])).ref = Len(heap')
      /\ \A ref \in 1..Len(Lazy(iso[Main])) : heap'[ref] = Lazy(iso[Main])[ref]
      /\ heap'[Len(heap')].user.by = Lazy(iso[Main])[Ref(iso[Main])].user.by
      /\ heap'[Len(heap')].crumbs = {}
      /\ heap'[Len(heap')].spans = Lazy(iso[Main])[Ref(iso[Main])].spans
  BY <1>3, ForkFacts DEF ServeTask, EntersIsolation
<1>5. /\ Opens(t, "middleware", Len(heap'), Ref(iso[Main]))
      /\ iso' = [iso EXCEPT ![t] = Len(heap')]
  BY <1>4 DEF ServeTask, EntersIsolation
<1>6. /\ blocks[t] = <<>> /\ home[t] = StartUp /\ home[Main] = StartUp
      /\ ~InRequest(t) /\ Keeps(Main) /\ t # Main /\ app # "flask"
  BY <1>1, TasksAssumption DEF Homes, ServeTask, Begins, InRequest, Keeps, Running
<1>7. /\ cur' = [cur EXCEPT ![t] = cur[Main]]
      /\ cur' \in [Tasks -> 0..Len(heap)] /\ \A v \in Tasks : cur'[v] \in {cur[v], cur[Main]}
  BY <1>2, TasksAssumption DEF ServeTask
<1>8. /\ home' \in [Tasks -> Works] /\ \A v \in Tasks \ {t} : home'[v] = home[v]
      /\ status' = [status EXCEPT ![t] = "running"] /\ app' = app /\ carriers' = carriers
      /\ served' \in 0..MaxRequests
  <2>1. served \in 0..MaxRequests /\ served < MaxRequests /\ served + 1 \in 0..MaxRequests
    BY <1>1, <1>2 DEF ServeTask, Begins, TypeOK
  <2>. QED
    BY <1>1, <1>2, <2>1, WorksFacts DEF ServeTask, Begins
<1>9. cur' \in [Tasks -> 0..Len(heap')]
  BY <1>2, <1>3, <1>4, <1>7
<1>10. "middleware" \in Kinds \ {"current", "flask"}
  BY DEF Kinds
<1>. QED
  <2>1. /\ home[Main] = home[t] /\ (InRequest(t) => Main = t)
        /\ Keeps(Main) \/ iso[Main] = Unset
        /\ home[t] \in {home'[t], StartUp}
        /\ t = Main => home'[t] = home[t]
        /\ heap'[Len(heap')].user.by \in {Lazy(iso[Main])[Ref(iso[Main])].user.by, home'[t], StartUp}
    BY <1>4, <1>6
  <2>2. Main \in Tasks
    BY TasksAssumption
  <2>. QED
    BY <1>4, <1>5, <1>6, <1>7, <1>8, <1>9, <1>10, <2>1, <2>2, IsolationForkKeeps

LEMMA ServeThreadKeeps ==
  ASSUME IInv, NEW t \in Tasks, ServeThread(t)
  PROVE  IInv'
<1>1. TypeOK /\ Homes
  BY DEF IInv
<1>2. /\ heap \in Seq(Scopes) /\ iso \in [Tasks -> 0..Len(heap)]
      /\ cur \in [Tasks -> 0..Len(heap)] /\ home \in [Tasks -> Works]
      /\ status \in [Tasks -> {"new", "running", "streaming", "idle", "ended"}]
      /\ Len(heap) \in Nat /\ MaxRequests \in Nat
  BY <1>1, SizesAssumption DEF TypeOK
<1>3. Lazy(iso[t]) \in Seq(Scopes) /\ Ref(iso[t]) \in 1..Len(Lazy(iso[t]))
      /\ Len(Lazy(iso[t])) >= Len(heap) /\ Len(Lazy(iso[t])) \in Nat
  BY <1>2, LazyFacts
<1>4. /\ heap' = Fork(Lazy(iso[t]), Ref(iso[t])).heap
      /\ heap' \in Seq(Scopes) /\ Len(heap') = Len(Lazy(iso[t])) + 1
      /\ Fork(Lazy(iso[t]), Ref(iso[t])).ref = Len(heap')
      /\ \A ref \in 1..Len(Lazy(iso[t])) : heap'[ref] = Lazy(iso[t])[ref]
      /\ heap'[Len(heap')].user.by = Lazy(iso[t])[Ref(iso[t])].user.by
      /\ heap'[Len(heap')].crumbs = {}
      /\ heap'[Len(heap')].spans = Lazy(iso[t])[Ref(iso[t])].spans
  BY <1>3, ForkFacts DEF ServeThread, EntersIsolation
<1>5. /\ Opens(t, "middleware", Len(heap'), Ref(iso[t]))
      /\ iso' = [iso EXCEPT ![t] = Len(heap')]
  BY <1>4 DEF ServeThread, EntersIsolation
<1>6. /\ blocks[t] = <<>> /\ home[t] = StartUp /\ ~InRequest(t)
      /\ Keeps(t) \/ iso[t] = Unset
      /\ t # Main /\ app # "flask" /\ home[t] \in {home'[t], StartUp}
  BY <1>1 DEF Homes, ServeThread, Begins, InRequest, Keeps, Running
<1>7. /\ cur' \in [Tasks -> 0..Len(heap')] /\ \A v \in Tasks : cur'[v] \in {cur[v], cur[Main]}
  BY <1>2, <1>3, <1>4 DEF ServeThread
<1>8. /\ home' \in [Tasks -> Works] /\ \A v \in Tasks \ {t} : home'[v] = home[v]
      /\ status' = [status EXCEPT ![t] = "running"] /\ app' = app /\ carriers' = carriers
      /\ served' \in 0..MaxRequests
  <2>1. served \in 0..MaxRequests /\ served < MaxRequests /\ served + 1 \in 0..MaxRequests
    BY <1>1, <1>2 DEF ServeThread, Begins, TypeOK
  <2>. QED
    BY <1>1, <1>2, <2>1, WorksFacts DEF ServeThread, Begins
<1>9. "middleware" \in Kinds \ {"current", "flask"}
      /\ heap'[Len(heap')].user.by \in {Lazy(iso[t])[Ref(iso[t])].user.by, home'[t], StartUp}
  BY <1>4 DEF Kinds
<1>. QED
  BY <1>4, <1>5, <1>6, <1>7, <1>8, <1>9, IsolationForkKeeps

\* The user a block is opened for is set by its own work.
LEMMA IdentifiedKeeps ==
  ASSUME IInv, NEW t \in Tasks, NEW person \in People \cup {Nobody}, Identified(t, person)
  PROVE  IInv'
<1>1. TypeOK /\ Homes
  BY DEF IInv
<1>2. /\ heap \in Seq(Scopes) /\ iso \in [Tasks -> 0..Len(heap)]
      /\ cur \in [Tasks -> 0..Len(heap)] /\ home \in [Tasks -> Works]
      /\ status \in [Tasks -> {"new", "running", "streaming", "idle", "ended"}]
      /\ Len(heap) \in Nat /\ MaxRequests \in Nat
  BY <1>1, SizesAssumption DEF TypeOK
<1>3. Lazy(iso[t]) \in Seq(Scopes) /\ Ref(iso[t]) \in 1..Len(Lazy(iso[t]))
      /\ Len(Lazy(iso[t])) >= Len(heap) /\ Len(Lazy(iso[t])) \in Nat
  BY <1>2, LazyFacts
<1>. DEFINE f == Fork(Lazy(iso[t]), Ref(iso[t]))
<1>4. /\ f.heap \in Seq(Scopes) /\ Len(f.heap) = Len(Lazy(iso[t])) + 1
      /\ f.ref = Len(f.heap)
      /\ \A ref \in 1..Len(Lazy(iso[t])) : f.heap[ref] = Lazy(iso[t])[ref]
      /\ f.heap[Len(f.heap)].user.by = Lazy(iso[t])[Ref(iso[t])].user.by
      /\ f.heap[Len(f.heap)].crumbs = {}
      /\ f.heap[Len(f.heap)].spans = Lazy(iso[t])[Ref(iso[t])].spans
  BY <1>3, ForkFacts
<1>5. /\ heap' = IF person = Nobody THEN f.heap
                 ELSE [f.heap EXCEPT ![f.ref] = Named(@, person, t)]
      /\ iso' = [iso EXCEPT ![t] = f.ref] /\ Opens(t, "identified", f.ref, Ref(iso[t]))
      /\ Running(t) /\ UNCHANGED <<app, cur, home, status, served, carriers>>
  BY DEF Identified, MayOpen
<1>. HIDE DEF f
<1>6. /\ heap' \in Seq(Scopes) /\ Len(heap') = Len(Lazy(iso[t])) + 1 /\ f.ref = Len(heap')
      /\ \A ref \in 1..Len(Lazy(iso[t])) : heap'[ref] = Lazy(iso[t])[ref]
      /\ heap'[Len(heap')].user.by \in {Lazy(iso[t])[Ref(iso[t])].user.by, home[t], StartUp}
      /\ heap'[Len(heap')].crumbs = {}
      /\ heap'[Len(heap')].spans = Lazy(iso[t])[Ref(iso[t])].spans
  <2>1. CASE person = Nobody
    BY <1>4, <1>5, <2>1
  <2>2. CASE person # Nobody
    <3>. DEFINE n == Named(f.heap[f.ref], person, t)
    <3>1. f.heap[f.ref] \in Scopes /\ f.ref \in 1..Len(f.heap)
      BY <1>3, <1>4
    <3>2. n \in Scopes /\ n.user.by \in {home[t], StartUp} /\ n.crumbs = {}
          /\ n.spans = Lazy(iso[t])[Ref(iso[t])].spans
      <4>1. n \in Scopes /\ n.user.by \in {home[t], StartUp}
            /\ n.crumbs = f.heap[f.ref].crumbs /\ n.spans = f.heap[f.ref].spans
        BY <1>2, <3>1, NamedFacts
      <4>. HIDE DEF n
      <4>. QED
        BY <1>4, <4>1
    <3>3. heap' = [f.heap EXCEPT ![f.ref] = n]
      BY <1>5, <2>2
    <3>. HIDE DEF n
    <3>4. heap' \in Seq(Scopes) /\ Len(heap') = Len(f.heap) /\ heap'[f.ref] = n
          /\ \A ref \in 1..Len(f.heap) : ref # f.ref => heap'[ref] = f.heap[ref]
      <4>1. LET r == [f.heap EXCEPT ![f.ref] = n] IN
            /\ r \in Seq(Scopes) /\ Len(r) = Len(f.heap)
            /\ \A ref \in 1..Len(f.heap) : r[ref] = IF ref = f.ref THEN n ELSE f.heap[ref]
        <5>1. f.heap \in Seq(Scopes) /\ f.ref \in 1..Len(f.heap) /\ n \in Scopes
          BY <1>4, <3>1, <3>2
        <5>. QED
          BY ONLY <5>1, ExceptSeq
      <4>. QED
        BY ONLY <3>1, <3>3, <4>1
    <3>. QED
      BY <1>3, <1>4, <3>2, <3>4
  <2>. QED
    BY <2>1, <2>2
<1>7. iso' = [iso EXCEPT ![t] = Len(heap')] /\ Opens(t, "identified", Len(heap'), Ref(iso[t]))
  BY <1>5, <1>6
<1>8. /\ Keeps(t) /\ home'[t] = home[t] /\ home[t] \in {home'[t], StartUp}
      /\ cur' \in [Tasks -> 0..Len(heap')] /\ \A v \in Tasks : cur'[v] \in {cur[v], cur[Main]}
      /\ home' \in [Tasks -> Works] /\ \A v \in Tasks \ {t} : home'[v] = home[v]
      /\ status[t] \in {"running", "streaming"} /\ status' = [status EXCEPT ![t] = status[t]]
      /\ app' = app /\ carriers' = carriers /\ served' \in 0..MaxRequests
  BY <1>1, <1>2, <1>3, <1>5, <1>6 DEF Keeps, Running, TypeOK
<1>9. "identified" \in Kinds \ {"current", "flask"}
  BY DEF Kinds
<1>. QED
  BY <1>6, <1>7, <1>8, <1>9, IsolationForkKeeps

LEMMA BeforeRequestKeeps ==
  ASSUME IInv, NEW t \in Tasks, BeforeRequest(t)
  PROVE  IInv'
<1>1. TypeOK /\ Homes /\ ScopesApart
  BY DEF IInv
<1>2. /\ heap \in Seq(Scopes) /\ iso \in [Tasks -> 0..Len(heap)]
      /\ cur \in [Tasks -> 0..Len(heap)] /\ home \in [Tasks -> Works]
      /\ Len(heap) \in Nat /\ MaxRequests \in Nat
  BY <1>1, SizesAssumption DEF TypeOK
<1>3. Blank \in Scopes
  BY PeopleAssumption, WorksFacts DEF Blank, Scopes, UserRecords, NoUser
<1>4. /\ heap' \in Seq(Scopes) /\ Len(heap') = Len(heap) + 1
      /\ \A ref \in 1..Len(heap) : heap'[ref] = heap[ref]
      /\ heap'[Len(heap')] = Blank
  BY <1>2, <1>3 DEF BeforeRequest
<1>. DEFINE b == [kind |-> "flask", scope |-> Len(heap'), saved |-> iso[t], home |-> home[t]]
<1>5. Deeper(t, b)
  <2>1. Len(heap') = Len(heap) + 1 /\ Len(heap) <= Len(heap') /\ Len(heap') \in 1..Len(heap')
        /\ iso[t] \in 0..Len(heap') /\ "flask" \in Kinds
    BY <1>2, <1>4 DEF Kinds
  <2>2. Opens(t, "flask", Len(heap'), iso[t])
    BY <1>4 DEF BeforeRequest
  <2>. QED
    BY <1>1, <1>4, <2>1, <2>2, OpensDeeper
<1>6. /\ b.home = home[t] /\ b.kind = "flask" /\ b.saved = iso[t]
      /\ blocks[t] = <<>> /\ home[t] = StartUp /\ ~InRequest(t) /\ t # Main /\ app = "flask"
  BY <1>1 DEF Homes, BeforeRequest, Begins, InRequest, Running
<1>7. b.saved # Unset => heap'[b.saved].spans = {}
  BY <1>1, <1>2, <1>4, <1>6 DEF ScopesApart, Unset
<1>. HIDE DEF b
<1>8. /\ heap'[Len(heap')].spans = {} /\ Holds(heap'[Len(heap')], Side(home'[t]))
      /\ Len(heap) < Len(heap')
      /\ \A ref \in 1..Len(heap') : ~(ref > Len(heap) /\ ref < Len(heap'))
  <2>1. heap'[Len(heap')].spans = {} /\ Holds(heap'[Len(heap')], Side(home'[t]))
    <3>1. Blank.spans = {}
      BY DEF Blank
    <3>. QED
      BY <1>4, <3>1, BlankHolds
  <2>. QED
    BY <1>2, <1>4, <2>1
<1>9. /\ iso' = [iso EXCEPT ![t] = Len(heap')]
      /\ cur' \in [Tasks -> 0..Len(heap')] /\ \A v \in Tasks : cur'[v] \in {cur[v], cur[Main]}
      /\ home' \in [Tasks -> Works] /\ \A v \in Tasks \ {t} : home'[v] = home[v]
      /\ status' = [status EXCEPT ![t] = "running"] /\ app' = app /\ carriers' = carriers
      /\ served' \in 0..MaxRequests
  <2>1. served \in 0..MaxRequests /\ served < MaxRequests /\ served + 1 \in 0..MaxRequests
    BY <1>1, <1>2 DEF BeforeRequest, Begins, TypeOK
  <2>2. home' = [home EXCEPT ![t] = served + 1] /\ served' = served + 1
        /\ status' = [status EXCEPT ![t] = "running"]
        /\ iso' = [iso EXCEPT ![t] = Len(heap) + 1] /\ UNCHANGED <<app, cur, carriers>>
    BY DEF BeforeRequest, Begins
  <2>3. served + 1 \in Works
    BY <1>2, <2>1, WorksFacts
  <2>4. home' \in [Tasks -> Works] /\ \A v \in Tasks \ {t} : home'[v] = home[v]
    BY <1>2, <2>2, <2>3
  <2>5. cur' \in [Tasks -> 0..Len(heap')] /\ \A v \in Tasks : cur'[v] \in {cur[v], cur[Main]}
    BY <1>2, <1>4, <2>2
  <2>. QED
    BY <1>4, <2>1, <2>2, <2>4, <2>5
<1>. QED
  BY <1>4, <1>5, <1>6, <1>7, <1>8, <1>9, IsolationBlockKeeps

\* A job's scope holds what its sender's did.
LEMMA ContinueKeeps ==
  ASSUME IInv, NEW t \in Tasks, NEW data \in Received, Continue(t, data)
  PROVE  IInv'
<1>1. TypeOK /\ ScopesApart /\ CarriersSound
  BY DEF IInv
<1>2. /\ heap \in Seq(Scopes) /\ iso \in [Tasks -> 0..Len(heap)]
      /\ cur \in [Tasks -> 0..Len(heap)] /\ home \in [Tasks -> Works]
      /\ Len(heap) \in Nat /\ carriers \subseteq Payloads
  BY <1>1 DEF TypeOK
<1>3. /\ data.user \in UserRecords /\ data.crumbs \in SUBSET Works /\ data.from \in Works
      /\ Holds(data, Side(data.from))
  <2>. SUFFICES ASSUME NEW sent \in carriers,
                       \/ data = sent
                       \/ data = [sent EXCEPT !.crumbs = {}]
                       \/ data = [user |-> NoUser, crumbs |-> {}, from |-> sent.from]
                PROVE  /\ data.user \in UserRecords /\ data.crumbs \in SUBSET Works
                       /\ data.from \in Works /\ Holds(data, Side(data.from))
    BY DEF Received
  <2>1. sent \in Payloads /\ Holds(sent, Side(sent.from))
    BY <1>1, <1>2 DEF CarriersSound
  <2>2. NoUser \in UserRecords /\ NoUser.by = StartUp
    BY PeopleAssumption, WorksFacts DEF NoUser, UserRecords
  <2>3. CASE data = sent
    BY <2>1, <2>3 DEF Payloads
  <2>4. CASE data = [sent EXCEPT !.crumbs = {}]
    BY <2>1, <2>4 DEF Payloads, Holds
  <2>5. CASE data = [user |-> NoUser, crumbs |-> {}, from |-> sent.from]
    BY <2>1, <2>2, <2>5 DEF Payloads, Holds
  <2>. QED
    BY <2>3, <2>4, <2>5
<1>. DEFINE scope == [Blank EXCEPT !.user = data.user, !.crumbs = data.crumbs]
<1>4. scope \in Scopes /\ scope.user = data.user /\ scope.crumbs = data.crumbs /\ scope.spans = {}
  BY <1>3, SizesAssumption DEF Blank, Scopes
<1>5. /\ heap' = Append(heap, scope) /\ iso' = [iso EXCEPT ![t] = Len(heap) + 1]
      /\ home' = [home EXCEPT ![t] = data.from] /\ Opens(t, "job", Len(heap) + 1, iso[t])
      /\ Running(t) /\ t # Main /\ UNCHANGED <<app, cur, status, served, carriers>>
  BY DEF Continue, MayOpen
<1>. HIDE DEF scope
<1>6. /\ heap' \in Seq(Scopes) /\ Len(heap') = Len(heap) + 1
      /\ \A ref \in 1..Len(heap) : heap'[ref] = heap[ref]
      /\ heap'[Len(heap')] = scope
  BY <1>2, <1>4, <1>5
<1>. DEFINE b == [kind |-> "job", scope |-> Len(heap'), saved |-> iso[t], home |-> home[t]]
<1>7. Deeper(t, b)
  <2>1. Len(heap) <= Len(heap') /\ Len(heap') \in 1..Len(heap')
        /\ iso[t] \in 0..Len(heap') /\ "job" \in Kinds
    BY <1>2, <1>6 DEF Kinds
  <2>2. Opens(t, "job", Len(heap'), iso[t])
    BY <1>5, <1>6
  <2>. QED
    BY <1>1, <1>6, <2>1, <2>2, OpensDeeper
<1>8. /\ b.home = home[t] /\ b.kind \notin {"current", "flask", "middleware"} /\ b.saved = iso[t]
      /\ InRequest(t) => b.saved # Unset
      /\ Keeps(t)
  BY <1>1, <1>5 DEF Keeps, TypeOK
<1>9. b.saved # Unset => heap'[b.saved].spans = {}
  BY <1>1, <1>2, <1>6, <1>8 DEF ScopesApart, Unset
<1>. HIDE DEF b
<1>10. /\ home'[t] = data.from /\ \A v \in Tasks \ {t} : home'[v] = home[v]
       /\ home' \in [Tasks -> Works]
  BY <1>2, <1>3, <1>5
<1>11. /\ heap'[Len(heap')].spans = {} /\ Holds(heap'[Len(heap')], Side(home'[t]))
       /\ Len(heap) < Len(heap')
       /\ \A ref \in 1..Len(heap') : ~(ref > Len(heap) /\ ref < Len(heap'))
  <2>1. heap'[Len(heap')].spans = {} /\ Holds(heap'[Len(heap')], Side(home'[t]))
    BY <1>3, <1>4, <1>6, <1>10 DEF Holds
  <2>. QED
    BY <1>2, <1>6, <2>1
<1>12. /\ iso' = [iso EXCEPT ![t] = Len(heap')]
       /\ cur' \in [Tasks -> 0..Len(heap')] /\ \A v \in Tasks : cur'[v] \in {cur[v], cur[Main]}
       /\ status[t] \in {"running", "streaming"} /\ status' = [status EXCEPT ![t] = status[t]]
       /\ app' = app /\ carriers' = carriers
       /\ served' \in 0..MaxRequests
  BY <1>1, <1>2, <1>5, <1>6 DEF TypeOK, Running
<1>. QED
  BY <1>5, <1>6, <1>7, <1>8, <1>9, <1>10, <1>11, <1>12, IsolationBlockKeeps

-----------------------------------------------------------------------------
(***************************************************************************)
(* new_scope()                                                             *)
(***************************************************************************)
LEMMA NewScopeKeeps ==
  ASSUME IInv, NEW t \in Tasks, NewScope(t)
  PROVE  IInv'
<1>1. TypeOK /\ Homes /\ Nesting /\ ScopesApart /\ CurrentsSound /\ CarriersSound /\ Ownership
  BY DEF IInv
<1>2. /\ heap \in Seq(Scopes) /\ iso \in [Tasks -> 0..Len(heap)]
      /\ cur \in [Tasks -> 0..Len(heap)] /\ home \in [Tasks -> Works]
      /\ Len(heap) \in Nat /\ home[t] \in Works
  BY <1>1 DEF TypeOK
<1>. DEFINE bare == cur[t] = Unset
            from == IF bare THEN Lazy(iso[t]) ELSE heap
            parent == IF bare THEN Ref(iso[t]) ELSE cur[t]
            f == Fork(from, parent)
<1>3. /\ Lazy(iso[t]) \in Seq(Scopes) /\ Ref(iso[t]) \in 1..Len(Lazy(iso[t]))
      /\ Len(Lazy(iso[t])) \in {Len(heap), Len(heap) + 1}
      /\ \A ref \in 1..Len(heap) : Lazy(iso[t])[ref] = heap[ref]
      /\ iso[t] # Unset => Lazy(iso[t]) = heap /\ Ref(iso[t]) = iso[t]
      /\ iso[t] = Unset => /\ Ref(iso[t]) = Len(heap) + 1 /\ Len(Lazy(iso[t])) = Len(heap) + 1
                           /\ Lazy(iso[t])[Len(heap) + 1] = Blank
  BY <1>2, LazyFacts
<1>4. /\ from \in Seq(Scopes) /\ parent \in 1..Len(from) /\ from[parent] \in Scopes
      /\ Len(from) \in {Len(heap), Len(heap) + 1}
      /\ \A ref \in 1..Len(heap) : from[ref] = heap[ref]
      /\ Len(from) = Len(heap) + 1 => from[Len(heap) + 1] = Blank
  <2>1. cur[t] # Unset => cur[t] \in 1..Len(heap)
    BY <1>2 DEF Unset
  <2>2. from \in Seq(Scopes) /\ parent \in 1..Len(from)
    BY <1>2, <1>3, <2>1
  <2>3. from[parent] \in Scopes
    <3>. HIDE DEF from, parent
    <3>. QED
      BY <2>2
  <2>. QED
    BY <1>2, <1>3, <2>2, <2>3
<1>5. Outside \notin from[parent].spans \cup {home[t]}
        => from[parent].user.by \in from[parent].spans \cup {home[t], StartUp, Outside}
  <2>1. CASE bare
    <3>1. Holds(from[parent], Side(home[t]))
      BY <2>1, OwnScope DEF NewScope, MayOpen, Keeps
    <3>2. home[t] \in {Side(home[t]), Outside}
      BY <1>2, SideFacts
    <3>. HIDE DEF from, parent
    <3>. QED
      BY <3>1, <3>2 DEF Holds
  <2>3. CASE ~bare
    <3>1. cur[t] \in 1..Len(heap) /\ heap[cur[t]].spans # {}
      <4>1. cur[t] \in 0..Len(heap) /\ heap[cur[t]].spans # {}
        BY <1>1, <1>2, <2>3 DEF ScopesApart
      <4>. QED
        BY <1>2, <2>3, <4>1 DEF Unset
    <3>. QED
      BY <1>1, <2>3, <3>1 DEF CurrentsSound
  <2>. QED
    BY <2>1, <2>3
<1>6. f = IF bare THEN Fork(Lazy(iso[t]), Ref(iso[t])) ELSE Fork(heap, cur[t])
  OBVIOUS
<1>7. /\ heap' = [f.heap EXCEPT ![f.ref].spans = @ \cup {home[t]}]
      /\ iso' = IF bare THEN [iso EXCEPT ![t] = Ref(@)] ELSE iso
      /\ cur' = [cur EXCEPT ![t] = f.ref] /\ Opens(t, "current", f.ref, cur[t])
      /\ Running(t) /\ UNCHANGED <<app, home, status, served, carriers>>
  BY DEF NewScope, MayOpen
<1>8. /\ f.heap \in Seq(Scopes) /\ f.ref = Len(from) + 1 /\ Len(f.heap) = Len(from) + 1
      /\ \A ref \in 1..Len(from) : f.heap[ref] = from[ref]
      /\ f.heap[Len(from) + 1].user = from[parent].user
      /\ f.heap[Len(from) + 1].crumbs = {}
      /\ f.heap[Len(from) + 1].spans = from[parent].spans
  <2>. HIDE DEF from, parent
  <2>. QED
    BY <1>4, ForkFacts
<1>. HIDE DEF f
<1>9. /\ heap' \in Seq(Scopes) /\ Len(heap') = Len(from) + 1 /\ f.ref = Len(heap')
      /\ \A ref \in 1..Len(from) : heap'[ref] = from[ref]
      /\ heap'[Len(heap')].user = from[parent].user
      /\ heap'[Len(heap')].crumbs = {}
      /\ heap'[Len(heap')].spans = from[parent].spans \cup {home[t]}
  <2>. DEFINE s == [f.heap[f.ref] EXCEPT !.spans = @ \cup {home[t]}]
  <2>1. f.heap[f.ref] \in Scopes /\ f.ref \in 1..Len(f.heap) /\ Len(from) \in Nat
    BY <1>2, <1>4, <1>8
  <2>2. s \in Scopes /\ s.user = from[parent].user /\ s.crumbs = {}
        /\ s.spans = from[parent].spans \cup {home[t]}
    BY <1>2, <1>8, <2>1 DEF Scopes
  <2>3. heap' = [f.heap EXCEPT ![f.ref] = s]
    BY <1>7
  <2>. HIDE DEF s, from, parent
  <2>. QED
    BY <1>8, <2>1, <2>2, <2>3
<1>. HIDE DEF from, parent
<1>10. /\ Len(heap) < Len(heap') /\ Len(heap) <= Len(heap') /\ Len(heap') \in 1..Len(heap')
       /\ \A ref \in 1..Len(heap) : heap'[ref] = heap[ref]
       /\ \A ref \in 1..Len(heap') : ref > Len(heap) /\ ref < Len(heap') => heap'[ref] = Blank
       /\ cur[t] \in 0..Len(heap')
  <2>1. /\ Len(heap) \in Nat /\ Len(from) \in Nat /\ Len(heap') = Len(from) + 1
        /\ Len(from) = Len(heap) \/ Len(from) = Len(heap) + 1
    BY <1>2, <1>4, <1>9
  <2>2. \A ref \in 1..Len(heap) : heap'[ref] = heap[ref]
    BY <1>4, <1>9, <2>1
  <2>3. ASSUME NEW ref \in 1..Len(heap'), ref > Len(heap), ref < Len(heap')
        PROVE  heap'[ref] = Blank
    <3>1. ref = Len(heap) + 1 /\ Len(from) = Len(heap) + 1 /\ ref \in 1..Len(from)
      BY <2>1, <2>3
    <3>. QED
      BY <1>4, <1>9, <3>1
  <2>. QED
    BY <1>2, <2>1, <2>2, <2>3
<1>11. /\ iso' \in [Tasks -> 0..Len(heap')] /\ \A u \in Tasks \ {t} : iso'[u] = iso[u]
       /\ \/ iso'[t] = iso[t]
          \/ /\ iso'[t] \in (Len(heap) + 1)..(Len(heap') - 1) /\ iso[t] = Unset
             /\ heap'[iso'[t]] = Blank
  <2>1. CASE ~bare
    BY <1>2, <1>7, <1>10, <2>1
  <2>2. CASE bare /\ iso[t] # Unset
    BY <1>2, <1>3, <1>7, <1>10, <2>2
  <2>3. CASE bare /\ iso[t] = Unset
    <3>1. from = Lazy(iso[t])
      BY <2>3 DEF from
    <3>2. Len(from) = Len(heap) + 1 /\ iso'[t] = Len(heap) + 1
      BY <1>2, <1>3, <1>7, <2>3, <3>1
    <3>3. heap'[Len(heap) + 1] = Blank
      <4>1. Len(heap) + 1 \in 1..Len(from)
        BY <1>2, <3>2
      <4>. QED
        BY <1>4, <1>9, <3>2, <4>1
    <3>. QED
      BY <1>2, <1>7, <1>9, <2>3, <3>2, <3>3
  <2>. QED
    BY <2>1, <2>2, <2>3
<1>12. /\ cur' \in [Tasks -> 0..Len(heap')] /\ cur'[t] = Len(heap')
       /\ \A u \in Tasks \ {t} : cur'[u] = cur[u]
  BY <1>2, <1>7, <1>9, <1>10
<1>. DEFINE b == [kind |-> "current", scope |-> Len(heap'), saved |-> cur[t], home |-> home[t]]
<1>13. Deeper(t, b)
  <2>1. Opens(t, "current", Len(heap'), cur[t]) /\ "current" \in Kinds
    BY <1>7, <1>9 DEF Kinds
  <2>. QED
    BY <1>1, <1>9, <1>10, <2>1, OpensDeeper
<1>14. b.home = home[t] /\ b.kind = "current" /\ b.scope = Len(heap') /\ b.saved = cur[t]
  OBVIOUS
<1>. HIDE DEF b
<1>15. TypeOK'
  <2>1. \A u \in Tasks : InRequest(u)' => iso'[u] # Unset
    <3>1. ASSUME NEW u \in Tasks, u # t, InRequest(u)' PROVE iso'[u] # Unset
      <4>1. InRequest(u)
        BY <1>13, <3>1 DEF Deeper, InRequest
      <4>. QED
        BY <1>1, <1>11, <3>1, <4>1 DEF TypeOK
    <3>2. ASSUME InRequest(t)' PROVE iso'[t] # Unset
      <4>1. CASE blocks[t] = <<>>
        BY <1>13, <1>14, <3>2, <4>1 DEF Deeper, InRequest
      <4>2. CASE blocks[t] # <<>>
        <5>1. Len(blocks[t]) >= 1
          BY <1>13, <4>2 DEF Deeper
        <5>2. InRequest(t)
          BY <1>13, <3>2, <4>2, <5>1 DEF Deeper, InRequest
        <5>. QED
          BY <1>1, <1>2, <1>11, <5>2 DEF TypeOK, Unset
      <4>. QED
        BY <4>1, <4>2
    <3>. QED
      BY <3>1, <3>2
  <2>. QED
    BY <1>1, <1>7, <1>9, <1>11, <1>12, <1>13, <2>1 DEF TypeOK, Deeper
<1>16. Homes'
  <2>1. ASSUME NEW u \in Tasks, ~Running(u) PROVE blocks'[u] = <<>> /\ iso'[u] = iso[u]
    <3>1. u # t /\ blocks[u] = <<>>
      BY <1>1, <1>7, <2>1 DEF Homes, Running
    <3>. QED
      BY <1>11, <1>13, <3>1 DEF Deeper
  <2>2. \A u \in Tasks : Running(u)' <=> Running(u)
    BY <1>7 DEF Running
  <2>3. ASSUME NEW u \in Tasks, status'[u] \in {"new", "idle"}
        PROVE  home'[u] = StartUp /\ (status'[u] = "new" => iso'[u] = Unset)
    <3>1. ~Running(u) /\ status'[u] = status[u]
      BY <1>7, <2>3 DEF Running
    <3>. QED
      BY <1>1, <1>7, <2>1, <2>3, <3>1 DEF Homes
  <2>4. Running(Main)' /\ home'[Main] = StartUp
    BY <1>1, <1>7, <2>2, TasksAssumption DEF Homes
  <2>. QED
    BY <2>1, <2>2, <2>3, <2>4 DEF Homes
<1>17. Nesting'
  <2>1. t = Main => b.home = StartUp /\ b.kind \notin {"middleware", "flask"}
    BY <1>1, <1>14 DEF Homes
  <2>. QED
    BY <1>1, <1>7, <1>13, <1>14, <2>1, NestingDeeper
<1>18. heap'[Len(heap')].spans # {} /\ home[t] \in heap'[Len(heap')].spans
  BY <1>9
<1>19. ScopesApart'
  <2>1. \A u \in Tasks : iso'[u] # Unset => heap'[iso'[u]].spans = {}
    <3>1. ASSUME NEW u \in Tasks, iso[u] # Unset PROVE heap'[iso[u]].spans = {}
      <4>1. iso[u] \in 1..Len(heap) /\ heap[iso[u]].spans = {}
        BY <1>1, <1>2, <3>1 DEF ScopesApart, Unset
      <4>. QED
        BY <1>10, <4>1
    <3>2. Blank.spans = {}
      BY DEF Blank
    <3>3. \A u \in Tasks \ {t} : iso'[u] # Unset => heap'[iso'[u]].spans = {}
      BY <1>11, <3>1
    <3>4. iso'[t] # Unset => heap'[iso'[t]].spans = {}
      BY <1>11, <3>1, <3>2
    <3>. QED
      BY <3>3, <3>4
  <2>2. ASSUME NEW u \in Tasks, cur[u] # Unset PROVE heap'[cur[u]].spans # {}
    <3>1. cur[u] \in 0..Len(heap) /\ heap[cur[u]].spans # {}
      BY <1>1, <1>2, <2>2 DEF ScopesApart
    <3>. QED
      BY <1>2, <1>10, <2>2, <3>1 DEF Unset
  <2>3. \A u \in Tasks : cur'[u] # Unset => heap'[cur'[u]].spans # {}
    BY <1>12, <1>18, <2>2
  <2>4. \A ref \in 1..Len(heap) : heap'[ref].spans = heap[ref].spans
    BY <1>10
  <2>. QED
    BY <1>1, <1>2, <1>13, <1>14, <1>18, <2>1, <2>2, <2>3, <2>4, ApartDeeper
<1>20. CurrentsSound'
  <2>1. ASSUME NEW ref \in 1..Len(heap'), heap'[ref].spans # {}
        PROVE  ref \in 1..Len(heap) \/ ref = Len(heap')
    <3>1. ref \in 1..Len(heap) \/ (ref > Len(heap) /\ ref < Len(heap')) \/ ref = Len(heap')
      BY <1>2, <1>9, <2>1
    <3>. QED
      BY <1>10, <2>1, <3>1 DEF Blank
  <2>2. /\ Outside \notin heap'[Len(heap')].spans
             => heap'[Len(heap')].user.by \in heap'[Len(heap')].spans \cup {StartUp, Outside}
        /\ heap'[Len(heap')].crumbs \subseteq heap'[Len(heap')].spans
    BY <1>5, <1>9
  <2>. QED
    BY <1>1, <1>9, <1>10, <2>1, <2>2 DEF CurrentsSound
<1>21. CarriersSound'
  BY <1>1, <1>7 DEF CarriersSound, Holds, Side
<1>22. Ownership'
  <2>1. /\ \A u \in Tasks \ {t} : Keeps(u)' => Keeps(u) /\ home'[u] = home[u] /\ iso'[u] = iso[u]
        /\ Keeps(t) /\ home' = home
    BY <1>7, <1>11 DEF Keeps, Running
  <2>2. iso'[t] # Len(heap')
    BY <1>2, <1>9, <1>10, <1>11
  <2>. QED
    BY <1>1, <1>2, <1>7, <1>9, <1>10, <1>11, <1>13, <1>14, <1>18, <2>1, <2>2, OwnershipDeeper
<1>. QED
  BY <1>15, <1>16, <1>17, <1>19, <1>20, <1>21, <1>22 DEF IInv

-----------------------------------------------------------------------------
(***************************************************************************)
(* Blocks that end                                                         *)
(***************************************************************************)
\* A task that goes back to what it worked for, on the scopes its block saved; Flask's
\* teardown may leave it on the request's.
LEMMA BlockEndKeeps ==
  ASSUME IInv, NEW t \in Tasks, Leave(t) \/ TeardownElsewhere(t)
  PROVE  IInv'
<1>1. TypeOK /\ Homes /\ Nesting /\ ScopesApart /\ CurrentsSound /\ CarriersSound /\ Ownership
  BY DEF IInv
<1>2. /\ heap \in Seq(Scopes) /\ iso \in [Tasks -> 0..Len(heap)]
      /\ cur \in [Tasks -> 0..Len(heap)] /\ home \in [Tasks -> Works]
      /\ blocks \in [Tasks -> Seq(Blocks)] /\ blocks[t] \in Seq(Blocks)
      /\ status \in [Tasks -> {"new", "running", "streaming", "idle", "ended"}]
  BY <1>1 DEF TypeOK
<1>. DEFINE b == Last(blocks[t])
            n == Len(blocks[t])
<1>3. /\ Running(t) /\ blocks[t] # <<>>
      /\ blocks' = [blocks EXCEPT ![t] = Front(@)]
      /\ EndsWithBlock(t) \/ StreamsAfterBlock(t)
      /\ UNCHANGED <<app, heap, served, carriers>>
  BY DEF Leave, TeardownElsewhere, InBlock
<1>4. /\ b.kind = "current" => iso' = iso /\ cur' = [cur EXCEPT ![t] = b.saved]
      /\ b.kind # "current" => /\ cur' = cur
                               /\ iso' = [iso EXCEPT ![t] = b.saved] \/ iso' = iso
      /\ b.kind \notin {"current", "flask"} => iso' = [iso EXCEPT ![t] = b.saved]
  BY DEF Leave, TeardownElsewhere, InBlock, ctx
<1>5. /\ Front(blocks[t]) \in Seq(Blocks) /\ Len(Front(blocks[t])) = n - 1 /\ n \in Nat \ {0}
      /\ \A i \in 1..(n - 1) : Front(blocks[t])[i] = blocks[t][i]
      /\ b = blocks[t][n] /\ b \in Blocks
  BY <1>2, <1>3, FrontFacts
<1>6. /\ b.saved \in 0..Len(heap) /\ b.home \in Works /\ n \in 1..Len(blocks[t])
  BY <1>5 DEF Blocks
<1>. HIDE DEF b, n
<1>7. /\ blocks' \in [Tasks -> Seq(Blocks)] /\ \A u \in Tasks \ {t} : blocks'[u] = blocks[u]
      /\ Len(blocks'[t]) = n - 1
      /\ \A i \in 1..(n - 1) : blocks'[t][i] = blocks[t][i]
  BY <1>2, <1>3, <1>5
<1>8. /\ home' \in [Tasks -> Works]
      /\ \A u \in Tasks \ {t} : home'[u] = home[u] /\ status'[u] = status[u]
      /\ status' \in [Tasks -> {"new", "running", "streaming", "idle", "ended"}]
      /\ \/ /\ home'[t] = b.home
            /\ InRequest(t) /\ n = 1 => status'[t] = IF app = "asgi" THEN "ended" ELSE "idle"
            /\ ~(InRequest(t) /\ n = 1) => status'[t] = status[t]
         \/ /\ home'[t] = Outside /\ status'[t] = "streaming"
            /\ InRequest(t) /\ n = 1 /\ app \in {"django", "flask"}
  <2>1. CASE EndsWithBlock(t)
    BY <1>2, <1>6, <2>1 DEF EndsWithBlock, n, b
  <2>2. CASE StreamsAfterBlock(t)
    BY <1>2, <2>2, WorksFacts DEF StreamsAfterBlock, n
  <2>. QED
    BY <1>3, <2>1, <2>2
<1>9. /\ iso' \in [Tasks -> 0..Len(heap)] /\ cur' \in [Tasks -> 0..Len(heap)]
      /\ \A u \in Tasks \ {t} : iso'[u] = iso[u] /\ cur'[u] = cur[u]
      /\ b.kind = "current" => iso'[t] = iso[t] /\ cur'[t] = b.saved
      /\ b.kind # "current" => cur'[t] = cur[t] /\ iso'[t] \in {b.saved, iso[t]}
      /\ b.kind \notin {"current", "flask"} => iso'[t] = b.saved
  BY <1>2, <1>4, <1>6
<1>10. /\ b.kind \in {"middleware", "flask"} => n = 1 /\ b.home = StartUp
       /\ b.kind = "flask" => app = "flask"
       /\ b.kind = "current" => b.home = home[t]
       /\ t = Main => b.home = StartUp /\ b.kind \notin {"middleware", "flask"}
       /\ InRequest(t) /\ n > 1 /\ b.kind # "current" => b.saved # Unset
  BY <1>1, <1>5, <1>6 DEF Nesting, n
<1>11. n = 1 => (InRequest(t) <=> b.kind \in {"middleware", "flask"})
  BY <1>3, <1>5 DEF InRequest
<1>12. ASSUME InRequest(t)' PROVE InRequest(t) /\ n > 1
  <2>1. n = 1 => blocks'[t] = <<>>
    BY <1>7
  <2>2. n > 1 /\ blocks'[t][1] = blocks[t][1]
    BY <1>5, <1>7, <1>12, <2>1 DEF InRequest
  <2>. QED
    BY <1>3, <1>12, <2>2 DEF InRequest
<1>13. TypeOK'
  <2>1. ASSUME NEW u \in Tasks, InRequest(u)' PROVE iso'[u] # Unset
    <3>1. CASE u = t
      BY <1>1, <1>9, <1>10, <1>12, <2>1, <3>1 DEF TypeOK
    <3>2. CASE u # t
      BY <1>1, <1>7, <1>9, <2>1, <3>2 DEF TypeOK, InRequest
    <3>. QED
      BY <3>1, <3>2
  <2>2. Blocks' = Blocks
    BY <1>3 DEF Blocks
  <2>3. /\ app' \in Apps /\ heap' \in Seq(Scopes) /\ served' \in 0..MaxRequests
        /\ carriers' \subseteq Payloads /\ Cardinality(carriers') <= MaxCarriers
    BY <1>1, <1>3 DEF TypeOK
  <2>4. blocks' \in [Tasks -> Seq(Blocks')]
    BY <1>7, <2>2
  <2>5. /\ iso' \in [Tasks -> 0..Len(heap')] /\ cur' \in [Tasks -> 0..Len(heap')]
        /\ home' \in [Tasks -> Works]
        /\ status' \in [Tasks -> {"new", "running", "streaming", "idle", "ended"}]
    BY <1>3, <1>8, <1>9
  <2>. QED
    BY <2>1, <2>3, <2>4, <2>5, SMTT(30) DEF TypeOK
<1>14. Homes'
  <2>1. n = 1 => blocks'[t] = <<>>
    BY <1>7
  <2>2. ~InRequest(Main)
    BY <1>1, <1>2, TasksAssumption DEF Nesting, InRequest
  <2>3. Running(Main)' /\ home'[Main] = StartUp
    BY <1>1, <1>8, <1>10, <2>2, TasksAssumption DEF Homes, Running
  <2>4. ASSUME NEW u \in Tasks
        PROVE  /\ status'[u] \in {"new", "idle"} => home'[u] = StartUp
               /\ status'[u] = "new" => iso'[u] = Unset
               /\ ~Running(u)' => blocks'[u] = <<>>
    <3>1. CASE u = t
      BY <1>3, <1>8, <1>10, <1>11, <2>1, <3>1 DEF Running
    <3>2. CASE u # t
      BY <1>1, <1>7, <1>8, <1>9, <3>2 DEF Homes, Running
    <3>. QED
      BY <3>1, <3>2
  <2>. QED
    BY <2>3, <2>4 DEF Homes
<1>15. Nesting'
  <2>1. ASSUME NEW i \in 1..(n - 1), blocks[t][i].kind = "current"
        PROVE  blocks[t][i].home = IF i = n - 1 THEN b.home ELSE blocks[t][i + 1].home
    <3>1. i \in 1..Len(blocks[t]) /\ i # Len(blocks[t])
      BY <1>5 DEF n
    <3>2. blocks[t][i].home = blocks[t][i + 1].home
      BY <1>1, <2>1, <3>1 DEF Nesting
    <3>. QED
      BY <1>5, <3>2
  <2>2. ASSUME NEW i \in 1..(n - 1)
        PROVE  i \in 1..Len(blocks[t]) /\ blocks'[t][i] = blocks[t][i]
               /\ (i # n - 1 => blocks'[t][i + 1] = blocks[t][i + 1])
    <3>1. n \in Nat \ {0} /\ n = Len(blocks[t]) /\ i \in 1..n
      BY <1>5 DEF n
    <3>2. i # n - 1 => i + 1 \in 1..(n - 1)
      BY <3>1
    <3>. QED
      BY <1>7, <3>1, <3>2
  <2>3. ASSUME NEW u \in Tasks, NEW i \in 1..Len(blocks'[u])
        PROVE  /\ blocks'[u][i].kind \in {"middleware", "flask"} =>
                    i = 1 /\ blocks'[u][i].home = StartUp
               /\ blocks'[u][i].kind = "flask" => app = "flask"
               /\ blocks'[u][i].kind = "middleware" => app # "flask"
               /\ blocks'[u][i].kind = "current" =>
                    blocks'[u][i].home =
                      IF i = Len(blocks'[u]) THEN home'[u] ELSE blocks'[u][i + 1].home
               /\ u = Main =>
                    blocks'[u][i].home = StartUp
                      /\ blocks'[u][i].kind \notin {"middleware", "flask"}
               /\ InRequest(u)' /\ i > 1 /\ blocks'[u][i].kind # "current"
                    => blocks'[u][i].saved # Unset
    <3>1. CASE u # t
      <4>1. blocks'[u] = blocks[u] /\ home'[u] = home[u] /\ (InRequest(u)' <=> InRequest(u))
        BY <1>7, <1>8, <3>1 DEF InRequest
      <4>. QED
        BY <1>1, <2>3, <4>1 DEF Nesting
    <3>2. CASE u = t
      <4>1. i \in 1..(n - 1)
        BY <1>7, <2>3, <3>2
      <4>2. i \in 1..Len(blocks[t]) /\ blocks'[t][i] = blocks[t][i]
            /\ (i # n - 1 => blocks'[t][i + 1] = blocks[t][i + 1])
        BY <2>2, <4>1
      <4>3. blocks'[t][i].kind = "current" =>
              blocks'[t][i].home = IF i = Len(blocks'[t]) THEN home'[t] ELSE blocks'[t][i + 1].home
        BY <1>5, <1>7, <1>8, <2>1, <4>1, <4>2
      <4>. QED
        BY <1>1, <1>12, <3>2, <4>2, <4>3 DEF Nesting
    <3>. QED
      BY <3>1, <3>2
  <2>. QED
    BY <1>3, <2>3 DEF Nesting
<1>16. ScopesApart'
  <2>1. /\ b.kind = "current" /\ b.saved # Unset => heap[b.saved].spans # {}
        /\ b.kind # "current" /\ b.saved # Unset => heap[b.saved].spans = {}
    BY <1>1, <1>5, <1>6 DEF ScopesApart
  <2>2. ASSUME NEW u \in Tasks
        PROVE  /\ iso'[u] # Unset => heap[iso'[u]].spans = {}
               /\ cur'[u] # Unset => heap[cur'[u]].spans # {}
    <3>1. /\ iso[u] # Unset => heap[iso[u]].spans = {}
          /\ cur[u] # Unset => heap[cur[u]].spans # {}
      BY <1>1 DEF ScopesApart
    <3>. QED
      BY <1>9, <2>1, <3>1
  <2>3. ASSUME NEW u \in Tasks, NEW i \in 1..Len(blocks'[u])
        PROVE  i \in 1..Len(blocks[u]) /\ blocks'[u][i] = blocks[u][i]
    <3>1. n \in Nat \ {0} /\ n = Len(blocks[t])
      BY <1>5 DEF n
    <3>2. CASE u = t
      BY <1>7, <2>3, <3>1, <3>2
    <3>3. CASE u # t
      BY <1>7, <2>3, <3>3
    <3>. QED
      BY <3>2, <3>3
  <2>4. ASSUME NEW u \in Tasks, NEW i \in 1..Len(blocks'[u])
        PROVE  LET a == blocks'[u][i] IN
               /\ a.kind = "current" => a.home \in heap'[a.scope].spans
               /\ a.kind = "current" /\ a.saved # Unset => heap'[a.saved].spans # {}
               /\ a.kind # "current" /\ a.saved # Unset => heap'[a.saved].spans = {}
    <3>1. i \in 1..Len(blocks[u]) /\ blocks'[u][i] = blocks[u][i] /\ heap' = heap
      BY <1>3, <2>3, <2>4
    <3>2. LET a == blocks[u][i] IN
          /\ a.kind = "current" => a.home \in heap[a.scope].spans
          /\ a.kind = "current" /\ a.saved # Unset => heap[a.saved].spans # {}
          /\ a.kind # "current" /\ a.saved # Unset => heap[a.saved].spans = {}
      BY <1>1, <3>1, BlockApart
    <3>. QED
      BY <3>1, <3>2
  <2>. QED
    BY <1>3, <2>2, <2>4 DEF ScopesApart
<1>17. CurrentsSound' /\ CarriersSound'
  BY <1>1, <1>3 DEF CurrentsSound, CarriersSound, Holds, Side
<1>18. Ownership'
  <2>1. PICK owner \in [1..Len(heap) -> Works] : Owned(owner)
    BY <1>1 DEF Ownership
  <2>2. ASSUME NEW u \in Tasks, Keeps(u)', iso'[u] # Unset
        PROVE  Suits(owner[iso'[u]], home'[u])
    <3>1. CASE u # t
      <4>1. Keeps(u) /\ home'[u] = home[u] /\ iso'[u] = iso[u]
        BY <1>3, <1>8, <1>9, <2>2, <3>1 DEF Keeps, Running
      <4>. QED
        BY <2>1, <2>2, <4>1 DEF Owned
    <3>2. CASE u = t /\ b.kind = "current"
      <4>1. Keeps(t) /\ home'[t] = home[t] /\ iso'[t] = iso[t]
        BY <1>3, <1>8, <1>9, <1>10, <1>11, <3>2 DEF Keeps
      <4>. QED
        BY <2>1, <2>2, <3>2, <4>1 DEF Owned
    <3>3. CASE u = t /\ b.kind \notin {"current", "flask"}
      <4>1. iso'[t] = b.saved /\ Suits(owner[b.saved], b.home)
        BY <1>5, <1>6, <1>9, <2>1, <2>2, <3>3 DEF Owned
      <4>2. home'[t] = b.home \/ (home'[t] = Outside /\ b.home = StartUp /\ app # "flask")
        BY <1>1, <1>5, <1>6, <1>8, <1>10, <1>11, <3>3 DEF Nesting
      <4>. QED
        BY <3>3, <4>1, <4>2, WorksFacts DEF Suits, Side
    <3>4. CASE u = t /\ b.kind = "flask"
      <4>1. app = "flask" /\ InRequest(t) /\ n = 1
        BY <1>10, <1>11, <3>4
      <4>2. home'[t] = Outside
        BY <1>3, <1>8, <2>2, <3>4, <4>1 DEF Keeps, Running
      <4>. QED
        BY <3>4, <4>1, <4>2 DEF Suits, Side
    <3>. QED
      BY <3>1, <3>2, <3>3, <3>4
  <2>3. ASSUME NEW u \in Tasks, NEW i \in 1..Len(blocks'[u])
        PROVE  i \in 1..Len(blocks[u]) /\ blocks'[u][i] = blocks[u][i]
    <3>1. n \in Nat \ {0} /\ n = Len(blocks[t])
      BY <1>5 DEF n
    <3>2. CASE u = t
      BY <1>7, <2>3, <3>1, <3>2
    <3>3. CASE u # t
      BY <1>7, <2>3, <3>3
    <3>. QED
      BY <3>2, <3>3
  <2>4. Owned(owner)'
    BY <1>3, <2>1, <2>2, <2>3 DEF Owned, Suits, Side
  <2>. QED
    BY <1>3, <2>1, <2>4 DEF Ownership
<1>. QED
  BY <1>13, <1>14, <1>15, <1>16, <1>17, <1>18 DEF IInv

-----------------------------------------------------------------------------
(***************************************************************************)
(* Tasks that are spawned, scopes that are written to                      *)
(***************************************************************************)
\* A task that begins with the context of another: for the same work, or for one that
\* may work on the same scopes.
LEMMA BirthKeeps ==
  ASSUME IInv, NEW t \in Tasks, NEW child \in Tasks, Running(t), status[child] = "new",
         NEW work \in Works, Side(work) = Side(home[t]),
         status' = [status EXCEPT ![child] = "running"],
         iso' = [iso EXCEPT ![child] = iso[t]], cur' = [cur EXCEPT ![child] = cur[t]],
         home' = [home EXCEPT ![child] = work],
         UNCHANGED <<app, heap, blocks, carriers>>, served' \in 0..MaxRequests
  PROVE  IInv'
<1>1. TypeOK /\ Homes /\ Nesting /\ ScopesApart /\ CurrentsSound /\ CarriersSound /\ Ownership
  BY DEF IInv
<1>2. /\ heap \in Seq(Scopes) /\ iso \in [Tasks -> 0..Len(heap)]
      /\ cur \in [Tasks -> 0..Len(heap)] /\ home \in [Tasks -> Works]
      /\ status \in [Tasks -> {"new", "running", "streaming", "idle", "ended"}]
  BY <1>1 DEF TypeOK
<1>3. t # child /\ child # Main
  BY <1>1 DEF Running, Homes
<1>4. /\ blocks[child] = <<>> /\ ~InRequest(child)
      /\ \A u \in Tasks : InRequest(u)' <=> InRequest(u)
  BY <1>1, <1>3 DEF Homes, InRequest, Running
<1>5. /\ iso' \in [Tasks -> 0..Len(heap)] /\ cur' \in [Tasks -> 0..Len(heap)]
      /\ home' \in [Tasks -> Works] /\ status' \in [Tasks -> {"new", "running", "streaming", "idle", "ended"}]
      /\ iso'[child] = iso[t] /\ cur'[child] = cur[t] /\ home'[child] = work
      /\ status'[child] = "running"
      /\ \A u \in Tasks \ {child} : /\ iso'[u] = iso[u] /\ cur'[u] = cur[u]
                                    /\ home'[u] = home[u] /\ status'[u] = status[u]
  BY <1>2, <1>3
<1>6. TypeOK'
  <2>1. Blocks' = Blocks
    BY <1>3 DEF Blocks
  <2>. QED
    BY <1>1, <1>3, <1>4, <1>5, <2>1 DEF TypeOK
<1>7. Homes'
  BY <1>1, <1>3, <1>4, <1>5, TasksAssumption DEF Homes, Running
<1>8. Nesting'
  <2>1. \A u \in Tasks : blocks[u] # <<>> => home'[u] = home[u]
    BY <1>4, <1>5
  <2>2. ASSUME NEW u \in Tasks, NEW i \in 1..Len(blocks[u]) PROVE home'[u] = home[u]
    BY <1>4, <2>1, <2>2
  <2>. QED
    BY <1>1, <1>3, <1>4, <2>2 DEF Nesting
<1>9. ScopesApart'
  <2>1. ASSUME NEW u \in Tasks
        PROVE  /\ iso'[u] # Unset => heap'[iso'[u]].spans = {}
               /\ cur'[u] # Unset => heap'[cur'[u]].spans # {}
    <3>1. heap' = heap /\ iso'[u] \in {iso[u], iso[t]} /\ cur'[u] \in {cur[u], cur[t]}
      BY <1>3, <1>5
    <3>2. \A v \in {u, t} : /\ iso[v] # Unset => heap[iso[v]].spans = {}
                            /\ cur[v] # Unset => heap[cur[v]].spans # {}
      BY <1>1 DEF ScopesApart
    <3>. QED
      BY <3>1, <3>2
  <2>2. ASSUME NEW u \in Tasks, NEW i \in 1..Len(blocks'[u])
        PROVE  LET a == blocks'[u][i] IN
               /\ a.kind = "current" => a.home \in heap'[a.scope].spans
               /\ a.kind = "current" /\ a.saved # Unset => heap'[a.saved].spans # {}
               /\ a.kind # "current" /\ a.saved # Unset => heap'[a.saved].spans = {}
    <3>1. i \in 1..Len(blocks[u]) /\ blocks'[u][i] = blocks[u][i] /\ heap' = heap
      BY <1>3, <2>2
    <3>2. LET a == blocks[u][i] IN
          /\ a.kind = "current" => a.home \in heap[a.scope].spans
          /\ a.kind = "current" /\ a.saved # Unset => heap[a.saved].spans # {}
          /\ a.kind # "current" /\ a.saved # Unset => heap[a.saved].spans = {}
      BY <1>1, <3>1, BlockApart
    <3>. QED
      BY <3>1, <3>2
  <2>. QED
    BY <2>1, <2>2 DEF ScopesApart
<1>10. CurrentsSound' /\ CarriersSound'
  BY <1>1 DEF CurrentsSound, CarriersSound, Holds, Side
<1>11. Ownership'
  <2>1. PICK owner \in [1..Len(heap) -> Works] : Owned(owner)
    BY <1>1 DEF Ownership
  <2>2. ASSUME NEW u \in Tasks, Keeps(u)', iso'[u] # Unset
        PROVE  Suits(owner[iso'[u]], home'[u])
    <3>1. CASE u = child
      <4>1. Keeps(t) /\ iso'[u] = iso[t] /\ home'[u] = work
        BY <1>5, <3>1 DEF Keeps
      <4>. QED
        BY <2>1, <2>2, <4>1 DEF Owned, Suits
    <3>2. CASE u # child
      <4>1. Keeps(u) /\ iso'[u] = iso[u] /\ home'[u] = home[u]
        BY <1>5, <2>2, <3>2 DEF Keeps, Running
      <4>. QED
        BY <2>1, <2>2, <4>1 DEF Owned
    <3>. QED
      BY <3>1, <3>2
  <2>3. Owned(owner)'
    BY <2>1, <2>2 DEF Owned, Holds, Suits, Side
  <2>. QED
    BY <1>3, <2>1, <2>3 DEF Ownership
<1>. QED
  BY <1>6, <1>7, <1>8, <1>9, <1>10, <1>11 DEF IInv

LEMMA SpawnKeeps ==
  ASSUME IInv, NEW t \in Tasks, NEW child \in Tasks, Spawn(t, child)
  PROVE  IInv'
<1>1. home[t] \in Works /\ served \in 0..MaxRequests
  BY DEF IInv, TypeOK
<1>. QED
  BY <1>1, BirthKeeps DEF Spawn

\* A WebSocket's task works on the server's scope.
LEMMA ServeSocketKeeps ==
  ASSUME IInv, NEW t \in Tasks, ServeSocket(t)
  PROVE  IInv'
<1>1. /\ Main \in Tasks /\ Running(Main) /\ status[t] = "new" /\ app = "asgi"
      /\ home[Main] = StartUp /\ served \in 0..MaxRequests /\ served < MaxRequests
  BY TasksAssumption DEF ServeSocket, Begins, IInv, TypeOK, Homes
<1>2. Outside \in Works /\ Side(Outside) = Side(home[Main])
  BY <1>1, WorksFacts DEF Side
<1>3. served' \in 0..MaxRequests
  BY <1>1, SizesAssumption DEF ServeSocket, Begins
<1>. QED
  BY <1>1, <1>2, <1>3, BirthKeeps DEF ServeSocket, Begins

\* A thread whose body is sent is left with a scope that suits its next request.
LEMMA BodySentKeeps ==
  ASSUME IInv, NEW t \in Tasks, BodySent(t)
  PROVE  IInv'
<1>1. TypeOK /\ Homes /\ Nesting /\ ScopesApart /\ CurrentsSound /\ CarriersSound /\ Ownership
  BY DEF IInv
<1>2. /\ status[t] = "streaming" /\ blocks[t] = <<>> /\ home[t] = Outside
      /\ home' = [home EXCEPT ![t] = StartUp] /\ status' = [status EXCEPT ![t] = "idle"]
      /\ UNCHANGED <<app, heap, iso, cur, blocks, served, carriers>>
  BY DEF BodySent, ctx
<1>3. /\ home \in [Tasks -> Works]
      /\ status \in [Tasks -> {"new", "running", "streaming", "idle", "ended"}]
  BY <1>1 DEF TypeOK
<1>4. /\ home' \in [Tasks -> Works] /\ home'[t] = StartUp /\ status'[t] = "idle"
      /\ status' \in [Tasks -> {"new", "running", "streaming", "idle", "ended"}]
      /\ \A u \in Tasks \ {t} : home'[u] = home[u] /\ status'[u] = status[u]
      /\ t # Main
  BY <1>1, <1>2, <1>3, WorksFacts DEF Homes
<1>5. TypeOK'
  <2>1. Blocks' = Blocks
    BY <1>2 DEF Blocks
  <2>. QED
    BY <1>1, <1>2, <1>4, <2>1 DEF TypeOK, InRequest
<1>6. Homes'
  BY <1>1, <1>2, <1>4, TasksAssumption DEF Homes, Running
<1>7. Nesting'
  <2>1. ASSUME NEW u \in Tasks, NEW i \in 1..Len(blocks[u]) PROVE home'[u] = home[u]
    BY <1>2, <1>4, <2>1
  <2>. QED
    BY <1>1, <1>2, <2>1 DEF Nesting, InRequest
<1>8. ScopesApart'
  BY <1>1, <1>2 DEF ScopesApart
<1>9. CurrentsSound' /\ CarriersSound'
  BY <1>1, <1>2 DEF CurrentsSound, CarriersSound, Holds, Side
<1>10. Ownership'
  <2>1. PICK owner \in [1..Len(heap) -> Works] : Owned(owner)
    BY <1>1 DEF Ownership
  <2>2. ASSUME NEW u \in Tasks, Keeps(u)', iso'[u] # Unset
        PROVE  Suits(owner[iso'[u]], home'[u])
    <3>1. Keeps(u) /\ iso'[u] = iso[u] /\ (u = t => app # "flask")
      BY <1>2, <1>4, <2>2 DEF Keeps, Running
    <3>2. Suits(owner[iso[u]], home[u])
      BY <2>1, <2>2, <3>1 DEF Owned
    <3>. QED
      BY <1>2, <1>4, <3>1, <3>2, WorksFacts DEF Suits, Side
  <2>3. Owned(owner)'
    BY <1>2, <2>1, <2>2 DEF Owned, Holds, Suits, Side
  <2>. QED
    BY <1>2, <2>1, <2>3 DEF Ownership
<1>. QED
  BY <1>5, <1>6, <1>7, <1>8, <1>9, <1>10 DEF IInv

\* A task that touches its isolation scope, or makes one, and leaves there a user or a
\* breadcrumb of its own at most.
LEMMA TouchKeeps ==
  ASSUME IInv, NEW t \in Tasks, Running(t),
         heap' \in Seq(Scopes), Len(heap') = Len(Lazy(iso[t])),
         \A ref \in 1..Len(heap') : ref # Ref(iso[t]) => heap'[ref] = Lazy(iso[t])[ref],
         heap'[Ref(iso[t])].user.by \in {Lazy(iso[t])[Ref(iso[t])].user.by, home[t], StartUp},
         heap'[Ref(iso[t])].crumbs \subseteq Lazy(iso[t])[Ref(iso[t])].crumbs \cup {home[t]},
         heap'[Ref(iso[t])].spans = Lazy(iso[t])[Ref(iso[t])].spans,
         iso' = [iso EXCEPT ![t] = Ref(@)],
         UNCHANGED <<app, cur, blocks, home, status, served>>,
         carriers' \subseteq Payloads, Cardinality(carriers') <= MaxCarriers, CarriersSound'
  PROVE  IInv'
<1>1. TypeOK /\ Homes /\ Nesting /\ ScopesApart /\ CurrentsSound /\ Ownership
  BY DEF IInv
<1>2. /\ heap \in Seq(Scopes) /\ Len(heap) \in Nat /\ iso \in [Tasks -> 0..Len(heap)]
      /\ cur \in [Tasks -> 0..Len(heap)] /\ home \in [Tasks -> Works]
      /\ blocks \in [Tasks -> Seq(Blocks)] /\ blocks' = blocks
      /\ \A u \in Tasks : \A i \in 1..Len(blocks[u]) : blocks[u][i] \in Blocks
  BY <1>1 DEF TypeOK
<1>3. /\ Ref(iso[t]) \in 1..Len(heap')
      /\ Len(heap') \in {Len(heap), Len(heap) + 1}
      /\ \A ref \in 1..Len(heap) : Lazy(iso[t])[ref] = heap[ref]
      /\ iso[t] # Unset => Lazy(iso[t]) = heap /\ Ref(iso[t]) = iso[t]
      /\ iso[t] = Unset => /\ Ref(iso[t]) = Len(heap) + 1 /\ Len(heap') = Len(heap) + 1
                           /\ Lazy(iso[t])[Len(heap) + 1] = Blank
  BY <1>2, LazyFacts
<1>4. /\ \A ref \in 1..Len(heap) : ref # iso[t] => heap'[ref] = heap[ref]
      /\ \A ref \in 1..Len(heap) : heap'[ref].spans = heap[ref].spans
      /\ \A ref \in 1..Len(heap') : ref \in 1..Len(heap) \/ ref = Ref(iso[t])
      /\ heap'[Ref(iso[t])].spans = {}
  <2>1. \A ref \in 1..Len(heap) : ref # iso[t] => ref # Ref(iso[t]) /\ ref \in 1..Len(heap')
    BY <1>2, <1>3
  <2>2. \A ref \in 1..Len(heap) : ref # iso[t] => heap'[ref] = heap[ref]
    BY <1>3, <2>1
  <2>3. iso[t] # Unset => heap'[iso[t]].spans = heap[iso[t]].spans
    BY <1>3
  <2>4. heap'[Ref(iso[t])].spans = {}
    BY <1>1, <1>3 DEF ScopesApart, Blank
  <2>5. \A ref \in 1..Len(heap') : ref \in 1..Len(heap) \/ ref = Ref(iso[t])
    BY <1>2, <1>3
  <2>. QED
    BY <2>2, <2>3, <2>4, <2>5 DEF Unset
<1>5. /\ iso' \in [Tasks -> 0..Len(heap')] /\ iso'[t] = Ref(iso[t])
      /\ \A u \in Tasks \ {t} : iso'[u] = iso[u]
  BY <1>2, <1>3
<1>6. TypeOK'
  <2>1. blocks' \in [Tasks -> Seq(Blocks')]
    <3>1. Len(heap) <= Len(heap')
      BY <1>2, <1>3
    <3>2. \A s \in Seq(Blocks) : s \in Seq(Blocks')
      BY <1>2, <3>1, BlocksGrow
    <3>. QED
      BY <1>2, <3>2
  <2>2. cur' \in [Tasks -> 0..Len(heap')]
    BY <1>2, <1>3
  <2>3. \A u \in Tasks : InRequest(u)' => iso'[u] # Unset
    BY <1>1, <1>2, <1>3, <1>5 DEF TypeOK, InRequest, Unset
  <2>. QED
    BY <1>1, <1>5, <2>1, <2>2, <2>3 DEF TypeOK
<1>7. Homes'
  BY <1>1, <1>5 DEF Homes, Running
<1>8. Nesting'
  BY <1>1 DEF Nesting, InRequest
<1>9. ScopesApart'
  <2>1. ASSUME NEW u \in Tasks
        PROVE  /\ iso'[u] # Unset => heap'[iso'[u]].spans = {}
               /\ cur[u] # Unset => heap'[cur[u]].spans # {}
    <3>1. iso[u] # Unset => iso[u] \in 1..Len(heap) /\ heap[iso[u]].spans = {}
      BY <1>1, <1>2 DEF ScopesApart, Unset
    <3>2. cur[u] # Unset => cur[u] \in 1..Len(heap)
      BY <1>2 DEF Unset
    <3>3. cur[u] # Unset => heap[cur[u]].spans # {}
      BY <1>1 DEF ScopesApart
    <3>. QED
      BY <1>4, <1>5, <3>1, <3>2, <3>3
  <2>2. ASSUME NEW u \in Tasks, NEW i \in 1..Len(blocks'[u])
        PROVE  LET a == blocks'[u][i] IN
               /\ a.kind = "current" => a.home \in heap'[a.scope].spans
               /\ a.kind = "current" /\ a.saved # Unset => heap'[a.saved].spans # {}
               /\ a.kind # "current" /\ a.saved # Unset => heap'[a.saved].spans = {}
    <3>1. blocks[u][i].scope \in 1..Len(heap) /\ blocks[u][i].saved \in 0..Len(heap)
      BY <1>2, <2>2 DEF Blocks
    <3>2. blocks[u][i].saved # Unset => blocks[u][i].saved \in 1..Len(heap)
      BY <1>2, <3>1 DEF Unset
    <3>3. i \in 1..Len(blocks[u]) /\ blocks'[u][i] = blocks[u][i]
      BY <1>2, <2>2
    <3>4. LET a == blocks[u][i] IN
          /\ a.kind = "current" => a.home \in heap[a.scope].spans
          /\ a.kind = "current" /\ a.saved # Unset => heap[a.saved].spans # {}
          /\ a.kind # "current" /\ a.saved # Unset => heap[a.saved].spans = {}
      BY <1>1, <3>3, BlockApart
    <3>5. /\ heap'[blocks[u][i].scope].spans = heap[blocks[u][i].scope].spans
          /\ blocks[u][i].saved # Unset =>
               heap'[blocks[u][i].saved].spans = heap[blocks[u][i].saved].spans
      BY <1>4, <3>1, <3>2
    <3>. QED
      BY <3>3, <3>4, <3>5
  <2>. QED
    BY <1>2, <2>1, <2>2 DEF ScopesApart
<1>10. CurrentsSound'
  <2>1. ASSUME NEW ref \in 1..Len(heap'), heap'[ref].spans # {}
        PROVE  ref \in 1..Len(heap) /\ heap'[ref] = heap[ref]
    BY <1>3, <1>4, <2>1
  <2>. QED
    BY <1>1, <2>1 DEF CurrentsSound
<1>11. Ownership'
  <2>1. PICK owner \in [1..Len(heap) -> Works] : Owned(owner)
    BY <1>1 DEF Ownership
  <2>2. PICK next \in [1..Len(heap') -> Works] :
          (\A ref \in 1..Len(heap) : next[ref] = owner[ref])
          /\ (iso[t] = Unset => next[Len(heap')] = Side(home[t]))
    <3>. DEFINE w == [ref \in 1..Len(heap') |->
                        IF ref <= Len(heap) THEN owner[ref] ELSE Side(home[t])]
    <3>1. w \in [1..Len(heap') -> Works]
      <4>1. Side(home[t]) \in Works
        BY <1>2, SideFacts
      <4>. QED
        BY <1>2, <1>3, <2>1, <4>1
    <3>2. /\ \A ref \in 1..Len(heap) : w[ref] = owner[ref]
          /\ iso[t] = Unset => w[Len(heap')] = Side(home[t])
      BY <1>2, <1>3
    <3>. HIDE DEF w
    <3>. QED
      BY <3>1, <3>2
  <2>3. Suits(next[Ref(iso[t])], home[t])
    <3>1. CASE iso[t] = Unset
      BY <1>3, <2>2, <3>1 DEF Suits
    <3>2. CASE iso[t] # Unset
      <4>1. Ref(iso[t]) = iso[t] /\ iso[t] \in 1..Len(heap) /\ Suits(owner[iso[t]], home[t])
        BY <1>2, <1>3, <2>1, <3>2 DEF Owned, Keeps, Unset
      <4>. QED
        BY <2>2, <4>1
    <3>. QED
      BY <3>1, <3>2
  <2>4. ASSUME NEW ref \in 1..Len(heap'), heap'[ref].spans = {}
        PROVE  Holds(heap'[ref], next[ref])
    <3>1. CASE ref # Ref(iso[t])
      <4>1. ref \in 1..Len(heap) /\ heap'[ref] = heap[ref]
        BY <1>3, <1>4, <3>1
      <4>. QED
        BY <2>1, <2>2, <2>4, <4>1 DEF Owned
    <3>2. CASE ref = Ref(iso[t])
      <4>1. Holds(Lazy(iso[t])[ref], next[ref])
        <5>1. CASE iso[t] = Unset
          BY <1>3, <3>2, <5>1, BlankHolds
        <5>2. CASE iso[t] # Unset
          <6>1. ref = iso[t] /\ iso[t] \in 1..Len(heap) /\ heap[iso[t]].spans = {}
            BY <1>1, <1>2, <1>3, <3>2, <5>2 DEF ScopesApart, Unset
          <6>. QED
            BY <1>3, <2>1, <2>2, <5>2, <6>1 DEF Owned
        <5>. QED
          BY <5>1, <5>2
      <4>2. home[t] \in {Side(home[t]), Outside} /\ (Side(home[t]) = Outside => home[t] = Outside)
        BY <1>2, SideFacts
      <4>. QED
        BY <2>3, <3>2, <4>1, <4>2 DEF Suits, Holds
    <3>. QED
      BY <3>1, <3>2
  <2>5. ASSUME NEW u \in Tasks, Keeps(u)', iso'[u] # Unset
        PROVE  Suits(next[iso'[u]], home'[u])
    <3>1. CASE u = t
      BY <1>5, <2>3, <3>1
    <3>2. CASE u # t
      <4>1. Keeps(u) /\ iso[u] \in 1..Len(heap)
        BY <1>2, <1>5, <2>5, <3>2 DEF Keeps, Running, Unset
      <4>2. Suits(owner[iso[u]], home[u]) /\ next[iso[u]] = owner[iso[u]]
        BY <1>5, <2>1, <2>2, <2>5, <3>2, <4>1 DEF Owned
      <4>. QED
        BY <1>5, <3>2, <4>2
    <3>. QED
      BY <3>1, <3>2
  <2>6. ASSUME NEW u \in Tasks, NEW i \in 1..Len(blocks[u]),
               blocks[u][i].kind \notin {"current", "flask"}, blocks[u][i].saved # Unset
        PROVE  Suits(next[blocks[u][i].saved], blocks[u][i].home)
    <3>1. blocks[u][i].saved \in 0..Len(heap)
      BY <1>2, <2>6 DEF Blocks
    <3>2. blocks[u][i].saved \in 1..Len(heap)
      BY <1>2, <2>6, <3>1 DEF Unset
    <3>3. Suits(owner[blocks[u][i].saved], blocks[u][i].home)
      BY <2>1, <2>6 DEF Owned
    <3>. QED
      BY <2>2, <3>2, <3>3
  <2>7. \A u \in Tasks : \A i \in 1..Len(blocks'[u]) :
          blocks'[u][i].kind \notin {"current", "flask"} /\ blocks'[u][i].saved # Unset
            => Suits(next[blocks'[u][i].saved], blocks'[u][i].home)
    BY <1>2, <2>6
  <2>8. Owned(next)'
    BY <2>4, <2>5, <2>7 DEF Owned, Holds, Suits, Side
  <2>. QED
    BY <2>2, <2>8 DEF Ownership
<1>. QED
  BY <1>6, <1>7, <1>8, <1>9, <1>10, <1>11 DEF IInv

LEMMA SetUserKeeps ==
  ASSUME IInv, NEW t \in Tasks, NEW person \in People \cup {Nobody}, SetUser(t, person)
  PROVE  IInv'
<1>1. TypeOK
  BY DEF IInv
<1>2. /\ heap \in Seq(Scopes) /\ iso \in [Tasks -> 0..Len(heap)] /\ home \in [Tasks -> Works]
      /\ home[t] \in Works
  BY <1>1 DEF TypeOK
<1>. DEFINE made == Lazy(iso[t])
            ref == Ref(iso[t])
<1>3. made \in Seq(Scopes) /\ ref \in 1..Len(made) /\ made[ref] \in Scopes
  <2>1. made \in Seq(Scopes) /\ ref \in 1..Len(made)
    BY <1>2, LazyFacts
  <2>. HIDE DEF made, ref
  <2>. QED
    BY <2>1
<1>. DEFINE s == Named(made[ref], person, t)
<1>4. /\ s \in Scopes /\ s.user.by \in {made[ref].user.by, home[t], StartUp}
      /\ s.crumbs \subseteq made[ref].crumbs \cup {home[t]} /\ s.spans = made[ref].spans
  <2>1. s \in Scopes /\ s.user.by \in {home[t], StartUp}
        /\ s.crumbs = made[ref].crumbs /\ s.spans = made[ref].spans
    BY <1>2, <1>3, NamedFacts
  <2>. HIDE DEF made, ref, s
  <2>. QED
    BY <2>1
<1>6. /\ heap' = [made EXCEPT ![ref] = s] /\ iso' = [iso EXCEPT ![t] = Ref(@)] /\ Running(t)
      /\ UNCHANGED <<app, cur, blocks, home, status, served, carriers>>
  BY DEF SetUser
<1>7. /\ heap' \in Seq(Scopes) /\ Len(heap') = Len(made) /\ heap'[ref] = s
      /\ \A r \in 1..Len(heap') : r # ref => heap'[r] = made[r]
  <2>. HIDE DEF made, ref, s
  <2>. QED
    BY <1>3, <1>4, <1>6
<1>8. carriers' \subseteq Payloads /\ Cardinality(carriers') <= MaxCarriers /\ CarriersSound'
  BY <1>1, <1>6 DEF IInv, TypeOK, CarriersSound, Holds, Side
<1>. HIDE DEF s
<1>. QED
  BY <1>4, <1>6, <1>7, <1>8, TouchKeeps

LEMMA AddBreadcrumbKeeps ==
  ASSUME IInv, NEW t \in Tasks, AddBreadcrumb(t)
  PROVE  IInv'
<1>1. TypeOK
  BY DEF IInv
<1>2. /\ heap \in Seq(Scopes) /\ iso \in [Tasks -> 0..Len(heap)] /\ home \in [Tasks -> Works]
      /\ home[t] \in Works
  BY <1>1 DEF TypeOK
<1>. DEFINE made == Lazy(iso[t])
            ref == Ref(iso[t])
<1>3. made \in Seq(Scopes) /\ ref \in 1..Len(made) /\ made[ref] \in Scopes
  <2>1. made \in Seq(Scopes) /\ ref \in 1..Len(made)
    BY <1>2, LazyFacts
  <2>. HIDE DEF made, ref
  <2>. QED
    BY <2>1
<1>. DEFINE s == [made[ref] EXCEPT !.crumbs = @ \cup {home[t]}]
<1>4. /\ s \in Scopes /\ s.user.by \in {made[ref].user.by, home[t], StartUp}
      /\ s.crumbs \subseteq made[ref].crumbs \cup {home[t]} /\ s.spans = made[ref].spans
  <2>. HIDE DEF made, ref
  <2>. QED
    BY <1>2, <1>3 DEF Scopes
<1>6. /\ heap' = [made EXCEPT ![ref] = s] /\ iso' = [iso EXCEPT ![t] = Ref(@)] /\ Running(t)
      /\ UNCHANGED <<app, cur, blocks, home, status, served, carriers>>
  BY DEF AddBreadcrumb
<1>7. /\ heap' \in Seq(Scopes) /\ Len(heap') = Len(made) /\ heap'[ref] = s
      /\ \A r \in 1..Len(heap') : r # ref => heap'[r] = made[r]
  <2>. HIDE DEF made, ref, s
  <2>. QED
    BY <1>3, <1>4, <1>6
<1>8. carriers' \subseteq Payloads /\ Cardinality(carriers') <= MaxCarriers /\ CarriersSound'
  BY <1>1, <1>6 DEF IInv, TypeOK, CarriersSound, Holds, Side
<1>. HIDE DEF s
<1>. QED
  BY <1>4, <1>6, <1>7, <1>8, TouchKeeps

LEMMA CarrierKeeps ==
  ASSUME IInv, NEW t \in Tasks, Carrier(t)
  PROVE  IInv'
<1>1. TypeOK
  BY DEF IInv
<1>2. /\ heap \in Seq(Scopes) /\ iso \in [Tasks -> 0..Len(heap)] /\ home \in [Tasks -> Works]
      /\ home[t] \in Works
  BY <1>1 DEF TypeOK
<1>. DEFINE made == Lazy(iso[t])
            ref == Ref(iso[t])
<1>3. made \in Seq(Scopes) /\ ref \in 1..Len(made) /\ made[ref] \in Scopes
  <2>1. made \in Seq(Scopes) /\ ref \in 1..Len(made)
    BY <1>2, LazyFacts
  <2>. HIDE DEF made, ref
  <2>. QED
    BY <2>1
<1>4. Holds(made[ref], Side(home[t]))
  BY OwnScope DEF Carrier, Keeps
<1>5. /\ heap' = made /\ iso' = [iso EXCEPT ![t] = Ref(@)] /\ Running(t)
      /\ UNCHANGED <<app, cur, blocks, home, status, served>>
      /\ Cardinality(carriers) < MaxCarriers
  BY DEF Carrier
<1>6. iso'[t] = ref
  BY <1>2, <1>5
<1>. DEFINE sent == [user |-> made[ref].user, crumbs |-> made[ref].crumbs, from |-> home[t]]
<1>7. carriers' = carriers \cup {sent}
  BY <1>5, <1>6 DEF Carrier
<1>8. sent \in Payloads /\ Holds(sent, Side(sent.from))
  <2>. HIDE DEF made, ref
  <2>. QED
    BY <1>2, <1>3, <1>4 DEF Scopes, Payloads, Holds
<1>. HIDE DEF sent
<1>9. carriers' = carriers \cup {sent} /\ carriers \subseteq Payloads /\ IsFiniteSet(carriers)
  BY <1>1, <1>7 DEF sent, IInv, TypeOK, CarriersSound
<1>10. IsFiniteSet(carriers') /\ Cardinality(carriers') <= MaxCarriers
  <2>1. /\ Cardinality(carriers) \in Nat
        /\ IsFiniteSet(carriers \cup {sent})
        /\ Cardinality(carriers \cup {sent}) =
             IF sent \in carriers THEN Cardinality(carriers) ELSE Cardinality(carriers) + 1
    BY <1>9, FS_CardinalityType, FS_AddElement
  <2>2. MaxCarriers \in Nat
    BY SizesAssumption
  <2>. QED
    BY <1>5, <1>9, <2>1, <2>2
<1>11. carriers' \subseteq Payloads /\ CarriersSound'
  BY <1>5, <1>8, <1>9, <1>10 DEF IInv, CarriersSound, Holds, Side
<1>12. made[ref].user.by \in {made[ref].user.by, home[t], StartUp}
       /\ made[ref].crumbs \subseteq made[ref].crumbs \cup {home[t]}
  OBVIOUS
<1>. QED
  BY <1>3, <1>5, <1>10, <1>11, <1>12, TouchKeeps

LEMMA CurrentScope ==
  ASSUME IInv, NEW t \in Tasks, InBlock(t, "current")
  PROVE  heap[Last(blocks[t]).scope] \in Scopes
<1>1. heap \in Seq(Scopes) /\ blocks[t] \in Seq(Blocks) /\ blocks[t] # <<>>
  BY DEF IInv, TypeOK, InBlock
<1>2. Last(blocks[t]) \in Blocks
  BY <1>1, FrontFacts
<1>. QED
  BY <1>1, <1>2 DEF Blocks

\* Only the work of its block names somebody, or leaves breadcrumbs, on the current scope
\* a block hands out.
LEMMA CurrentTouchKeeps ==
  ASSUME IInv, NEW t \in Tasks, InBlock(t, "current"), NEW s \in Scopes,
         heap' = [heap EXCEPT ![Last(blocks[t]).scope] = s],
         s.user.by \in {heap[Last(blocks[t]).scope].user.by, home[t], StartUp},
         s.crumbs \subseteq heap[Last(blocks[t]).scope].crumbs \cup {home[t]},
         s.spans = heap[Last(blocks[t]).scope].spans,
         UNCHANGED <<app, iso, cur, blocks, home, status, served, carriers>>
  PROVE  IInv'
<1>1. TypeOK /\ Homes /\ Nesting /\ ScopesApart /\ CurrentsSound /\ CarriersSound /\ Ownership
  BY DEF IInv
<1>2. /\ heap \in Seq(Scopes) /\ home \in [Tasks -> Works]
      /\ blocks \in [Tasks -> Seq(Blocks)] /\ blocks[t] \in Seq(Blocks)
  BY <1>1 DEF TypeOK
<1>. DEFINE n == Len(blocks[t])
            scope == blocks[t][n].scope
<1>3. /\ n \in 1..Len(blocks[t]) /\ Last(blocks[t]) = blocks[t][n] /\ blocks[t][n] \in Blocks
      /\ blocks[t][n].kind = "current"
  <2>1. blocks[t] # <<>> /\ Last(blocks[t]).kind = "current"
    BY DEF InBlock
  <2>2. Len(blocks[t]) \in Nat \ {0} /\ Last(blocks[t]) = blocks[t][n] /\ Last(blocks[t]) \in Blocks
    BY <1>2, <2>1, FrontFacts
  <2>. QED
    BY <2>1, <2>2
<1>4. scope \in 1..Len(heap) /\ home[t] \in heap[scope].spans
  <2>1. blocks[t][n].home = home[t]
    BY <1>1, <1>3 DEF Nesting
  <2>2. blocks[t][n].home \in heap[scope].spans
    BY <1>1, <1>3 DEF ScopesApart
  <2>. QED
    BY <1>3, <2>1, <2>2 DEF Blocks
<1>5. /\ heap' = [heap EXCEPT ![scope] = s] /\ s.spans = heap[scope].spans
      /\ s.user.by \in {heap[scope].user.by, home[t], StartUp}
      /\ s.crumbs \subseteq heap[scope].crumbs \cup {home[t]}
  BY <1>3
<1>. HIDE DEF n, scope
<1>7. /\ heap' \in Seq(Scopes) /\ Len(heap') = Len(heap)
      /\ \A ref \in 1..Len(heap) : heap'[ref].spans = heap[ref].spans
      /\ \A ref \in 1..Len(heap) : ref # scope => heap'[ref] = heap[ref]
      /\ heap'[scope] = s
  <2>1. /\ heap' \in Seq(Scopes) /\ Len(heap') = Len(heap) /\ heap'[scope] = s
        /\ \A ref \in 1..Len(heap) : ref # scope => heap'[ref] = heap[ref]
    <3>1. heap' = [heap EXCEPT ![scope] = s]
      BY <1>5
    <3>2. heap \in Seq(Scopes) /\ scope \in 1..Len(heap) /\ s \in Scopes
      BY <1>2, <1>4
    <3>3. PICK k \in 1..Len(heap) : k = scope
      BY <3>2
    <3>4. LET r == [heap EXCEPT ![k] = s] IN
          /\ r \in Seq(Scopes) /\ Len(r) = Len(heap)
          /\ \A ref \in 1..Len(heap) : r[ref] = IF ref = k THEN s ELSE heap[ref]
      BY ONLY <3>2, ExceptSeq
    <3>5. heap' = [heap EXCEPT ![k] = s]
      BY ONLY <3>1, <3>3
    <3>. QED
      BY ONLY <3>3, <3>4, <3>5
  <2>. QED
    BY <1>4, <1>5, <2>1
<1>8. TypeOK'
  <2>1. Blocks' = Blocks
    BY <1>7 DEF Blocks
  <2>. QED
    BY <1>1, <1>5, <1>7, <2>1 DEF TypeOK, InRequest
<1>9. Homes' /\ Nesting' /\ CarriersSound'
  BY <1>1 DEF Homes, Nesting, CarriersSound, InRequest, Running, Holds, Side
<1>10. ScopesApart'
  <2>1. ASSUME NEW u \in Tasks
        PROVE  /\ iso'[u] # Unset => heap'[iso'[u]].spans = {}
               /\ cur'[u] # Unset => heap'[cur'[u]].spans # {}
    <3>1. iso[u] # Unset => iso[u] \in 1..Len(heap) /\ heap[iso[u]].spans = {}
      BY <1>1 DEF TypeOK, ScopesApart, Unset
    <3>2. cur[u] # Unset => cur[u] \in 1..Len(heap) /\ heap[cur[u]].spans # {}
      <4>1. cur[u] \in 0..Len(heap) /\ (cur[u] # Unset => heap[cur[u]].spans # {})
        BY <1>1 DEF TypeOK, ScopesApart
      <4>. QED
        BY <1>2, <4>1 DEF Unset
    <3>. QED
      BY <1>5, <1>7, <3>1, <3>2
  <2>2. ASSUME NEW u \in Tasks, NEW i \in 1..Len(blocks'[u])
        PROVE  LET a == blocks'[u][i] IN
               /\ a.kind = "current" => a.home \in heap'[a.scope].spans
               /\ a.kind = "current" /\ a.saved # Unset => heap'[a.saved].spans # {}
               /\ a.kind # "current" /\ a.saved # Unset => heap'[a.saved].spans = {}
    <3>1. i \in 1..Len(blocks[u]) /\ blocks'[u][i] = blocks[u][i] /\ blocks[u] \in Seq(Blocks)
      BY <1>2, <1>5, <2>2
    <3>2. blocks[u][i] \in Blocks
      BY <3>1
    <3>3. LET a == blocks[u][i] IN
          /\ a.kind = "current" => a.home \in heap[a.scope].spans
          /\ a.kind = "current" /\ a.saved # Unset => heap[a.saved].spans # {}
          /\ a.kind # "current" /\ a.saved # Unset => heap[a.saved].spans = {}
      BY <1>1, <3>1, BlockApart
    <3>4. /\ blocks[u][i].scope \in 1..Len(heap)
          /\ blocks[u][i].saved # Unset => blocks[u][i].saved \in 1..Len(heap)
      BY <3>2 DEF Blocks, Unset
    <3>. QED
      BY <1>7, <3>1, <3>3, <3>4
  <2>. QED
    BY <2>1, <2>2 DEF ScopesApart
<1>11. CurrentsSound'
  <2>1. ASSUME NEW ref \in 1..Len(heap'), heap'[ref].spans # {}
        PROVE  /\ Outside \notin heap'[ref].spans
                    => heap'[ref].user.by \in heap'[ref].spans \cup {StartUp, Outside}
               /\ heap'[ref].crumbs \subseteq heap'[ref].spans
    <3>1. /\ ref \in 1..Len(heap) /\ heap'[ref].spans = heap[ref].spans
          /\ Outside \notin heap[ref].spans
               => heap[ref].user.by \in heap[ref].spans \cup {StartUp, Outside}
          /\ heap[ref].crumbs \subseteq heap[ref].spans
      BY <1>1, <1>7, <2>1 DEF CurrentsSound
    <3>. QED
      BY <1>4, <1>5, <1>7, <3>1
  <2>. QED
    BY <2>1 DEF CurrentsSound
<1>12. Ownership'
  <2>1. PICK owner \in [1..Len(heap) -> Works] : Owned(owner)
    BY <1>1 DEF Ownership
  <2>2. Owned(owner)'
    BY <1>4, <1>7, <2>1 DEF Owned, Keeps, Running, Holds, Suits, Side
  <2>. QED
    BY <1>7, <2>1, <2>2 DEF Ownership
<1>. QED
  BY <1>8, <1>9, <1>10, <1>11, <1>12 DEF IInv

LEMMA SetCurrentUserKeeps ==
  ASSUME IInv, NEW t \in Tasks, NEW person \in People \cup {Nobody}, SetCurrentUser(t, person)
  PROVE  IInv'
<1>. DEFINE scope == heap[Last(blocks[t]).scope]
            s == Named(scope, person, t)
<1>1. scope \in Scopes /\ home \in [Tasks -> Works]
  BY CurrentScope DEF SetCurrentUser, IInv, TypeOK
<1>2. /\ s \in Scopes /\ s.user.by \in {home[t], StartUp}
      /\ s.crumbs = scope.crumbs /\ s.spans = scope.spans
  <2>. HIDE DEF scope
  <2>. QED
    BY <1>1, NamedFacts
<1>3. /\ InBlock(t, "current") /\ heap' = [heap EXCEPT ![Last(blocks[t]).scope] = s]
      /\ UNCHANGED <<app, iso, cur, blocks, home, status, served, carriers>>
  BY DEF SetCurrentUser, ctx
<1>. HIDE DEF s
<1>. QED
  BY <1>2, <1>3, CurrentTouchKeeps

LEMMA AddCurrentBreadcrumbKeeps ==
  ASSUME IInv, NEW t \in Tasks, AddCurrentBreadcrumb(t)
  PROVE  IInv'
<1>. DEFINE scope == heap[Last(blocks[t]).scope]
            s == [scope EXCEPT !.crumbs = @ \cup {home[t]}]
<1>1. scope \in Scopes /\ home[t] \in Works
  BY CurrentScope DEF AddCurrentBreadcrumb, IInv, TypeOK
<1>2. /\ s \in Scopes /\ s.user.by = scope.user.by
      /\ s.crumbs = scope.crumbs \cup {home[t]} /\ s.spans = scope.spans
  <2>. HIDE DEF scope
  <2>. QED
    BY <1>1 DEF Scopes
<1>3. /\ InBlock(t, "current") /\ heap' = [heap EXCEPT ![Last(blocks[t]).scope] = s]
      /\ UNCHANGED <<app, iso, cur, blocks, home, status, served, carriers>>
  BY DEF AddCurrentBreadcrumb, ctx
<1>. HIDE DEF s
<1>. QED
  BY <1>2, <1>3, CurrentTouchKeeps

-----------------------------------------------------------------------------
LEMMA InitIInv == Init => IInv
<1>1. Init => TypeOK /\ Homes /\ Nesting /\ ScopesApart /\ CurrentsSound
  BY TasksAssumption, SizesAssumption, FS_EmptySet
     DEF Init, TypeOK, Homes, Nesting, ScopesApart, CurrentsSound, InRequest, Running,
         Works, StartUp, Outside, Unset
<1>2. Init => CarriersSound
  BY FS_EmptySet DEF Init, CarriersSound
<1>3. ASSUME Init PROVE Ownership
  <2>. DEFINE w == [ref \in 1..Len(heap) |-> StartUp]
  <2>1. w \in [1..Len(heap) -> Works] /\ Owned(w)
    BY <1>3, WorksFacts DEF Init, Owned, Unset
  <2>. QED
    BY <2>1 DEF Ownership
<1>. QED
  BY <1>1, <1>2, <1>3 DEF IInv

LEMMA NextIInv == IInv /\ [Next]_vars => IInv'
<1>. SUFFICES ASSUME IInv, [Next]_vars PROVE IInv'
  OBVIOUS
<1>1. CASE Serving
  BY <1>1, ServeTaskKeeps, ServeSocketKeeps, ServeThreadKeeps, BeforeRequestKeeps,
     BlockEndKeeps, BodySentKeeps DEF Serving
<1>2. CASE Working
  <2>1. PICK t \in Tasks :
          \/ NewScope(t) \/ Leave(t) \/ AddBreadcrumb(t) \/ AddCurrentBreadcrumb(t) \/ Carrier(t)
          \/ \E child \in Tasks : Spawn(t, child)
          \/ \E data \in Received : Continue(t, data)
          \/ \E person \in People \cup {Nobody} :
               Identified(t, person) \/ SetUser(t, person) \/ SetCurrentUser(t, person)
    BY <1>2 DEF Working
  <2>2. CASE NewScope(t) \/ Leave(t) \/ AddBreadcrumb(t) \/ AddCurrentBreadcrumb(t) \/ Carrier(t)
    BY <2>2, NewScopeKeeps, BlockEndKeeps, AddBreadcrumbKeeps, AddCurrentBreadcrumbKeeps,
       CarrierKeeps
  <2>3. CASE \E child \in Tasks : Spawn(t, child)
    BY <2>3, SpawnKeeps
  <2>4. CASE \E data \in Received : Continue(t, data)
    BY <2>4, ContinueKeeps
  <2>5. CASE \E person \in People \cup {Nobody} :
               Identified(t, person) \/ SetUser(t, person) \/ SetCurrentUser(t, person)
    BY <2>5, IdentifiedKeeps, SetUserKeeps, SetCurrentUserKeeps
  <2>. QED
    BY <2>1, <2>2, <2>3, <2>4, <2>5
<1>3. CASE UNCHANGED vars
  <2>1. Blocks' = Blocks
    BY <1>3 DEF vars, Blocks
  <2>2. /\ TypeOK' /\ Homes' /\ Nesting' /\ CurrentsSound' /\ CarriersSound'
    BY <1>3, <2>1
       DEF IInv, vars, ctx, TypeOK, Homes, Nesting, CurrentsSound, CarriersSound, InRequest,
           Running, Holds, Side
  <2>3. ScopesApart'
    BY <1>3 DEF IInv, vars, ctx, ScopesApart
  <2>4. Ownership'
    <3>1. PICK owner \in [1..Len(heap) -> Works] : Owned(owner)
      BY DEF IInv, Ownership
    <3>2. Owned(owner)' /\ heap' = heap
      BY <1>3, <3>1 DEF vars, ctx, Owned, Keeps, Running, Holds, Suits, Side
    <3>. QED
      BY <3>1, <3>2 DEF Ownership
  <2>. QED
    BY <2>2, <2>3, <2>4 DEF IInv
<1>. QED
  BY <1>1, <1>2, <1>3 DEF Next

\* The isolation scope of isolated code holds its own doing, and what came from outside.
LEMMA IsolatedScope ==
  ASSUME IInv, NEW t \in Tasks, Isolated(t), iso[t] # Unset
  PROVE  /\ heap[iso[t]].user.by \in {home[t], StartUp, Outside}
         /\ heap[iso[t]].crumbs \subseteq {home[t], Outside}
<1>1. heap \in Seq(Scopes) /\ iso \in [Tasks -> 0..Len(heap)] /\ home[t] \in Works
  BY DEF IInv, TypeOK
<1>2. Keeps(t) /\ home[t] # Outside
  BY DEF Isolated, Keeps, Near
<1>3. Holds(heap[iso[t]], Side(home[t])) /\ Side(home[t]) = home[t]
  BY <1>1, <1>2, OwnScope, LazyFacts, SideFacts
<1>. QED
  BY <1>2, <1>3 DEF Holds

\* The invariant the guarantees below rest on: who owns the scope a task works on.
THEOREM MonitorScopeInvariant == Spec => []IInv
  BY InitIInv, NextIInv, PTL DEF Spec

\* Contexts and blocks refer to scopes there are, and a request has one from its first
\* block to its last, however blocks nest and contexts are copied.
THEOREM MonitorScopeTyped == Spec => []TypeOK
<1>1. IInv => TypeOK
  BY DEF IInv
<1>. QED
  BY <1>1, MonitorScopeInvariant, PTL

\* An event captured for one request or for its jobs names a user its own work, start-up
\* code or the work around its new_scope() set, or one set outside every block.
THEOREM MonitorScopeUsersStayHome == Spec => []UsersStayHome
<1>1. ASSUME IInv, NEW t \in Tasks, Isolated(t), EventUser(t).id # Nobody
      PROVE  EventUser(t).by \in Near(t) \cup {StartUp, Outside}
  <2>1. /\ heap \in Seq(Scopes) /\ iso \in [Tasks -> 0..Len(heap)]
        /\ cur \in [Tasks -> 0..Len(heap)] /\ home[t] \in Works
    BY <1>1 DEF IInv, TypeOK
  <2>2. iso[t] # Unset => heap[iso[t]].user.by \in {home[t], StartUp, Outside}
    BY <1>1, <2>1, IsolatedScope
  <2>3. cur[t] # Unset => heap[cur[t]].user.by \in Spans(t) \cup {StartUp, Outside}
    <3>1. cur[t] # Unset => cur[t] \in 1..Len(heap) /\ heap[cur[t]].spans # {}
      BY <1>1, <2>1 DEF IInv, ScopesApart, Unset
    <3>2. cur[t] # Unset => Outside \notin heap[cur[t]].spans
      BY <1>1 DEF Isolated, Near, Spans
    <3>. QED
      BY <1>1, <3>1, <3>2 DEF IInv, CurrentsSound, Spans
  <2>4. \/ EventUser(t) = NoUser
        \/ iso[t] # Unset /\ EventUser(t) = heap[iso[t]].user
        \/ cur[t] # Unset /\ EventUser(t) = heap[cur[t]].user
    BY DEF EventUser
  <2>. QED
    BY <2>2, <2>3, <2>4 DEF NoUser, Near
<1>2. IInv => UsersStayHome
  BY <1>1 DEF UsersStayHome
<1>. QED
  BY <1>2, MonitorScopeInvariant, PTL

\* It carries the breadcrumbs of its own work and of the works around its new_scope(), and
\* those left outside every block.
THEOREM MonitorScopeBreadcrumbsStayHome == Spec => []BreadcrumbsStayHome
<1>1. ASSUME IInv, NEW t \in Tasks, Isolated(t)
      PROVE  EventBreadcrumbs(t) \subseteq Near(t) \cup {Outside}
  <2>1. /\ heap \in Seq(Scopes) /\ iso \in [Tasks -> 0..Len(heap)]
        /\ cur \in [Tasks -> 0..Len(heap)]
    BY <1>1 DEF IInv, TypeOK
  <2>2. iso[t] # Unset => heap[iso[t]].crumbs \subseteq {home[t], Outside}
    BY <1>1, IsolatedScope
  <2>3. cur[t] # Unset => heap[cur[t]].crumbs \subseteq Spans(t)
    <3>1. cur[t] # Unset => cur[t] \in 1..Len(heap) /\ heap[cur[t]].spans # {}
      BY <1>1, <2>1 DEF IInv, ScopesApart, Unset
    <3>. QED
      BY <1>1, <3>1 DEF IInv, CurrentsSound, Spans
  <2>. QED
    BY <2>2, <2>3 DEF EventBreadcrumbs, Layers, Near
<1>2. IInv => BreadcrumbsStayHome
  BY <1>1 DEF BreadcrumbsStayHome
<1>. QED
  BY <1>2, MonitorScopeInvariant, PTL
=============================================================================
