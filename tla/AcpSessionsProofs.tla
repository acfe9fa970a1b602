-------------------------- MODULE AcpSessionsProofs --------------------------
(***************************************************************************)
(* Proofs about the ACP session manager, for any callers, sessions and     *)
(* requests, and whatever an earlier process has left in the store.        *)
(*                                                                         *)
(* The argument.  A lock has one holder, and an operation is recorded in   *)
(* actors[s] before it writes the session s: whoever writes s beside the   *)
(* operation that works on it has another key, and the session is Split.   *)
(* With coherent requests that cannot be: every metadata record, stored or *)
(* copied, stems from the bootstraps (one that names its session, and one  *)
(* that names its conversation, have its actor key), no update changes its *)
(* key, and so an operation holds the one lock of the session.             *)
(***************************************************************************)
EXTENDS AcpSessionsProps, TLAPS

Sweeping == {"list", "sweep", "evict"}
WithMeta == {"touch", "start", "register", "subscribe", "run", "finish_ok", "finish_err",
             "look", "mark", "preempt", "call"}
Unlocked == {"idle", "look", "mark", "preempt"}

\* Which operations come to a step.
KindAt(step, k, dest) ==
    /\ step = "wait" => k \notin {"ensure", "snapshot"}
    /\ step \in Sweeping =>
          CASE k = "turn" -> dest \in {"ensure", "resolve"}
            [] k = "ensure" -> dest = "resolve"
            [] k = "snapshot" -> dest = "done"
            [] OTHER -> dest = "read"
    /\ step \in {"resolve", "by_route", "by_conversation", "limit", "count", "touch", "create"} =>
          k \in {"turn", "ensure"}
    /\ step \in {"start", "register", "subscribe", "run", "finish_ok", "finish_err"} => k = "turn"
    /\ step \in {"look", "mark", "preempt"} => k \in {"cancel", "close"}
    /\ step \in {"read", "call"} => k \in {"status", "control", "cancel", "close"}

\* The requests agree; a copy agrees with a request; the lock of an operation.
Agreed == Coherent(traffic.bootstraps)
Agrees(m, b) == Agreed => ActorKey(m) = ActorKey(b)
LockFor(l, k, b) ==
    l \in ActorKeys /\ (k = "turn" => l = ActorKey(b)) /\ (Agreed => l = ActorKey(b))

\* resolve_existing_session only makes the lookups the request has keys for.
Reached(step, b) ==
    /\ step = "by_route" => b.binding # None
    /\ step = "by_conversation" => b.conversation # None

\* Where a caller is, what it has and what it has locked.
Placed(p) ==
    /\ Reached(pc[p], req[p])
    /\ pc[p] # "idle" => kind[p] \in AllKinds /\ req[p] \in traffic.bootstraps
    /\ KindAt(pc[p], kind[p], back[p])
    /\ meta[p] # None <=> pc[p] \in WithMeta
    /\ IF pc[p] \in Unlocked \/ kind[p] \in {"ensure", "snapshot"} THEN lock[p] = None
       ELSE LockFor(lock[p], kind[p], req[p])

\* Metadata stems from the bootstraps, when these agree.
Sourced(m) == Agreed =>
    /\ \E b \in traffic.bootstraps : b.session = m.session /\ ActorKey(b) = ActorKey(m)
    /\ m.conversation # None =>
          \E b \in traffic.bootstraps : b.conversation = m.conversation /\ ActorKey(b) = ActorKey(m)

AllSourced ==
    /\ \A s \in Sessions : store[s] # None => Sourced(store[s])
    /\ \A p \in Callers : meta[p] # None => Sourced(meta[p]) /\ Agrees(meta[p], req[p])

\* An actor key of the session s, when the requests agree.
KeyOf(k, s) == Agreed => \E b \in traffic.bootstraps : b.session = s /\ ActorKey(b) = k

\* A copy that is held under a lock has been taken up under that lock.
AllTakenUp ==
    /\ \A s \in Sessions : \A k \in actors[s] : KeyOf(k, s)
    /\ \A p \in Callers : meta[p] # None /\ lock[p] # None => lock[p] \in actors[meta[p].session]

LockExclusive ==
    \A p, q \in Callers :
        lock[p] # None /\ lock[p] = lock[q] /\ pc[p] # "wait" /\ pc[q] # "wait" => p = q

AllPlaced == \A p \in Callers : Placed(p)

\* Only turns in the backend have been forgotten.
ForgottenRun == \A p \in forgotten : Running(p)

IInv ==
    /\ TypeOK /\ AllPlaced /\ AllSourced /\ AllTakenUp
    /\ LockExclusive /\ ActiveTracked /\ ForgottenRun

-----------------------------------------------------------------------------
(* Actor keys of bootstraps and of metadata.                                *)

\* What a request or a stored session says leads to an actor key.
LEMMA KeyTypes ==
  /\ \A b \in Bootstraps : ActorKey(b) \in ActorKeys
  /\ \A m \in Metadata : ActorKey(m) \in ActorKeys
  /\ \A b \in Bootstraps : b.session \in Sessions
  <1>1. ASSUME NEW b \in Bootstraps
        PROVE  ActorKey(b) \in ActorKeys /\ b.session \in Sessions
    <2>1. b.session \in Sessions /\ b.conversation \in Conversations /\ b.binding \in Bindings
      BY DEF Sessions, Conversations, Bindings
    <2> HIDE DEF Sessions, Conversations, Bindings
    <2> QED BY <2>1 DEF ActorKey, ActorKeys
  <1>2. ASSUME NEW m \in Metadata
        PROVE  ActorKey(m) \in ActorKeys
    <2> HIDE DEF Sessions, Conversations, Bindings
    <2> QED BY DEF ActorKey, ActorKeys, Metadata
  <1> QED BY <1>1, <1>2

\* The requests of a history are well-formed.
LEMMA TrafficTypes ==
  ASSUME TypeOK
  PROVE  /\ traffic.bootstraps \subseteq Bootstraps /\ traffic.kinds \subseteq AllKinds
         /\ traffic.left \subseteq States
  BY TrafficAssumption DEF TypeOK, Bootstraps

(* The state and the touch do not change what a session is.                 *)
LEMMA TouchedFacts ==
  ASSUME NEW m \in Metadata, NEW state \in States
  PROVE  LET n == Touched(m, state)
         IN  /\ n \in Metadata /\ n.session = m.session /\ n.state = state /\ n.outside = FALSE
             /\ ActorKey(n) = ActorKey(m) /\ (Sourced(m) => Sourced(n))
  <1> DEFINE n == Touched(m, state)
  <1>1. /\ n \in Metadata /\ n.session = m.session /\ n.state = state /\ n.outside = FALSE
        /\ n.conversation = m.conversation /\ n.binding = m.binding
    BY DEF Touched, Metadata
  <1> HIDE DEF n
  <1>2. ActorKey(n) = ActorKey(m)
    BY <1>1 DEF ActorKey
  <1>3. Sourced(m) => Sourced(n)
    BY <1>1, <1>2 DEF Sourced
  <1> QED BY <1>1, <1>2, <1>3 DEF n

\* Growing idle, or being used, changes nothing that the keys depend on.
LEMMA AgedFacts ==
  ASSUME NEW m \in Metadata, NEW idle \in BOOLEAN
  PROVE  LET n == [m EXCEPT !.idle = idle]
         IN  /\ n \in Metadata /\ n.session = m.session /\ n.state = m.state
             /\ n.outside = m.outside
             /\ ActorKey(n) = ActorKey(m) /\ (Sourced(m) => Sourced(n))
  <1> DEFINE n == [m EXCEPT !.idle = idle]
  <1>1. /\ n \in Metadata /\ n.session = m.session /\ n.state = m.state
        /\ n.outside = m.outside
        /\ n.conversation = m.conversation /\ n.binding = m.binding
    BY DEF Metadata
  <1> HIDE DEF n
  <1>2. ActorKey(n) = ActorKey(m)
    BY <1>1 DEF ActorKey
  <1>3. Sourced(m) => Sourced(n)
    BY <1>1, <1>2 DEF Sourced
  <1> QED BY <1>1, <1>2, <1>3 DEF n

(* When the requests agree, a session's actor key is that of whoever names  *)
(* the session ...                                                          *)
LEMMA SessionKey ==
  ASSUME NEW m, Sourced(m), NEW b \in traffic.bootstraps, b.session = m.session
  PROVE  Agrees(m, b)
  BY DEF Sourced, Coherent, Agreed, Agrees

(* ... and of whoever finds it (resolve_existing_session).                  *)
LEMMA ExistingKey ==
  ASSUME TypeOK, AllSourced, NEW p \in Callers, req[p] \in traffic.bootstraps,
         pc[p] \in {"resolve", "by_route", "by_conversation"}, Reached(pc[p], req[p]),
         NEW s \in Existing(p)
  PROVE  /\ s \in Sessions /\ store[s] \in Metadata /\ store[s].session = s
         /\ Sourced(store[s]) /\ Agrees(store[s], req[p])
  <1> DEFINE b == req[p]
  <1>1. s \in Sessions /\ store[s] # None
    BY DEF Existing
  <1>2. store[s] \in Metadata /\ store[s].session = s /\ Sourced(store[s])
    BY <1>1 DEF TypeOK, AllSourced
  <1>3. s = b.session => Agrees(store[s], b)
    BY <1>2, SessionKey
  <1>4. b.binding # None /\ store[s].binding = b.binding => Agrees(store[s], b)
    BY DEF ActorKey, Agrees
  <1>5. b.conversation # None /\ store[s].conversation = b.conversation => Agrees(store[s], b)
    BY <1>2 DEF Sourced, Coherent, Agreed, Agrees
  <1>6. \/ s = b.session
        \/ b.binding # None /\ store[s].binding = b.binding
        \/ b.conversation # None /\ store[s].conversation = b.conversation
    BY DEF Existing, Reached
  <1> QED BY <1>1, <1>2, <1>3, <1>4, <1>5, <1>6

(* validate_and_touch_existing_session keeps the session, and its actor     *)
(* when the requests agree.                                                 *)
LEMMA ValidatedFacts ==
  ASSUME TypeOK, NEW m \in Metadata, Sourced(m), NEW b \in traffic.bootstraps,
         NEW outside \in BOOLEAN, Agrees(m, b), Validated(m, b, outside) # None
  PROVE  LET n == Validated(m, b, outside)
         IN  /\ n \in Metadata /\ n.session = m.session /\ n.state = m.state
             /\ n.outside = outside /\ Agrees(n, b) /\ Sourced(n)
  <1> DEFINE binding == IF m.binding = None THEN b.binding ELSE m.binding
             conversation == IF b.conversation = None \/ (binding # None /\ m.conversation # None)
                             THEN m.conversation ELSE b.conversation
             n == Validated(m, b, outside)
  <1>1. n = [m EXCEPT !.binding = binding, !.idle = FALSE, !.outside = outside,
                      !.conversation = conversation]
    BY DEF Validated
  <1>2. b.conversation \in Conversations /\ b.binding \in Bindings
    BY TrafficTypes DEF Conversations, Bindings
  <1>3. binding \in Bindings /\ conversation \in Conversations
    BY <1>2 DEF Metadata
  <1>4. ActorKey(m) = ActorKey(b) =>
           m.binding = binding /\ (binding = None => m.conversation = conversation)
    BY DEF ActorKey
  <1> HIDE DEF binding, n
  <1>5. /\ conversation \in {m.conversation, b.conversation}
    OBVIOUS
  <1> HIDE DEF conversation
  <1>6. /\ n \in Metadata /\ n.session = m.session /\ n.state = m.state
        /\ n.outside = outside /\ n.binding = binding /\ n.conversation = conversation
    BY <1>1, <1>3 DEF Metadata
  <1>7. Agreed => ActorKey(n) = ActorKey(m) /\ ActorKey(m) = ActorKey(b)
    BY <1>4, <1>6 DEF ActorKey, Agrees
  <1>8. Sourced(n)
    BY <1>5, <1>6, <1>7 DEF Sourced
  <1> QED BY <1>6, <1>7, <1>8 DEF n, Agrees

(* The record of a session that is made for b.                              *)
LEMMA MadeFacts ==
  ASSUME TypeOK, NEW b \in traffic.bootstraps, NEW state \in States, NEW outside \in BOOLEAN
  PROVE  LET n == Made(b, state, outside)
         IN  /\ n \in Metadata /\ n.session = b.session /\ n.state = state
             /\ n.outside = outside /\ ActorKey(n) = ActorKey(b) /\ Sourced(n)
  <1> DEFINE n == Made(b, state, outside)
  <1>1. /\ b.session \in Sessions /\ b.conversation \in Conversations
        /\ b.binding \in Bindings
    BY TrafficTypes DEF Sessions, Conversations, Bindings
  <1>2. /\ n \in Metadata /\ n.session = b.session /\ n.state = state /\ n.outside = outside
        /\ n.conversation = b.conversation /\ n.binding = b.binding
    BY <1>1 DEF Metadata, Made
  <1> HIDE DEF n
  <1>3. ActorKey(n) = ActorKey(b)
    BY <1>2 DEF ActorKey
  <1>4. Sourced(n)
    BY <1>2, <1>3 DEF Sourced
  <1> QED BY <1>2, <1>3, <1>4 DEF n

-----------------------------------------------------------------------------
(* What a step must leave behind, part by part.                             *)

StoreSafe ==
    /\ store' \in [Sessions -> Metadata \cup {None}]
    /\ \A s \in Sessions : store'[s] # None => store'[s].session = s /\ Sourced(store'[s])

\* The three ways to write the store: not at all, a removal, an upsert.
LEMMA StoreKept ==
  ASSUME IInv
  PROVE  /\ UNCHANGED store => StoreSafe
         /\ \A s : store' = [store EXCEPT ![s] = None] => StoreSafe
         /\ \A m \in Metadata : Sourced(m) /\ Upsert(m) => StoreSafe
  <1>1. UNCHANGED store => StoreSafe
    BY DEF IInv, TypeOK, AllSourced, StoreSafe
  <1>2. ASSUME NEW s, store' = [store EXCEPT ![s] = None]
        PROVE  StoreSafe
    BY <1>2 DEF IInv, TypeOK, AllSourced, StoreSafe
  <1>3. ASSUME NEW m \in Metadata, Sourced(m), Upsert(m)
        PROVE  StoreSafe
    <2>1. m.session \in Sessions
      BY DEF Metadata
    <2> HIDE DEF Metadata, Sourced
    <2> QED BY <1>3, <2>1 DEF IInv, TypeOK, AllSourced, StoreSafe, Upsert
  <1> QED BY <1>1, <1>2, <1>3

\* Only p moves.
Alone(p) ==
    /\ UNCHANGED traffic
    /\ \A q \in Callers : q # p =>
          /\ pc'[q] = pc[q] /\ kind'[q] = kind[q] /\ req'[q] = req[q]
          /\ meta'[q] = meta[q] /\ lock'[q] = lock[q] /\ back'[q] = back[q]

LocalTypes ==
    /\ pc' \in [Callers -> Steps] /\ kind' \in [Callers -> traffic.kinds \cup {None}]
    /\ req' \in [Callers -> Bootstraps \cup {None}]
    /\ meta' \in [Callers -> Metadata \cup {None}]
    /\ lock' \in [Callers -> ActorKeys \cup {None}]
    /\ todo' \in [Callers -> SUBSET [session : Sessions, key : ActorKeys]]
    /\ victim' \in [Callers -> Sessions \cup {None}]
    /\ back' \in [Callers -> {"idle", "ensure", "resolve", "read", "done"}]

MetaSafe(p) == meta'[p] # None => Sourced(meta'[p]) /\ Agrees(meta'[p], req'[p])

\* actors grows, by keys of the session, and p has taken up what it has.
ActorsSafe(p) ==
    /\ actors' \in [Sessions -> SUBSET ActorKeys]
    /\ \A s \in Sessions : actors[s] \subseteq actors'[s] /\ \A k \in actors'[s] : KeyOf(k, s)
    /\ meta'[p] # None /\ lock'[p] # None => lock'[p] \in actors'[meta'[p].session]

\* p takes no lock that another holds.
LockSafe(p) ==
    \/ pc'[p] = "wait" \/ lock'[p] = None
    \/ pc[p] # "wait" /\ lock'[p] = lock[p]
    \/ \A q \in Callers : ~Holds(q, lock'[p])

\* No turn is registered or forgotten.
ActiveSame(p) == UNCHANGED <<active, forgotten>> /\ (Running(p)' <=> Running(p)) /\ (Running(p) => UNCHANGED lock)

LocalSafe(p) == Alone(p) /\ LocalTypes /\ Placed(p)' /\ MetaSafe(p) /\ LockSafe(p)

\* A step that leaves the active turns alone leaves them tracked.
LEMMA ActiveKept ==
  ASSUME IInv, NEW p \in Callers, Alone(p), ActiveSame(p)
  PROVE  ActiveTracked' /\ ForgottenRun'
  <1>1. ASSUME NEW q \in Callers
        PROVE  /\ Running(q)' <=> Running(q)
               /\ Running(q) => lock'[q] = lock[q]
    BY DEF Alone, ActiveSame, Running
  <1>2. (Coherent(traffic.bootstraps) => forgotten = {})'
    BY DEF IInv, ActiveTracked, ActiveSame, Alone, Coherent
  <1>3. \A k \in ActorKeys, q \in Callers :
           active'[k] = q <=> Running(q)' /\ lock'[q] = k /\ q \notin forgotten'
    BY <1>1 DEF IInv, ActiveTracked, ActiveSame
  <1>4. ForgottenRun'
    BY <1>1 DEF IInv, TypeOK, ForgottenRun, ActiveSame
  <1> QED BY <1>2, <1>3, <1>4 DEF ActiveTracked

\* A step that takes up no session, with the copy of one it has or with none.
LEMMA ActorsStay ==
  ASSUME IInv, NEW p \in Callers, UNCHANGED actors,
         \/ meta'[p] = None \/ lock'[p] = None
         \/ meta[p] # None /\ meta'[p].session = meta[p].session /\ lock'[p] = lock[p]
  PROVE  ActorsSafe(p)
  BY DEF IInv, TypeOK, AllTakenUp, ActorsSafe

\* A step that takes up the session of its copy with the lock it has, if any.
LEMMA ActorsGrow ==
  ASSUME IInv, NEW p \in Callers, NEW s \in Sessions, TakesUp(p, s), UNCHANGED lock,
         meta'[p] # None => meta'[p].session = s, lock[p] = None \/ KeyOf(lock[p], s)
  PROVE  ActorsSafe(p)
  <1>1. lock[p] \in ActorKeys \cup {None} /\ actors \in [Sessions -> SUBSET ActorKeys]
    BY DEF IInv, TypeOK
  <1> HIDE DEF ActorKeys, Sessions
  <1>2. \A r \in Sessions : actors'[r] = IF r = s THEN actors[s] \cup ({lock[p]} \ {None})
                                        ELSE actors[r]
    BY <1>1 DEF TakesUp
  <1>3. actors' \in [Sessions -> SUBSET ActorKeys]
    BY <1>1 DEF TakesUp
  <1>4. \A r \in Sessions : \A k \in actors[r] : KeyOf(k, r)
    BY DEF IInv, AllTakenUp
  <1>5. \A r \in Sessions : actors[r] \subseteq actors'[r] /\ \A k \in actors'[r] : KeyOf(k, r)
    BY <1>2, <1>4
  <1>6. meta'[p] # None /\ lock'[p] # None => lock'[p] \in actors'[meta'[p].session]
    BY <1>2
  <1> QED BY <1>3, <1>5, <1>6 DEF ActorsSafe

(* The parts together are the invariant.                                    *)
LEMMA PartsKeep ==
  ASSUME IInv, NEW p \in Callers, LocalSafe(p), StoreSafe, ActorsSafe(p),
         aborted' \in [Callers -> SUBSET Sessions],
         active' \in [ActorKeys -> Callers \cup {None}], forgotten' \subseteq Callers,
         ActiveTracked', ForgottenRun'
  PROVE  IInv'
  <1> USE DEF LocalSafe, Alone
  <1>1. TypeOK'
    BY DEF IInv, TypeOK, LocalTypes, StoreSafe, ActorsSafe
  <1>a. Agreed' <=> Agreed
    BY DEF Agreed, Coherent
  <1>2. AllPlaced'
    <2>1. ASSUME NEW q \in Callers, q # p PROVE Placed(q)'
      <3>1. Placed(q)
        BY DEF IInv, AllPlaced
      <3> HIDE DEF Agreed
      <3> QED BY <1>a, <2>1, <3>1 DEF Placed, LockFor
    <2> QED BY <2>1 DEF AllPlaced
  <1>3. AllSourced'
    <2>1. ASSUME NEW q \in Callers, meta'[q] # None
          PROVE  Sourced(meta'[q]) /\ Agrees(meta'[q], req'[q])
      BY <2>1 DEF IInv, AllSourced, MetaSafe
    <2>3. ASSUME NEW q \in Callers, meta'[q] # None
          PROVE  Sourced(meta[q])' /\ Agrees(meta[q], req[q])'
      BY <1>a, <2>1, <2>3 DEF Sourced, Agrees
    <2>4. ASSUME NEW s \in Sessions, store'[s] # None
          PROVE  Sourced(store[s])'
      BY <1>a, <2>4 DEF StoreSafe, Sourced
    <2> QED BY <2>3, <2>4 DEF AllSourced
  <1>4. LockExclusive'
    <2> SUFFICES ASSUME NEW q \in Callers, NEW r \in Callers, lock'[q] # None, lock'[q] = lock'[r],
                        pc'[q] # "wait", pc'[r] # "wait"
                 PROVE  q = r
      BY DEF LockExclusive
    <2> QED BY DEF IInv, LockExclusive, LockSafe, Holds
  <1>5. AllTakenUp'
    <2>1. ASSUME NEW s \in Sessions, NEW k \in actors'[s] PROVE KeyOf(k, s)'
      BY <1>a, <2>1 DEF ActorsSafe, KeyOf
    <2>2. ASSUME NEW q \in Callers, meta'[q] # None, lock'[q] # None
          PROVE  lock'[q] \in actors'[meta'[q].session]
      <3>1. CASE q = p
        BY <2>2, <3>1 DEF ActorsSafe
      <3>2. CASE q # p
        <4>1. meta'[q] = meta[q] /\ lock'[q] = lock[q]
          BY <3>2
        <4>2. lock[q] \in actors[meta[q].session] /\ meta[q] \in Metadata
          BY <2>2, <4>1 DEF IInv, AllTakenUp, TypeOK
        <4>3. meta[q].session \in Sessions
          BY <4>2 DEF Metadata
        <4> QED BY <4>1, <4>2, <4>3 DEF ActorsSafe
      <3> QED BY <3>1, <3>2
    <2> QED BY <2>1, <2>2 DEF AllTakenUp
  <1> QED BY <1>1, <1>2, <1>3, <1>4, <1>5 DEF IInv

-----------------------------------------------------------------------------
(* The two ways in which most steps move their caller.                      *)

(* An operation that returns gives its lock and its copy back.              *)
LEMMA ReturnSafe ==
  ASSUME IInv, NEW p \in Callers, Return(p), UNCHANGED <<traffic, todo, victim>>
  PROVE  LocalSafe(p) /\ pc'[p] = "idle"
  <1>1. /\ pc'[p] = "idle" /\ meta'[p] = None /\ lock'[p] = None /\ kind'[p] = None
        /\ back'[p] = "idle"
    BY DEF IInv, TypeOK, Return
  <1>2. Alone(p)
    BY DEF IInv, TypeOK, Return, Alone
  <1>3. LocalTypes
    BY DEF IInv, TypeOK, Return, LocalTypes, Steps
  <1>4. Placed(p)'
    BY <1>1 DEF Placed, Reached, KindAt, WithMeta, Unlocked, Sweeping
  <1> QED BY <1>1, <1>2, <1>3, <1>4 DEF LocalSafe, MetaSafe, LockSafe

\* p goes on to step with the lock it has, with the copy m.
StepTo(p, step, m, dest) ==
    /\ pc' = [pc EXCEPT ![p] = step] /\ step \in Steps
    /\ meta' = [meta EXCEPT ![p] = m] /\ m \in Metadata \cup {None}
    /\ back' = [back EXCEPT ![p] = dest] /\ dest \in {"idle", "ensure", "resolve", "read", "done"}
    /\ UNCHANGED <<traffic, kind, req, lock>>
    /\ todo' \in [Callers -> SUBSET [session : Sessions, key : ActorKeys]]
    /\ victim' \in [Callers -> Sessions \cup {None}]
    /\ {pc[p], step} \cap {"wait", "idle"} = {}
    /\ pc[p] \in Unlocked <=> step \in Unlocked
    /\ KindAt(step, kind[p], dest) /\ Reached(step, req[p])
    /\ m # None <=> step \in WithMeta
    /\ m # None => Sourced(m) /\ Agrees(m, req[p])

(* Such a step is safe.                                                     *)
LEMMA StepSafe ==
  ASSUME IInv, NEW p \in Callers, NEW step, NEW m, NEW dest, StepTo(p, step, m, dest)
  PROVE  LocalSafe(p) /\ pc'[p] = step
  <1> USE DEF StepTo
  <1> HIDE DEF Metadata, ActorKeys, Sessions, Steps, Sourced, KindAt, WithMeta, Unlocked
  <1>1. pc'[p] = step /\ meta'[p] = m /\ back'[p] = dest
    BY DEF IInv, TypeOK
  <1>2. Alone(p)
    BY DEF IInv, TypeOK, Alone
  <1>3. LocalTypes
    BY DEF IInv, TypeOK, LocalTypes
  <1>4. Placed(p)'
    <2>1. Agreed' <=> Agreed
      BY DEF Agreed, Coherent
    <2> HIDE DEF Agreed
    <2> QED BY <1>1, <2>1 DEF IInv, AllPlaced, Placed, LockFor
  <1> QED BY <1>1, <1>2, <1>3, <1>4 DEF LocalSafe, MetaSafe, LockSafe

(* A turn that is not registered by the step, nor was before.               *)
LEMMA ActiveAside ==
  ASSUME IInv, NEW p \in Callers, LocalSafe(p), UNCHANGED <<active, forgotten>>,
         pc[p] \notin {"subscribe", "run"}, pc'[p] \notin {"subscribe", "run"}
  PROVE  ActiveTracked' /\ ForgottenRun'
  BY ActiveKept DEF LocalSafe, ActiveSame, Running

\* A step that does not write the store.
LEMMA StoreStays == ASSUME IInv, UNCHANGED store PROVE StoreSafe
  BY StoreKept

(* What a caller under way has.                                             *)
LEMMA CopyFacts ==
  ASSUME IInv, NEW p \in Callers
  PROVE  /\ meta[p] \in Metadata \cup {None}
         /\ back[p] \in {"idle", "ensure", "resolve", "read", "done"}
         /\ meta[p] # None => Sourced(meta[p]) /\ Agrees(meta[p], req[p])
         /\ pc[p] \in WithMeta <=> meta[p] # None
         /\ pc[p] # "idle" => kind[p] \in AllKinds /\ req[p] \in traffic.bootstraps
         /\ KindAt(pc[p], kind[p], back[p])
         /\ meta' = meta => meta' = [meta EXCEPT ![p] = meta[p]]
         /\ back' = back => back' = [back EXCEPT ![p] = back[p]]
         /\ todo \in [Callers -> SUBSET [session : Sessions, key : ActorKeys]]
         /\ victim \in [Callers -> Sessions \cup {None}]
  BY DEF IInv, TypeOK, AllSourced, AllPlaced, Placed

(* A safe step that has nothing to do with registered turns.                *)
LEMMA AsideKeeps ==
  ASSUME IInv, NEW p \in Callers, LocalSafe(p), StoreSafe, ActorsSafe(p), UNCHANGED turns,
         pc[p] \notin {"subscribe", "run"}, pc'[p] \notin {"subscribe", "run"}
  PROVE  IInv'
  <1>1. UNCHANGED <<active, aborted, forgotten>>
    BY DEF turns
  <1>2. ActiveTracked' /\ ForgottenRun'
    BY <1>1, ActiveAside
  <1> QED BY <1>1, <1>2, PartsKeep DEF IInv, TypeOK

\* p goes on with the copy it has, or without one.
LEMMA StepKeeps ==
  ASSUME IInv, NEW p \in Callers, NEW step, NEW m, NEW dest, StepTo(p, step, m, dest), StoreSafe,
         UNCHANGED <<turns, actors>>, m = None \/ (meta[p] # None /\ m.session = meta[p].session),
         {pc[p], step} \cap {"subscribe", "run"} = {}
  PROVE  IInv'
  <1>1. LocalSafe(p) /\ pc'[p] = step
    BY StepSafe
  <1>2. meta'[p] = m /\ lock'[p] = lock[p]
    BY DEF StepTo, IInv, TypeOK
  <1>3. ActorsSafe(p)
    BY <1>2, ActorsStay
  <1> QED BY <1>1, <1>3, AsideKeeps

\* p takes up a session and goes on with its copy m.
LEMMA StepTakesUp ==
  ASSUME IInv, NEW p \in Callers, NEW step, NEW m \in Metadata, NEW dest,
         StepTo(p, step, m, dest), StoreSafe, UNCHANGED turns, TakesUp(p, m.session),
         lock[p] = None \/ KeyOf(lock[p], m.session), {pc[p], step} \cap {"subscribe", "run"} = {}
  PROVE  IInv'
  <1>1. LocalSafe(p) /\ pc'[p] = step
    BY StepSafe
  <1>2. meta'[p] = m /\ UNCHANGED lock
    BY DEF StepTo, IInv, TypeOK
  <1>3. m.session \in Sessions
    BY DEF Metadata
  <1>4. ActorsSafe(p)
    BY <1>2, <1>3, ActorsGrow
  <1> QED BY <1>1, <1>4, AsideKeeps

\* p returns.
LEMMA ReturnKeeps ==
  ASSUME IInv, NEW p \in Callers, Return(p), UNCHANGED <<traffic, todo, victim, turns>>, StoreSafe,
         \/ UNCHANGED actors
         \/ \E s \in Sessions : TakesUp(p, s) /\ lock[p] = None,
         pc[p] \notin {"subscribe", "run"}
  PROVE  IInv'
  <1>1. LocalSafe(p) /\ pc'[p] = "idle"
    BY ReturnSafe
  <1>2. meta'[p] = None
    BY DEF Return, IInv, TypeOK
  <1>3. UNCHANGED actors
    <2>1. ASSUME NEW s \in Sessions, TakesUp(p, s), lock[p] = None PROVE UNCHANGED actors
      BY <2>1 DEF TakesUp, IInv, TypeOK
    <2> QED BY <2>1
  <1>4. ActorsSafe(p)
    BY <1>2, <1>3, ActorsStay
  <1> QED BY <1>1, <1>4, AsideKeeps

-----------------------------------------------------------------------------
(* The steps of the sweep keep the invariant.                               *)

\* A sweep reads its candidates.
LEMMA ListSafe == ASSUME IInv, NEW p \in Callers, List(p) PROVE IInv'
  <1>1. /\ UNCHANGED <<traffic, kind, req, lock, victim, store, actors, turns, meta, back>>
        /\ pc[p] = "list" /\ pc' = [pc EXCEPT ![p] = "sweep"]
    BY DEF List, Goto, local
  <1>2. todo' \in [Callers -> SUBSET [session : Sessions, key : ActorKeys]]
    <2>1. \A s \in Sessions : store[s] # None => ActorKey(store[s]) \in ActorKeys
      BY KeyTypes DEF IInv, TypeOK
    <2> HIDE DEF Sessions, ActorKeys, ActorKey
    <2> DEFINE found == {[session |-> s, key |-> ActorKey(store[s])] :
             s \in {s \in Sessions :
                      /\ store[s] # None
                      /\ store[s].state \notin {"Busy", "Cancelling", "Initializing"}
                      /\ store[s].idle}}
    <2>2. found \in SUBSET [session : Sessions, key : ActorKeys]
      BY <2>1
    <2>3. todo' = [todo EXCEPT ![p] = found]
      BY DEF List
    <2> HIDE DEF found
    <2> QED BY <2>2, <2>3 DEF IInv, TypeOK
  <1>3. StepTo(p, "sweep", meta[p], back[p])
    BY <1>1, <1>2, CopyFacts DEF StepTo, Reached, KindAt, Unlocked, WithMeta, Sweeping, Steps
  <1>4. meta[p] = None
    BY <1>1, CopyFacts DEF WithMeta
  <1> QED BY <1>1, <1>3, <1>4, StoreStays, StepKeeps

\* A sweep looks at its next candidate.
LEMMA PickSafe == ASSUME IInv, NEW p \in Callers, Pick(p) PROVE IInv'
  <1> PICK v \in todo[p] :
        /\ todo' = [todo EXCEPT ![p] = @ \ {v}]
        /\ \/ Goto(p, "sweep", "evict") /\ victim' = [victim EXCEPT ![p] = v.session]
           \/ Goto(p, "sweep", "sweep") /\ UNCHANGED victim
        /\ UNCHANGED <<traffic, store, actors, turns, meta, back, local>>
    BY DEF Pick
  <1> DEFINE step == IF pc' = [pc EXCEPT ![p] = "evict"] THEN "evict" ELSE "sweep"
  <1>1. /\ UNCHANGED <<traffic, kind, req, lock, store, actors, turns, meta, back>>
        /\ pc[p] = "sweep" /\ pc' = [pc EXCEPT ![p] = step] /\ step \in {"sweep", "evict"}
    BY DEF Goto, local
  <1> HIDE DEF step
  <1>2. /\ todo' \in [Callers -> SUBSET [session : Sessions, key : ActorKeys]]
        /\ victim' \in [Callers -> Sessions \cup {None}]
    <2> HIDE DEF Sessions, ActorKeys
    <2>1. v.session \in Sessions
      BY CopyFacts
    <2> QED BY <2>1, CopyFacts
  <1>3. StepTo(p, step, meta[p], back[p])
    BY <1>1, <1>2, CopyFacts DEF StepTo, Reached, KindAt, Unlocked, WithMeta, Sweeping, Steps
  <1>4. meta[p] = None
    BY <1>1, CopyFacts DEF WithMeta
  <1> QED BY <1>1, <1>3, <1>4, StoreStays, StepKeeps

\* A sweep removes a session after the backend has closed it.
LEMMA EvictSafe == ASSUME IInv, NEW p \in Callers, Evict(p) PROVE IInv'
  <1>1. /\ UNCHANGED <<traffic, kind, req, lock, actors, turns, meta, back, todo>>
        /\ pc[p] = "evict" /\ pc' = [pc EXCEPT ![p] = "sweep"]
        /\ victim' = [victim EXCEPT ![p] = None]
    BY DEF Evict, Goto, local
  <1>2. StepTo(p, "sweep", meta[p], back[p])
    BY <1>1, CopyFacts DEF StepTo, Reached, KindAt, Unlocked, WithMeta, Sweeping, Steps
  <1>3. StoreSafe
    BY StoreKept DEF Evict
  <1>4. meta[p] = None
    BY <1>1, CopyFacts DEF WithMeta
  <1> QED BY <1>1, <1>2, <1>3, <1>4, StepKeeps

\* A sweep ends.
LEMMA SweptSafe == ASSUME IInv, NEW p \in Callers, Swept(p) PROVE IInv'
  <1>1. /\ UNCHANGED <<traffic, store, actors, turns, todo, victim>> /\ pc[p] = "sweep"
        /\ KindAt("sweep", kind[p], back[p]) /\ kind[p] \in AllKinds /\ meta[p] = None
    BY CopyFacts DEF Swept, WithMeta
  <1>2. CASE back[p] = "ensure"
    <2>1. /\ UNCHANGED <<meta, kind, req, lock>>
          /\ pc' = [pc EXCEPT ![p] = "list"] /\ back' = [back EXCEPT ![p] = "resolve"]
      BY <1>2 DEF Swept, Sweep, local
    <2>2. StepTo(p, "list", meta[p], "resolve")
      BY <1>1, <1>2, <2>1, CopyFacts DEF StepTo, Reached, KindAt, Unlocked, WithMeta, Sweeping, Steps, AllKinds
    <2> QED BY <1>1, <2>2, StoreStays, StepKeeps
  <1>3. CASE back[p] = "done"
    <2>1. Return(p)
      BY <1>3 DEF Swept
    <2> QED BY <1>1, <2>1, StoreStays, ReturnKeeps
  <1>4. CASE back[p] \notin {"ensure", "done"}
    <2>1. UNCHANGED <<meta, back, kind, req, lock>> /\ pc' = [pc EXCEPT ![p] = back[p]]
      BY <1>4 DEF Swept, Goto, local
    <2>2. back[p] \in {"resolve", "read"} /\ KindAt(back[p], kind[p], back[p])
      BY <1>1, <1>4 DEF KindAt, Sweeping, AllKinds
    <2>3. StepTo(p, back[p], meta[p], back[p])
      BY <1>1, <2>1, <2>2, CopyFacts DEF StepTo, Reached, Unlocked, WithMeta, Steps
    <2> QED BY <1>1, <2>2, <2>3, StoreStays, StepKeeps
  <1> QED BY <1>2, <1>3, <1>4

-----------------------------------------------------------------------------
(* The steps of ensure_session keep the invariant.                          *)

\* The lock under which a copy is taken is a key of the session.
LEMMA TakenKey ==
  ASSUME IInv, NEW p \in Callers, pc[p] \notin Unlocked, req[p] \in traffic.bootstraps,
         NEW m \in Metadata, Sourced(m), Agrees(m, req[p])
  PROVE  lock[p] = None \/ KeyOf(lock[p], m.session)
  <1>1. lock[p] = None \/ (Agreed => lock[p] = ActorKey(req[p]))
    BY DEF IInv, AllPlaced, Placed, LockFor
  <1> QED BY <1>1 DEF Agrees, Sourced, KeyOf

\* An operation finds its session, or that there is none.
LEMMA LookupSafe == ASSUME IInv, NEW p \in Callers, Lookup(p) PROVE IInv'
  <1>1. /\ UNCHANGED <<traffic, store, turns, todo, victim>>
        /\ pc[p] \in {"resolve", "by_route", "by_conversation"}
        /\ req[p] \in traffic.bootstraps /\ Reached(pc[p], req[p]) /\ TypeOK /\ AllSourced
    BY CopyFacts DEF Lookup, IInv, AllPlaced, Placed
  <1>2. CASE Return(p) /\ UNCHANGED actors
    BY <1>1, <1>2, ReturnKeeps, StoreStays
  <1>3. ASSUME NEW s \in Existing(p), NEW m, m = Validated(store[s], req[p], kind[p] # "turn"),
               m # None, pc' = [pc EXCEPT ![p] = "touch"], meta' = [meta EXCEPT ![p] = m],
               TakesUp(p, s), UNCHANGED <<back, local>>
        PROVE  IInv'
    <2>1. /\ store[s] \in Metadata /\ store[s].session = s /\ Sourced(store[s])
          /\ Agrees(store[s], req[p])
      BY <1>1, ExistingKey
    <2>2. m \in Metadata /\ m.session = s /\ Agrees(m, req[p]) /\ Sourced(m)
      BY <1>1, <1>3, <2>1, ValidatedFacts
    <2>3. StepTo(p, "touch", m, back[p])
      BY <1>1, <1>3, <2>2, CopyFacts
         DEF StepTo, Reached, KindAt, Unlocked, WithMeta, Sweeping, Steps, local
    <2>4. lock[p] = None \/ KeyOf(lock[p], m.session)
      BY <1>1, <2>2, TakenKey DEF Unlocked
    <2> QED BY <1>1, <1>3, <2>2, <2>3, <2>4, StoreStays, StepTakesUp
  <1>4. CASE pc' = [pc EXCEPT ![p] = NextLookup(p)] /\ UNCHANGED <<actors, meta, back, local>>
    <2>1. NextLookup(p) \in {"by_route", "by_conversation", "limit"} /\ Reached(NextLookup(p), req[p])
      BY DEF NextLookup, Reached
    <2> DEFINE step == NextLookup(p)
    <2> HIDE DEF step
    <2>2. StepTo(p, step, meta[p], back[p])
      BY <1>1, <1>4, <2>1, CopyFacts
         DEF step, StepTo, KindAt, Unlocked, WithMeta, Sweeping, Steps, local
    <2>3. meta[p] = None
      BY <1>1, CopyFacts DEF WithMeta
    <2> QED BY <1>1, <1>4, <2>1, <2>2, <2>3, StoreStays, StepKeeps DEF step
  <1>5. \/ Return(p) /\ UNCHANGED actors
        \/ \E s \in Existing(p) :
              /\ Validated(store[s], req[p], kind[p] # "turn") # None
              /\ pc' = [pc EXCEPT ![p] = "touch"]
              /\ meta' = [meta EXCEPT ![p] = Validated(store[s], req[p], kind[p] # "turn")]
              /\ TakesUp(p, s) /\ UNCHANGED <<back, local>>
        \/ pc' = [pc EXCEPT ![p] = NextLookup(p)] /\ UNCHANGED <<actors, meta, back, local>>
    BY DEF Lookup
  <1> QED BY <1>2, <1>3, <1>4, <1>5

\* An operation that found no session looks again, and counts them.
LEMMA LimitSafe == ASSUME IInv, NEW p \in Callers, Limit(p) \/ Count(p) PROVE IInv'
  <1>1. /\ UNCHANGED <<traffic, store, actors, turns, todo, victim>>
        /\ pc[p] \in {"limit", "count"} /\ meta[p] = None
    BY CopyFacts DEF Limit, Count, Goto, WithMeta
  <1>2. CASE Return(p)
    BY <1>1, <1>2, ReturnKeeps, StoreStays
  <1>3. ASSUME NEW step \in {"create", "count"}, pc' = [pc EXCEPT ![p] = step],
               UNCHANGED <<meta, back, local>>
        PROVE  IInv'
    <2>1. StepTo(p, step, meta[p], back[p])
      BY <1>1, <1>3, CopyFacts DEF StepTo, Reached, KindAt, Unlocked, WithMeta, Sweeping, Steps, local
    <2> QED BY <1>1, <1>3, <2>1, StoreStays, StepKeeps
  <1> QED BY <1>2, <1>3 DEF Limit, Count, Goto

(* The end of ensure_session, with the session m it found or created.       *)
LEMMA EnsuredSafe ==
  ASSUME IInv, NEW p \in Callers, NEW m \in Metadata, pc[p] \in {"touch", "create"},
         Sourced(m), Agrees(m, req[p]), Upsert(m), Ensured(p, m),
         \/ UNCHANGED actors /\ meta[p] # None /\ m.session = meta[p].session
         \/ TakesUp(p, m.session),
         UNCHANGED <<traffic, turns, todo, victim>>
  PROVE  IInv'
  <1>1. StoreSafe /\ m.session \in Sessions
    BY StoreKept DEF Metadata
  <1>2. CASE kind[p] # "turn"
    <2>1. Return(p)
      BY <1>2 DEF Ensured
    <2>2. lock[p] = None
      BY <1>2, CopyFacts DEF KindAt, IInv, AllPlaced, Placed
    <2> QED BY <1>1, <2>1, <2>2, ReturnKeeps
  <1>3. CASE kind[p] = "turn"
    <2>1. /\ pc' = [pc EXCEPT ![p] = "start"] /\ meta' = [meta EXCEPT ![p] = m]
          /\ UNCHANGED <<back, kind, req, lock>>
      BY <1>3 DEF Ensured, local
    <2>2. m # None
      BY NoneAssumption
    <2>3. StepTo(p, "start", m, back[p])
      BY <1>3, <2>1, <2>2, CopyFacts DEF StepTo, Reached, KindAt, Unlocked, WithMeta, Sweeping, Steps
    <2>4. lock[p] = None \/ KeyOf(lock[p], m.session)
      BY CopyFacts, TakenKey DEF Unlocked
    <2> QED BY <1>1, <2>3, <2>4, StepKeeps, StepTakesUp
  <1> QED BY <1>2, <1>3

\* ensure_session renews a session it has found.
LEMMA TouchSafe == ASSUME IInv, NEW p \in Callers, Touch(p) PROVE IInv'
  <1>1. /\ pc[p] = "touch" /\ Upsert(meta[p]) /\ Ensured(p, meta[p])
        /\ UNCHANGED <<traffic, actors, turns, todo, victim>>
    BY DEF Touch
  <1>2. meta[p] # None /\ meta[p] \in Metadata /\ Sourced(meta[p]) /\ Agrees(meta[p], req[p])
    BY <1>1, CopyFacts DEF WithMeta
  <1> QED BY <1>1, <1>2, EnsuredSafe

\* ensure_session stores a session the backend has made.
LEMMA CreateSafe == ASSUME IInv, NEW p \in Callers, Create(p) PROVE IInv'
  <1> DEFINE m == Made(req[p], "Ready", kind[p] # "turn")
  <1>1. /\ UNCHANGED <<traffic, turns, todo, victim>> /\ pc[p] = "create"
        /\ \/ Upsert(m) /\ TakesUp(p, m.session) /\ Ensured(p, m)
           \/ UNCHANGED <<store, actors>> /\ Return(p)
    BY DEF Create
  <1>2. m \in Metadata /\ Agrees(m, req[p]) /\ Sourced(m)
    <2>1. req[p] \in traffic.bootstraps /\ TypeOK
      BY <1>1, CopyFacts DEF IInv
    <2> QED BY <2>1, MadeFacts DEF Agrees, States
  <1> HIDE DEF m
  <1>3. CASE Upsert(m) /\ TakesUp(p, m.session) /\ Ensured(p, m)
    BY <1>1, <1>2, <1>3, EnsuredSafe
  <1>4. CASE UNCHANGED <<store, actors>> /\ Return(p)
    BY <1>1, <1>4, ReturnKeeps, StoreStays
  <1> QED BY <1>1, <1>3, <1>4

-----------------------------------------------------------------------------
(* The steps of a turn keep the invariant.                                  *)

\* A turn marks its session Busy; it holds the actor lock.
LEMMA StartSafe == ASSUME IInv, NEW p \in Callers, Start(p) PROVE IInv'
  <1> DEFINE m == Touched(meta[p], "Busy")
  <1>1. /\ UNCHANGED <<traffic, actors, turns, todo, victim, back, kind, req, lock>>
        /\ pc[p] = "start" /\ pc' = [pc EXCEPT ![p] = "register"]
        /\ meta' = [meta EXCEPT ![p] = m] /\ Upsert(meta'[p])
    BY DEF Start, Goto, local
  <1>2. meta[p] # None /\ meta[p] \in Metadata /\ Sourced(meta[p]) /\ Agrees(meta[p], req[p])
    BY <1>1, CopyFacts DEF WithMeta
  <1>3. m \in Metadata /\ Sourced(m) /\ Agrees(m, req[p]) /\ m.session = meta[p].session
    BY <1>2, TouchedFacts DEF States, Agrees
  <1> HIDE DEF m
  <1>4. m # None /\ meta'[p] = m
    BY <1>1, <1>3, NoneAssumption DEF IInv, TypeOK
  <1>5. StepTo(p, "register", m, back[p])
    BY <1>1, <1>3, <1>4, CopyFacts DEF StepTo, Reached, KindAt, Unlocked, WithMeta, Sweeping, Steps
  <1>6. StoreSafe
    BY <1>1, <1>3, <1>4, StoreKept
  <1> QED BY <1>1, <1>2, <1>3, <1>5, <1>6, StepKeeps

\* The lock of a turn that is registered, runs or has been answered.
LEMMA TurnLock ==
  ASSUME IInv, NEW p \in Callers, pc[p] \in {"register", "subscribe", "run", "finish_ok", "finish_err"}
  PROVE  lock[p] \in ActorKeys /\ lock[p] # None /\ pc[p] # "wait"
  <1>1. kind[p] = "turn" /\ pc[p] \notin Unlocked
    BY CopyFacts DEF KindAt, Unlocked
  <1>2. lock[p] \in ActorKeys
    BY <1>1 DEF IInv, AllPlaced, Placed, LockFor
  <1> QED BY <1>2, NoneAssumption

\* A turn enters itself as the active one of its session.
LEMMA RegisterSafe == ASSUME IInv, NEW p \in Callers, Register(p) PROVE IInv'
  <1>1. /\ UNCHANGED <<traffic, store, aborted, actors, forgotten, meta, todo, victim, back,
                       kind, req, lock>>
        /\ pc[p] = "register" /\ pc' = [pc EXCEPT ![p] = "subscribe"]
        /\ active' = [active EXCEPT ![lock[p]] = p]
    BY DEF Register, Goto, local
  <1>2. StepTo(p, "subscribe", meta[p], back[p])
    BY <1>1, CopyFacts DEF StepTo, Reached, KindAt, Unlocked, WithMeta, Sweeping, Steps
  <1>3. LocalSafe(p) /\ pc'[p] = "subscribe"
    BY <1>2, StepSafe
  <1>4. lock[p] \in ActorKeys /\ lock[p] # None
    BY <1>1, TurnLock
  <1>5. ActiveTracked'
    <2>0. (Coherent(traffic.bootstraps) => forgotten = {})'
      BY <1>1 DEF IInv, ActiveTracked, Coherent
    <2> SUFFICES ASSUME NEW k \in ActorKeys, NEW q \in Callers
                 PROVE  active'[k] = q <=> Running(q)' /\ lock'[q] = k /\ q \notin forgotten'
      BY <2>0 DEF ActiveTracked
    <2>1. Running(p)' /\ (q # p => (Running(q)' <=> Running(q))) /\ lock'[q] = lock[q]
      BY <1>1, <1>3 DEF Running, LocalSafe, Alone
    <2>2. active[k] = q <=> Running(q) /\ lock[q] = k /\ q \notin forgotten
      BY DEF IInv, ActiveTracked
    <2>3. Running(q) /\ lock[q] = lock[p] => q = p
      BY <1>1, <1>4 DEF IInv, LockExclusive, Running
    <2>4. active'[k] = IF k = lock[p] THEN p ELSE active[k]
      BY <1>1, <1>4 DEF IInv, TypeOK
    <2>5. p \notin forgotten'
      BY <1>1 DEF IInv, ForgottenRun, Running
    <2> HIDE DEF Running, ActorKeys
    <2> QED BY <1>1, <2>1, <2>2, <2>3, <2>4, <2>5
  <1>6. /\ aborted' \in [Callers -> SUBSET Sessions] /\ active' \in [ActorKeys -> Callers \cup {None}]
        /\ forgotten' \subseteq Callers
    BY <1>1, <1>4 DEF IInv, TypeOK
  <1>7. ActorsSafe(p)
    BY <1>1, ActorsStay
  <1>8. ForgottenRun'
    BY <1>1, <1>3 DEF IInv, ForgottenRun, Running, LocalSafe, Alone
  <1> QED BY <1>1, <1>3, <1>5, <1>6, <1>7, <1>8, StoreStays, PartsKeep

\* A turn reaches the backend and its abort channel.
LEMMA SubscribeSafe == ASSUME IInv, NEW p \in Callers, Subscribe(p) PROVE IInv'
  <1>1. /\ UNCHANGED <<traffic, store, actors, active, aborted, forgotten, meta, todo, victim, back,
                       kind, req, lock>>
        /\ pc[p] = "subscribe" /\ pc' = [pc EXCEPT ![p] = "run"]
    BY DEF Subscribe, Goto, local, turns
  <1>2. StepTo(p, "run", meta[p], back[p])
    BY <1>1, CopyFacts DEF StepTo, Reached, KindAt, Unlocked, WithMeta, Sweeping, Steps
  <1>3. LocalSafe(p) /\ pc'[p] = "run"
    BY <1>2, StepSafe
  <1>4. ActiveTracked' /\ ForgottenRun'
    BY <1>1, <1>3, ActiveKept DEF LocalSafe, ActiveSame, Running
  <1>5. ActorsSafe(p)
    BY <1>1, ActorsStay
  <1> QED BY <1>1, <1>3, <1>4, <1>5, StoreStays, PartsKeep DEF IInv, TypeOK

(* A caller that clears the entry of the actor it has locked, and does not  *)
(* run afterwards.                                                          *)
LEMMA ClearedTracked ==
  ASSUME IInv, NEW p \in Callers, Alone(p), pc'[p] \notin {"subscribe", "run"},
         lock[p] \in ActorKeys, pc[p] # "wait", active' = [active EXCEPT ![lock[p]] = None],
         forgotten' = forgotten \ {p}
  PROVE  ActiveTracked' /\ ForgottenRun' /\ active' \in [ActorKeys -> Callers \cup {None}]
  <1>1. active' \in [ActorKeys -> Callers \cup {None}]
    BY DEF IInv, TypeOK
  <1>2. ASSUME NEW k \in ActorKeys, NEW q \in Callers
        PROVE  active'[k] = q <=> Running(q)' /\ lock'[q] = k /\ q \notin forgotten'
    <2>1. ~Running(p)' /\ (q # p => (Running(q)' <=> Running(q)) /\ lock'[q] = lock[q])
      BY DEF Running, Alone
    <2>2. active[k] = q <=> Running(q) /\ lock[q] = k /\ q \notin forgotten
      BY DEF IInv, ActiveTracked
    <2>3. Running(q) /\ lock[q] = lock[p] => q = p
      BY NoneAssumption DEF IInv, LockExclusive, Running
    <2>4. active'[k] = IF k = lock[p] THEN None ELSE active[k]
      BY DEF IInv, TypeOK
    <2>5. q # None /\ (q # p => (q \in forgotten' <=> q \in forgotten))
      BY NoneAssumption
    <2> HIDE DEF Running, ActorKeys
    <2> QED BY <2>1, <2>2, <2>3, <2>4, <2>5
  <1>3. (Coherent(traffic.bootstraps) => forgotten = {})'
    BY DEF IInv, ActiveTracked, Coherent, Alone
  <1>4. ForgottenRun'
    <2> SUFFICES ASSUME NEW q \in forgotten' PROVE Running(q)'
      BY DEF ForgottenRun
    <2>1. q \in Callers /\ q # p /\ Running(q)
      BY DEF IInv, TypeOK, ForgottenRun
    <2> QED BY <2>1 DEF Running, Alone
  <1> QED BY <1>1, <1>2, <1>3, <1>4 DEF ActiveTracked

\* A turn removes its active entry, while it still has the lock.
LEMMA TurnEndsSafe == ASSUME IInv, NEW p \in Callers, TurnEnds(p) PROVE IInv'
  <1> PICK answer \in {"finish_ok", "finish_err"} : pc' = [pc EXCEPT ![p] = answer]
    BY DEF TurnEnds
  <1>1. /\ UNCHANGED <<traffic, store, actors, meta, todo, victim, back, kind, req, lock>>
        /\ pc[p] = "run" /\ active' = [active EXCEPT ![lock[p]] = None]
        /\ forgotten' = forgotten \ {p}
        /\ aborted' \in [Callers -> SUBSET Sessions] /\ forgotten' \subseteq Callers
    BY DEF TurnEnds, local, IInv, TypeOK
  <1>2. StepTo(p, answer, meta[p], back[p])
    BY <1>1, CopyFacts DEF StepTo, Reached, KindAt, Unlocked, WithMeta, Sweeping, Steps
  <1>3. LocalSafe(p) /\ pc'[p] = answer
    BY <1>2, StepSafe
  <1>4. lock[p] \in ActorKeys
    BY <1>1, TurnLock
  <1>5. ActiveTracked' /\ ForgottenRun' /\ active' \in [ActorKeys -> Callers \cup {None}]
    BY <1>1, <1>3, <1>4, ClearedTracked DEF LocalSafe
  <1>6. ActorsSafe(p)
    BY <1>1, ActorsStay
  <1> QED BY <1>1, <1>3, <1>5, <1>6, StoreStays, PartsKeep

\* An operation stores its outcome and lets the lock go.
LEMMA FinishSafe == ASSUME IInv, NEW p \in Callers, Finish(p) PROVE IInv'
  <1> DEFINE state == IF pc[p] = "finish_ok" THEN "Ready" ELSE "Error"
             m == Touched(meta[p], state)
  <1>1. /\ UNCHANGED <<traffic, actors, turns, todo, victim>>
        /\ pc[p] \in {"finish_ok", "finish_err"} /\ Upsert(m) /\ Return(p)
    BY DEF Finish
  <1>2. meta[p] \in Metadata /\ Sourced(meta[p]) /\ state \in States
    BY <1>1, CopyFacts DEF WithMeta, States
  <1> HIDE DEF state
  <1>3. m \in Metadata /\ Sourced(m)
    BY <1>2, TouchedFacts
  <1> HIDE DEF m
  <1>4. StoreSafe
    BY <1>1, <1>3, StoreKept
  <1> QED BY <1>1, <1>4, ReturnKeeps

-----------------------------------------------------------------------------
(* Calls and queueing.                                                      *)

\* p comes to step with operation k for the bootstrap b, the copy m and the
\* actor l, which it queues for if it is one.
EnterTo(p, step, k, b, m, l, dest) ==
    /\ pc' = [pc EXCEPT ![p] = step] /\ step \in Steps
    /\ kind' = [kind EXCEPT ![p] = k] /\ k \in AllKinds /\ k \in traffic.kinds \cup {None}
    /\ req' = [req EXCEPT ![p] = b] /\ b \in traffic.bootstraps
    /\ meta' = [meta EXCEPT ![p] = m] /\ m \in Metadata \cup {None}
    /\ lock' = [lock EXCEPT ![p] = l]
    /\ back' = [back EXCEPT ![p] = dest] /\ dest \in {"idle", "ensure", "resolve", "read", "done"}
    /\ UNCHANGED <<traffic, todo, victim>>
    /\ KindAt(step, k, dest) /\ Reached(step, b)
    /\ m # None <=> step \in WithMeta
    /\ m # None => Sourced(m) /\ Agrees(m, b)
    /\ IF step \in Unlocked \/ k \in {"ensure", "snapshot"} THEN l = None ELSE LockFor(l, k, b)
    /\ step = "wait" \/ l = None

\* Where an operation that takes its first step arrives.
LEMMA EnterSafe ==
  ASSUME IInv, NEW p \in Callers, NEW step, NEW k, NEW b, NEW m, NEW l, NEW dest,
         EnterTo(p, step, k, b, m, l, dest)
  PROVE  LocalSafe(p) /\ pc'[p] = step
  <1> USE DEF EnterTo
  <1>0. b \in Bootstraps /\ l \in ActorKeys \cup {None}
    BY TrafficTypes DEF IInv, LockFor
  <1> HIDE DEF Metadata, ActorKeys, Sessions, Steps, Sourced, KindAt, WithMeta, Unlocked, AllKinds, Bootstraps
  <1>1. /\ pc'[p] = step /\ meta'[p] = m /\ back'[p] = dest /\ kind'[p] = k /\ req'[p] = b
        /\ lock'[p] = l
    BY DEF IInv, TypeOK
  <1>2. Alone(p)
    BY DEF IInv, TypeOK, Alone
  <1>3. LocalTypes
    BY <1>0 DEF IInv, TypeOK, LocalTypes
  <1>4. Placed(p)'
    <2>1. Agreed' <=> Agreed
      BY DEF Agreed, Coherent
    <2> HIDE DEF Agreed
    <2> QED BY <1>1, <2>1 DEF Placed, LockFor
  <1> QED BY <1>1, <1>2, <1>3, <1>4 DEF LocalSafe, MetaSafe, LockSafe

\* An operation that enters holds no copy under a lock.
LEMMA EnterKeeps ==
  ASSUME IInv, NEW p \in Callers, NEW step, NEW k, NEW b, NEW m, NEW l, NEW dest,
         EnterTo(p, step, k, b, m, l, dest), StoreSafe, UNCHANGED <<actors, turns>>,
         {pc[p], step} \cap {"subscribe", "run"} = {}
  PROVE  IInv'
  <1>1. LocalSafe(p) /\ pc'[p] = step
    BY EnterSafe
  <1>2. meta'[p] = None \/ lock'[p] = None
    <2>1. meta'[p] = m /\ lock'[p] = l
      BY DEF EnterTo, IInv, TypeOK
    <2> QED BY <2>1 DEF EnterTo, WithMeta
  <1>3. ActorsSafe(p)
    BY <1>2, ActorsStay
  <1> QED BY <1>1, <1>3, AsideKeeps

\* A request comes in.
LEMMA CallSafe == ASSUME IInv, NEW p \in Callers, Call(p) PROVE IInv'
  <1> PICK b \in traffic.bootstraps, k \in traffic.kinds :
        /\ req' = [req EXCEPT ![p] = b]
        /\ CASE k = "turn" -> CallTurn(p, b)
             [] k = "ensure" -> CallUnlocked(p, k, "resolve")
             [] k = "snapshot" -> CallUnlocked(p, k, "done")
             [] k \in {"cancel", "close"} -> CallInterrupt(p, k, b.session)
             [] k \in {"status", "control"} -> CallControl(p, k, b.session)
    BY DEF Call
  <1>0. /\ UNCHANGED <<traffic, store, actors, turns, todo, victim>>
        /\ k \in AllKinds /\ b \in Bootstraps /\ TypeOK /\ StoreSafe
    BY TrafficTypes, StoreStays DEF Call, IInv
  <1>1. pc[p] = "idle" => lock[p] = None /\ meta[p] = None
    BY DEF IInv, AllPlaced, Placed, Unlocked, WithMeta
  <1>2. pc[p] = "idle" /\ UNCHANGED lock => lock' = [lock EXCEPT ![p] = None]
    BY <1>1 DEF IInv, TypeOK
  <1>3. pc[p] = "idle" /\ UNCHANGED meta => meta' = [meta EXCEPT ![p] = None]
    BY <1>1 DEF IInv, TypeOK
  <1>4. ASSUME store[b.session] # None
        PROVE  /\ store[b.session] \in Metadata /\ Sourced(store[b.session])
               /\ Agrees(store[b.session], b)
    <2>1. b.session \in Sessions
      BY <1>0, KeyTypes
    <2>2. /\ store[b.session] \in Metadata /\ Sourced(store[b.session])
          /\ store[b.session].session = b.session
      BY <1>4, <2>1 DEF IInv, TypeOK, AllSourced
    <2> QED BY <2>2, SessionKey
  <1>5. CASE k = "turn"
    <2>1. /\ kind' = [kind EXCEPT ![p] = k] /\ lock' = [lock EXCEPT ![p] = ActorKey(b)]
          /\ pc[p] = "idle" /\ pc' = [pc EXCEPT ![p] = "wait"] /\ UNCHANGED <<meta, back>>
      BY <1>5 DEF CallTurn, Goto
    <2>k. LockFor(ActorKey(b), k, b)
      BY <1>0, KeyTypes DEF LockFor
    <2>2. EnterTo(p, "wait", k, b, None, ActorKey(b), back[p])
      BY <1>0, <1>3, <1>5, <2>1, <2>k, CopyFacts
         DEF EnterTo, Reached, KindAt, Steps, Sweeping, WithMeta, Unlocked
    <2> QED BY <1>0, <2>1, <2>2, EnterKeeps
  <1>6. CASE k \in {"ensure", "snapshot"}
    <2> DEFINE dest == IF k = "ensure" THEN "resolve" ELSE "done"
    <2>1. CallUnlocked(p, k, dest)
      BY <1>6
    <2>2. dest \in {"idle", "ensure", "resolve", "read", "done"} /\ KindAt("list", k, dest)
      BY <1>6 DEF KindAt, Sweeping
    <2> HIDE DEF dest
    <2>3. /\ kind' = [kind EXCEPT ![p] = k] /\ back' = [back EXCEPT ![p] = dest]
          /\ pc[p] = "idle" /\ pc' = [pc EXCEPT ![p] = "list"] /\ UNCHANGED <<meta, lock>>
      BY <2>1 DEF CallUnlocked, Sweep
    <2>4. EnterTo(p, "list", k, b, None, None, dest)
      BY <1>0, <1>2, <1>3, <1>6, <2>2, <2>3 DEF EnterTo, Reached, Steps, WithMeta, Unlocked
    <2> QED BY <1>0, <2>3, <2>4, EnterKeeps
  <1>7. CASE k \in {"cancel", "close"}
    <2>0. CallInterrupt(p, k, b.session)
      BY <1>7
    <2>1. /\ kind' = [kind EXCEPT ![p] = k] /\ store[b.session] # None
          /\ meta' = [meta EXCEPT ![p] = store[b.session]]
          /\ pc[p] = "idle" /\ pc' = [pc EXCEPT ![p] = "look"] /\ UNCHANGED <<lock, back>>
      BY <2>0 DEF CallInterrupt, Goto
    <2>2. EnterTo(p, "look", k, b, store[b.session], None, back[p])
      BY <1>0, <1>2, <1>4, <1>7, <2>1, CopyFacts
         DEF EnterTo, Reached, KindAt, Steps, Sweeping, WithMeta, Unlocked
    <2> QED BY <1>0, <2>1, <2>2, EnterKeeps
  <1>8. CASE k \in {"status", "control"}
    <2>0. CallControl(p, k, b.session)
      BY <1>8
    <2>1. /\ kind' = [kind EXCEPT ![p] = k] /\ store[b.session] # None
          /\ lock' = [lock EXCEPT ![p] = ActorKey(store[b.session])]
          /\ pc[p] = "idle" /\ pc' = [pc EXCEPT ![p] = "wait"] /\ UNCHANGED <<meta, back>>
      BY <2>0 DEF CallControl, Goto
    <2>k. LockFor(ActorKey(store[b.session]), k, b)
      BY <1>4, <1>8, <2>1, KeyTypes DEF LockFor, Agrees
    <2>2. EnterTo(p, "wait", k, b, None, ActorKey(store[b.session]), back[p])
      BY <1>0, <1>3, <1>8, <2>1, <2>k, CopyFacts
         DEF EnterTo, Reached, KindAt, Steps, Sweeping, WithMeta, Unlocked
    <2> QED BY <1>0, <2>1, <2>2, EnterKeeps
  <1> QED BY <1>0, <1>5, <1>6, <1>7, <1>8 DEF AllKinds

\* A caller gets the lock when nobody has it.
LEMMA AcquireSafe == ASSUME IInv, NEW p \in Callers, Acquire(p) PROVE IInv'
  <1> DEFINE dest == IF kind[p] = "turn" THEN "ensure" ELSE "read"
  <1>1. /\ UNCHANGED <<traffic, store, actors, turns, meta, todo, victim, kind, req, lock>>
        /\ pc[p] = "wait" /\ pc' = [pc EXCEPT ![p] = "list"] /\ back' = [back EXCEPT ![p] = dest]
        /\ \A q \in Callers : ~Holds(q, lock[p])
    BY DEF Acquire, Sweep, local
  <1>2. /\ KindAt("list", kind[p], dest) /\ dest \in {"ensure", "read"}
    BY <1>1, CopyFacts DEF KindAt, Sweeping, AllKinds
  <1> HIDE DEF dest
  <1>3. pc'[p] = "list" /\ back'[p] = dest
    BY <1>1 DEF IInv, TypeOK
  <1>4. Alone(p)
    BY <1>1 DEF IInv, TypeOK, Alone
  <1>5. LocalTypes
    BY <1>1, <1>2 DEF IInv, TypeOK, LocalTypes, Steps
  <1>6. Placed(p)'
    <2>1. Agreed' <=> Agreed
      BY <1>1 DEF Agreed, Coherent
    <2> HIDE DEF Agreed
    <2> QED BY <1>1, <1>2, <1>3, <2>1 DEF IInv, AllPlaced, Placed, LockFor, Reached, WithMeta, Unlocked
  <1>7. LocalSafe(p)
    <2>1. MetaSafe(p)
      BY <1>1, CopyFacts DEF MetaSafe
    <2>2. LockSafe(p)
      BY <1>1 DEF LockSafe
    <2> QED BY <1>4, <1>5, <1>6, <2>1, <2>2 DEF LocalSafe
  <1>8. ActorsSafe(p)
    BY <1>1, CopyFacts, ActorsStay DEF WithMeta
  <1> QED BY <1>1, <1>3, <1>7, <1>8, StoreStays, AsideKeeps

-----------------------------------------------------------------------------
(* cancel and close of a session with an active turn.                       *)

(* An interrupting caller that goes on to queue for its session's actor.    *)
LEMMA QueueKeeps ==
  ASSUME IInv, NEW p \in Callers, pc[p] \in {"look", "preempt"},
         pc' = [pc EXCEPT ![p] = "wait"], lock' = [lock EXCEPT ![p] = ActorKey(meta[p])],
         meta' = [meta EXCEPT ![p] = None], UNCHANGED <<traffic, todo, victim, back, kind, req>>,
         UNCHANGED <<store, actors, turns>>
  PROVE  IInv'
  <1>1. /\ kind[p] \in {"cancel", "close"} /\ kind[p] \in AllKinds /\ req[p] \in traffic.bootstraps
        /\ meta[p] \in Metadata /\ Agrees(meta[p], req[p])
    BY CopyFacts DEF WithMeta, KindAt
  <1>2. /\ kind[p] \in traffic.kinds \cup {None} /\ kind' = [kind EXCEPT ![p] = kind[p]]
        /\ req' = [req EXCEPT ![p] = req[p]]
    BY DEF IInv, TypeOK
  <1>3. LockFor(ActorKey(meta[p]), kind[p], req[p])
    BY <1>1, KeyTypes DEF LockFor, Agrees
  <1>4. EnterTo(p, "wait", kind[p], req[p], None, ActorKey(meta[p]), back[p])
    BY <1>1, <1>2, <1>3, CopyFacts
       DEF EnterTo, Reached, KindAt, Steps, Sweeping, WithMeta, Unlocked
  <1> QED BY <1>4, StoreStays, EnterKeeps

\* cancel and close look for an active turn and abort it, or queue.
LEMMA LookSafe == ASSUME IInv, NEW p \in Callers, Look(p) PROVE IInv'
  <1> DEFINE turn == active[ActorKey(meta[p])]
  <1>1. /\ pc[p] = "look"
        /\ UNCHANGED <<traffic, store, active, actors, forgotten, todo, victim, back, kind, req>>
    BY DEF Look
  <1>2. CASE turn # None
    <2>1. /\ pc' = [pc EXCEPT ![p] = "mark"] /\ UNCHANGED <<meta, lock>>
          /\ aborted' \in {aborted, [aborted EXCEPT ![turn] = aborted[turn] \cup {meta[p].session}]}
      BY <1>2 DEF Look, Goto
    <2>2. StepTo(p, "mark", meta[p], back[p])
      BY <1>1, <2>1, CopyFacts DEF StepTo, Reached, KindAt, Unlocked, WithMeta, Sweeping, Steps
    <2>3. LocalSafe(p) /\ pc'[p] = "mark"
      BY <2>2, StepSafe
    <2>4. aborted' \in [Callers -> SUBSET Sessions]
      <3>1. aborted \in [Callers -> SUBSET Sessions] /\ meta[p].session \in Sessions
        BY <1>1, CopyFacts DEF IInv, TypeOK, WithMeta, Metadata
      <3> HIDE DEF turn, Sessions
      <3> QED BY <2>1, <3>1
    <2>5. ActiveTracked' /\ ForgottenRun'
      BY <1>1, <2>3, ActiveAside
    <2>6. ActorsSafe(p)
      BY <1>1, <2>1, ActorsStay
    <2> QED BY <1>1, <2>3, <2>4, <2>5, <2>6, StoreStays, PartsKeep DEF IInv, TypeOK
  <1>3. CASE turn = None
    <2>1. /\ pc' = [pc EXCEPT ![p] = "wait"] /\ lock' = [lock EXCEPT ![p] = ActorKey(meta[p])]
          /\ meta' = [meta EXCEPT ![p] = None] /\ UNCHANGED aborted
      BY <1>3 DEF Look, Goto
    <2> QED BY <1>1, <2>1, QueueKeeps DEF turns
  <1> QED BY <1>2, <1>3

\* The session of an aborted turn is stored as Cancelling.
LEMMA MarkSafe == ASSUME IInv, NEW p \in Callers, Mark(p) PROVE IInv'
  <1> DEFINE m == Touched(meta[p], "Cancelling")
  <1>1. /\ UNCHANGED <<traffic, actors, turns, todo, victim, back, kind, req, lock>>
        /\ pc[p] = "mark" /\ pc' = [pc EXCEPT ![p] = "preempt"]
        /\ meta' = [meta EXCEPT ![p] = m] /\ Upsert(meta'[p])
    BY DEF Mark, Goto, local
  <1>2. meta[p] # None /\ meta[p] \in Metadata /\ Sourced(meta[p]) /\ Agrees(meta[p], req[p])
    BY <1>1, CopyFacts DEF WithMeta
  <1>3. m \in Metadata /\ Sourced(m) /\ Agrees(m, req[p]) /\ m.session = meta[p].session
    BY <1>2, TouchedFacts DEF States, Agrees
  <1> HIDE DEF m
  <1>4. m # None /\ meta'[p] = m
    BY <1>1, <1>3, NoneAssumption DEF IInv, TypeOK
  <1>5. StepTo(p, "preempt", m, back[p])
    BY <1>1, <1>3, <1>4, CopyFacts DEF StepTo, Reached, KindAt, Unlocked, WithMeta, Sweeping, Steps
  <1>6. StoreSafe
    BY <1>1, <1>3, <1>4, StoreKept
  <1> QED BY <1>1, <1>2, <1>3, <1>5, <1>6, StepKeeps

\* The backend answers the cancellation of a turn.
LEMMA PreemptSafe == ASSUME IInv, NEW p \in Callers, Preempt(p) PROVE IInv'
  <1> DEFINE m == Touched(meta[p], "Error")
  <1>1. pc[p] = "preempt" /\ UNCHANGED <<traffic, actors, turns, todo, victim>>
    BY DEF Preempt
  <1>2. CASE Upsert(m) /\ Return(p)
    <2>1. meta[p] \in Metadata /\ Sourced(meta[p])
      BY <1>1, CopyFacts DEF WithMeta
    <2>2. m \in Metadata /\ Sourced(m)
      BY <2>1, TouchedFacts DEF States
    <2> HIDE DEF m
    <2>3. StoreSafe
      BY <1>2, <2>2, StoreKept
    <2> QED BY <1>1, <1>2, <2>3, ReturnKeeps
  <1>3. CASE UNCHANGED store /\ Return(p)
    BY <1>1, <1>3, StoreStays, ReturnKeeps
  <1>4. CASE /\ UNCHANGED store /\ pc' = [pc EXCEPT ![p] = "wait"]
             /\ lock' = [lock EXCEPT ![p] = ActorKey(meta[p])]
             /\ meta' = [meta EXCEPT ![p] = None] /\ UNCHANGED <<back, kind, req>>
    BY <1>1, <1>4, QueueKeeps
  <1> QED BY <1>2, <1>3, <1>4 DEF Preempt, Goto

-----------------------------------------------------------------------------
(* The operations that hold the actor lock and call the backend once.       *)

\* An operation that has the lock reads the store again.
LEMMA ReadSafe == ASSUME IInv, NEW p \in Callers, Read(p) PROVE IInv'
  <1> DEFINE m == store[req[p].session]
  <1>1. pc[p] = "read" /\ UNCHANGED <<traffic, store, turns, todo, victim>>
    BY DEF Read
  <1>2. CASE Return(p) /\ UNCHANGED actors
    BY <1>1, <1>2, StoreStays, ReturnKeeps
  <1>3. CASE /\ m # None /\ pc' = [pc EXCEPT ![p] = "call"] /\ TakesUp(p, m.session)
             /\ meta' = [meta EXCEPT ![p] = m] /\ UNCHANGED <<back, local>>
    <2>1. TypeOK /\ req[p] \in traffic.bootstraps /\ req[p].session \in Sessions
      BY <1>1, CopyFacts, TrafficTypes, KeyTypes DEF IInv
    <2>2. m \in Metadata /\ Sourced(m) /\ m.session = req[p].session
      BY <1>3, <2>1 DEF IInv, TypeOK, AllSourced
    <2>3. Agrees(m, req[p])
      BY <2>1, <2>2, SessionKey
    <2> HIDE DEF m
    <2>4. StepTo(p, "call", m, back[p])
      BY <1>1, <1>3, <2>2, <2>3, CopyFacts
         DEF StepTo, Reached, KindAt, Unlocked, WithMeta, Sweeping, Steps, local
    <2>5. lock[p] = None \/ KeyOf(lock[p], m.session)
      BY <1>1, <2>1, <2>2, <2>3, TakenKey DEF Unlocked
    <2> QED BY <1>1, <1>3, <2>2, <2>4, <2>5, StoreStays, StepTakesUp
  <1> QED BY <1>2, <1>3 DEF Read, Goto

(* close clears the entry of another actor than the one it has locked: the  *)
(* turn there, if there is one, is forgotten.                               *)
LEMMA ForgottenTracked ==
  ASSUME IInv, NEW p \in Callers, Alone(p), pc[p] = "call", pc'[p] = "idle", NEW k \in ActorKeys,
         ~Agreed, active' = [active EXCEPT ![k] = None],
         forgotten' = forgotten \cup ({active[k]} \ {None})
  PROVE  /\ ActiveTracked' /\ ForgottenRun' /\ active' \in [ActorKeys -> Callers \cup {None}]
         /\ forgotten' \subseteq Callers
  <1>1. /\ active' \in [ActorKeys -> Callers \cup {None}] /\ forgotten' \subseteq Callers
        /\ active[k] \in Callers \cup {None}
    BY DEF IInv, TypeOK
  <1>2. ASSUME NEW q \in Callers
        PROVE  (Running(q)' <=> Running(q)) /\ (Running(q) => lock'[q] = lock[q])
    BY DEF Running, Alone
  <1>3. ASSUME NEW j \in ActorKeys, NEW q \in Callers
        PROVE  active'[j] = q <=> Running(q)' /\ lock'[q] = j /\ q \notin forgotten'
    <2>1. active[j] = q <=> Running(q) /\ lock[q] = j /\ q \notin forgotten
      BY DEF IInv, ActiveTracked
    <2>2. active[k] = q => Running(q) /\ lock[q] = k /\ q \notin forgotten
      BY DEF IInv, ActiveTracked
    <2>3. active'[j] = IF j = k THEN None ELSE active[j]
      BY DEF IInv, TypeOK
    <2>4. q # None
      BY NoneAssumption
    <2>5. q \in forgotten' <=> q \in forgotten \/ q = active[k]
      BY <2>4
    <2> HIDE DEF Running, ActorKeys
    <2> QED BY <1>2, <2>1, <2>2, <2>3, <2>4, <2>5
  <1>4. ~(Coherent(traffic.bootstraps))'
    BY DEF Agreed, Coherent, Alone
  <1>5. ForgottenRun'
    <2>1. ASSUME NEW q \in forgotten' PROVE Running(q)
      BY <1>1 DEF IInv, ForgottenRun, ActiveTracked
    <2> QED BY <1>1, <1>2, <2>1 DEF ForgottenRun
  <1> QED BY <1>1, <1>3, <1>4, <1>5 DEF ActiveTracked

\* An operation that has the lock stores what the backend answered.
LEMMA AnswerSafe == ASSUME IInv, NEW p \in Callers, Answer(p) PROVE IInv'
  <1>1. pc[p] = "call" /\ Return(p) /\ UNCHANGED <<traffic, aborted, actors, todo, victim>>
    BY DEF Answer
  <1>2. /\ meta[p] \in Metadata /\ Sourced(meta[p]) /\ Agrees(meta[p], req[p])
        /\ kind[p] \in {"status", "control", "cancel", "close"}
    BY <1>1, CopyFacts DEF WithMeta, KindAt
  <1>3. LocalSafe(p) /\ pc'[p] = "idle" /\ meta'[p] = None
    BY <1>1, ReturnSafe DEF Return, IInv, TypeOK
  <1>a. ActorsSafe(p)
    BY <1>1, <1>3, ActorsStay
  <1>4. ASSUME NEW state \in States, Upsert(Touched(meta[p], state)) PROVE StoreSafe
    <2> DEFINE m == Touched(meta[p], state)
    <2>1. m \in Metadata /\ Sourced(m) /\ Upsert(m)
      BY <1>2, <1>4, TouchedFacts
    <2> HIDE DEF m
    <2> QED BY <2>1, StoreKept
  <1>5. ASSUME Upsert([meta[p] EXCEPT !.idle = FALSE]) PROVE StoreSafe
    <2> DEFINE m == [meta[p] EXCEPT !.idle = FALSE]
    <2>1. m \in Metadata /\ Sourced(m) /\ Upsert(m)
      BY <1>2, <1>5, AgedFacts
    <2> HIDE DEF m
    <2> QED BY <2>1, StoreKept
  <1>6. CASE UNCHANGED <<active, forgotten>>
    <2>1. StoreSafe
      BY <1>2, <1>4, <1>5, <1>6, StoreKept, StoreStays, StatusAssumption
         DEF Answer, AnswerStatus, AnswerControl, AnswerCancel, AnswerClose, States
    <2> QED BY <1>1, <1>3, <1>a, <1>6, <2>1, AsideKeeps DEF turns
  <1>7. ASSUME NEW k, k = ActorKey(meta[p]), store' = [store EXCEPT ![req[p].session] = None],
               active' = [active EXCEPT ![k] = None],
               forgotten' = IF lock[p] = k THEN forgotten
                            ELSE forgotten \cup ({active[k]} \ {None})
        PROVE  IInv'
    <2>1. k \in ActorKeys /\ (Agreed => lock[p] = k)
      BY <1>1, <1>2, <1>7, KeyTypes DEF IInv, AllPlaced, Placed, LockFor, Unlocked, Agrees
    <2>2. StoreSafe
      BY <1>7, StoreKept
    <2>3. /\ ActiveTracked' /\ ForgottenRun' /\ active' \in [ActorKeys -> Callers \cup {None}]
          /\ forgotten' \subseteq Callers
      <3>1. CASE lock[p] = k
        <4>1. p \notin forgotten /\ forgotten \subseteq Callers
          BY <1>1 DEF IInv, TypeOK, ForgottenRun, Running
        <4>2. forgotten' = forgotten \ {p}
          BY <1>7, <3>1, <4>1
        <4> QED BY <1>1, <1>3, <1>7, <2>1, <3>1, <4>1, <4>2, ClearedTracked DEF LocalSafe
      <3>2. CASE lock[p] # k
        BY <1>1, <1>3, <1>7, <2>1, <3>2, ForgottenTracked DEF LocalSafe
      <3> QED BY <3>1, <3>2
    <2> QED BY <1>1, <1>3, <1>a, <2>2, <2>3, PartsKeep DEF IInv, TypeOK
  <1> QED BY <1>6, <1>7 DEF Answer, AnswerStatus, AnswerControl, AnswerCancel, AnswerClose

(* Ageing touches no caller and no actor key.                               *)
LEMMA AgeSafe == ASSUME IInv, NEW s \in Sessions, Age(s) PROVE IInv'
  <1> DEFINE m == [store[s] EXCEPT !.idle = TRUE]
  <1>1. /\ UNCHANGED <<traffic, active, aborted, actors, forgotten, pc, meta, todo, victim, back,
                       kind, req, lock>>
        /\ store[s] \in Metadata /\ store[s].session = s /\ Sourced(store[s])
        /\ store' = [store EXCEPT ![s] = m]
    BY DEF Age, local, turns, IInv, TypeOK, AllSourced
  <1>2. m \in Metadata /\ m.session = s /\ Sourced(m)
    BY <1>1, AgedFacts
  <1> HIDE DEF m
  <1>3. StoreSafe
    BY <1>1, <1>2, StoreKept DEF Upsert
  <1>4. TypeOK'
    BY <1>1, <1>3 DEF IInv, TypeOK, StoreSafe
  <1>5. AllPlaced' /\ LockExclusive'
    BY <1>1 DEF IInv, AllPlaced, Placed, LockFor, Agreed, Coherent, LockExclusive
  <1>6. AllSourced'
    BY <1>1, <1>3 DEF IInv, AllSourced, Sourced, Agrees, Agreed, Coherent, StoreSafe
  <1>7. ActiveTracked' /\ ForgottenRun'
    BY <1>1 DEF IInv, ActiveTracked, ForgottenRun, Running, Coherent
  <1>8. AllTakenUp'
    BY <1>1 DEF IInv, AllTakenUp, KeyOf, Agreed, Coherent
  <1> QED BY <1>4, <1>5, <1>6, <1>7, <1>8 DEF IInv

-----------------------------------------------------------------------------
\* A manager that starts on what another has left satisfies the invariant.
LEMMA InitSafe == Init => IInv
  <1> SUFFICES ASSUME Init PROVE IInv
    OBVIOUS
  <1> DEFINE Left == UNION {{Made(b, state, TRUE) : state \in traffic.left} :
                              b \in traffic.bootstraps}
  <1>s. store \in [Sessions -> {None} \cup Left]
    BY DEF Init
  <1>l. \A m \in Left : \E b \in traffic.bootstraps, state \in traffic.left : m = Made(b, state, TRUE)
    OBVIOUS
  <1>0. \A s \in Sessions : store[s] # None =>
           \E b \in traffic.bootstraps, state \in traffic.left : store[s] = Made(b, state, TRUE)
    <2> HIDE DEF Left, Sessions, Made
    <2>1. ASSUME NEW s \in Sessions, store[s] # None PROVE store[s] \in Left
      BY <1>s, <2>1
    <2> QED BY <1>l, <2>1
  <1>1. TypeOK
    <2>1. traffic \in Traffics /\ traffic.left \subseteq States
      BY TrafficAssumption DEF Init
    <2>2. ASSUME NEW b \in traffic.bootstraps, NEW state \in traffic.left
          PROVE  Made(b, state, TRUE) \in Metadata
      <3>1. b.session \in Sessions /\ b.conversation \in Conversations /\ b.binding \in Bindings
        BY <2>1 DEF Sessions, Conversations, Bindings, Bootstraps
      <3> HIDE DEF Sessions, Conversations, Bindings
      <3> QED BY <2>1, <3>1 DEF Made, Metadata
    <2>3. store \in [Sessions -> Metadata \cup {None}]
      <3> HIDE DEF Left, Metadata, Sessions, Made
      <3>1. Left \subseteq Metadata
        BY <1>l, <2>2
      <3> QED BY <1>s, <3>1
    <2> HIDE DEF Metadata, Sessions, ActorKeys
    <2> QED BY <2>1, <2>3 DEF Init, TypeOK, Steps
  <1>2. AllPlaced
    BY DEF Init, AllPlaced, Placed, Reached, KindAt, Sweeping, WithMeta, Unlocked
  <1>3. LockExclusive /\ AllTakenUp /\ ForgottenRun
    BY DEF Init, LockExclusive, AllTakenUp, ForgottenRun
  <1>4. AllSourced
    <2>1. ASSUME NEW s \in Sessions, store[s] # None PROVE Sourced(store[s])
      <3>1. PICK b \in traffic.bootstraps, state \in traffic.left : store[s] = Made(b, state, TRUE)
        BY <1>0, <2>1
      <3>2. state \in States
        BY <1>1, TrafficTypes
      <3> QED BY <1>1, <3>1, <3>2, MadeFacts
    <2> QED BY <2>1 DEF Init, AllSourced
  <1>5. ActiveTracked
    BY NoneAssumption DEF Init, ActiveTracked, Running
  <1> QED BY <1>1, <1>2, <1>3, <1>4, <1>5 DEF IInv

\* What an earlier process has left says that it does.
LEMMA InitOutside ==
  ASSUME Init PROVE \A s \in Sessions : store[s] # None => store[s].outside
  <1> DEFINE Left == UNION {{Made(b, state, TRUE) : state \in traffic.left} :
                              b \in traffic.bootstraps}
  <1>1. store \in [Sessions -> {None} \cup Left]
    BY DEF Init
  <1>2. \A m \in Left : m.outside
    BY DEF Made
  <1> HIDE DEF Left, Sessions
  <1> QED BY <1>1, <1>2

\* Every step keeps the invariant.
LEMMA NextSafe == IInv /\ [Next]_vars => IInv'
  <1> SUFFICES ASSUME IInv, [Next]_vars PROVE IInv'
    OBVIOUS
  <1>1. CASE UNCHANGED vars
    <2>1. TypeOK'
      BY <1>1 DEF IInv, TypeOK, vars
    <2>2. AllPlaced' /\ LockExclusive'
      BY <1>1 DEF IInv, AllPlaced, Placed, LockFor, Agreed, Coherent, LockExclusive, vars
    <2>3. AllSourced'
      BY <1>1 DEF IInv, AllSourced, Sourced, Agrees, Agreed, Coherent, vars
    <2>4. ActiveTracked' /\ ForgottenRun'
      BY <1>1 DEF IInv, ActiveTracked, ForgottenRun, Running, Coherent, vars
    <2>5. AllTakenUp'
      BY <1>1 DEF IInv, AllTakenUp, KeyOf, Agreed, Coherent, vars
    <2> QED BY <2>1, <2>2, <2>3, <2>4, <2>5 DEF IInv
  <1>2. ASSUME NEW p \in Callers, Call(p) \/ Acquire(p) PROVE IInv'
    BY <1>2, CallSafe, AcquireSafe
  <1>3. ASSUME NEW p \in Callers, Proceed(p) PROVE IInv'
    BY <1>3, ListSafe, PickSafe, EvictSafe, SweptSafe, LookupSafe, LimitSafe, TouchSafe, CreateSafe,
       StartSafe, RegisterSafe, SubscribeSafe, TurnEndsSafe, FinishSafe, LookSafe, MarkSafe,
       PreemptSafe, ReadSafe, AnswerSafe DEF Proceed
  <1>4. ASSUME NEW s \in Sessions, Age(s) PROVE IInv'
    BY <1>4, AgeSafe
  <1> QED BY <1>1, <1>2, <1>3, <1>4 DEF Next

(* The inductive invariant of the session manager.                          *)
THEOREM Inductive == Spec => []IInv
  BY InitSafe, NextSafe, PTL DEF Spec

(* Every piece of the manager's state keeps its type, and a session is      *)
(* stored under its own key.                                                *)
THEOREM TypeCorrect == Spec => []TypeOK
  <1>1. IInv => TypeOK
    BY DEF IInv
  <1> QED BY <1>1, Inductive, PTL

(* run_turn_with_sink: turns of a session overlap only under two actor      *)
(* keys, and coherent requests never use two for a session.                 *)
THEOREM SerialCorrect == Spec => []TurnsSerial
  <1>1. ASSUME IInv, NEW p \in Callers, NEW q \in Callers, InTurn(p), InTurn(q),
               meta[p].session = meta[q].session, p # q
        PROVE  Split(meta[p].session)
    <2>1. /\ lock[p] # None /\ meta[p] # None /\ pc[p] # "wait"
          /\ lock[q] # None /\ meta[q] # None /\ pc[q] # "wait"
      BY <1>1, TurnLock, CopyFacts DEF InTurn, WithMeta
    <2>2. lock[p] \in actors[meta[p].session] /\ lock[q] \in actors[meta[p].session]
      BY <1>1, <2>1 DEF IInv, AllTakenUp
    <2>3. lock[p] # lock[q]
      BY <1>1, <2>1 DEF IInv, LockExclusive
    <2> QED BY <2>2, <2>3 DEF Split
  <1>2. ASSUME IInv, Coherent(traffic.bootstraps), NEW s \in Sessions PROVE ~Split(s)
    BY <1>2 DEF Split, IInv, AllTakenUp, KeyOf, Agreed, Coherent
  <1>3. IInv => TurnsSerial
    BY <1>1, <1>2 DEF TurnsSerial
  <1> QED BY <1>3, Inductive, PTL

(* active_turns names a turn exactly while it runs (register_active_turn,   *)
(* clear_active_turn, close).                                               *)
THEOREM ActiveCorrect == Spec => []ActiveTracked
  <1>1. IInv => ActiveTracked
    BY DEF IInv
  <1> QED BY <1>1, Inductive, PTL

-----------------------------------------------------------------------------
(* Steps move one caller; what a step writes.                               *)

\* A step of the caller p.
Moves(p) == Call(p) \/ Acquire(p) \/ Proceed(p)

(* The five ways to call.                                                   *)
LEMMA CallStarts ==
  ASSUME IInv, NEW p \in Callers, Call(p)
  PROVE  /\ pc[p] = "idle" /\ pc'[p] \in {"wait", "list", "look"}
         /\ UNCHANGED <<traffic, store, actors, aborted>> /\ Alone(p)
  <1>1. PICK b \in traffic.bootstraps, k \in traffic.kinds :
           /\ req' = [req EXCEPT ![p] = b]
           /\ CASE k = "turn" -> CallTurn(p, b)
                [] k = "ensure" -> CallUnlocked(p, k, "resolve")
                [] k = "snapshot" -> CallUnlocked(p, k, "done")
                [] k \in {"cancel", "close"} -> CallInterrupt(p, k, b.session)
                [] k \in {"status", "control"} -> CallControl(p, k, b.session)
    BY DEF Call
  <1>2. k \in AllKinds /\ UNCHANGED <<traffic, store, actors, aborted>>
    BY TrafficTypes DEF Call, IInv, turns
  <1>3. \/ CallTurn(p, b) \/ CallUnlocked(p, k, "resolve") \/ CallUnlocked(p, k, "done")
        \/ CallInterrupt(p, k, b.session) \/ CallControl(p, k, b.session)
    BY <1>1, <1>2 DEF AllKinds
  <1>4. pc[p] = "idle" /\ pc'[p] \in {"wait", "list", "look"}
    BY <1>3 DEF IInv, TypeOK, CallTurn, CallUnlocked, CallInterrupt, CallControl, Goto, Sweep
  <1>5. Alone(p)
    BY <1>1, <1>2, <1>3
       DEF IInv, TypeOK, Alone, CallTurn, CallUnlocked, CallInterrupt, CallControl, Goto, Sweep
  <1> QED BY <1>2, <1>4, <1>5

\* A caller changes only its own local variables.
LEMMA MovesAlone == ASSUME IInv, NEW p \in Callers, Moves(p) PROVE Alone(p)
  <1> USE DEF IInv, TypeOK, Alone, Goto, Return, Sweep, local
  <1>1. CASE Call(p)
    BY <1>1, CallStarts
  <1>2. CASE Acquire(p) \/ List(p) \/ Pick(p) \/ Evict(p)
    BY <1>2 DEF Acquire, List, Pick, Evict
  <1>3. CASE Swept(p)
    BY <1>3 DEF Swept
  <1>4. CASE Lookup(p)
    BY <1>4 DEF Lookup
  <1>L. CASE Limit(p) \/ Count(p)
    BY <1>L DEF Limit, Count
  <1>5. CASE Touch(p)
    BY <1>5 DEF Touch, Ensured
  <1>6. CASE Create(p)
    BY <1>6 DEF Create, Ensured
  <1>7. CASE Start(p) \/ Register(p) \/ Subscribe(p) \/ TurnEnds(p) \/ Finish(p)
    BY <1>7 DEF Start, Register, Subscribe, TurnEnds, Finish
  <1>8. CASE Look(p) \/ Mark(p) \/ Preempt(p)
    BY <1>8 DEF Look, Mark, Preempt
  <1>9. CASE Read(p) \/ Answer(p)
    BY <1>9 DEF Read, Answer
  <1> QED BY <1>1, <1>2, <1>3, <1>4, <1>L, <1>5, <1>6, <1>7, <1>8, <1>9 DEF Moves, Proceed

\* The keys of a session only become more, so that a split session stays split.
Grows == \A s \in Sessions : actors[s] \subseteq actors'[s] /\ (Split(s) => Split(s)')

\* A step takes up one session, or none.
LEMMA MovesGrow == ASSUME IInv, NEW p \in Callers, Moves(p) PROVE Grows
  <1>1. UNCHANGED actors \/ \E s : TakesUp(p, s)
    <2>1. CASE Call(p)
      BY <2>1, CallStarts
    <2>2. CASE Acquire(p) \/ List(p) \/ Pick(p) \/ Evict(p) \/ Swept(p)
      BY <2>2 DEF Acquire, List, Pick, Evict, Swept
    <2>3. CASE Lookup(p)
      BY <2>3 DEF Lookup
    <2>4. CASE Limit(p) \/ Count(p) \/ Touch(p)
      BY <2>4 DEF Limit, Count, Touch
    <2>5. CASE Create(p)
      BY <2>5 DEF Create
    <2>6. CASE Start(p) \/ Register(p) \/ Subscribe(p) \/ TurnEnds(p) \/ Finish(p)
      BY <2>6 DEF Start, Register, Subscribe, TurnEnds, Finish
    <2>7. CASE Look(p) \/ Mark(p) \/ Preempt(p) \/ Answer(p)
      BY <2>7 DEF Look, Mark, Preempt, Answer
    <2>8. CASE Read(p)
      BY <2>8 DEF Read
    <2> QED BY <2>1, <2>2, <2>3, <2>4, <2>5, <2>6, <2>7, <2>8 DEF Moves, Proceed
  <1>2. \A s \in Sessions : actors[s] \subseteq actors'[s]
    <2>1. ASSUME NEW s, TakesUp(p, s), NEW r \in Sessions PROVE actors[r] \subseteq actors'[r]
      <3>1. actors'[r] = IF r = s THEN actors[r] \cup ({lock[p]} \ {None}) ELSE actors[r]
        BY <2>1 DEF TakesUp, IInv, TypeOK
      <3> QED BY <3>1
    <2> QED BY <1>1, <2>1
  <1> QED BY <1>2 DEF Grows, Split

\* What a separate ensure_session is about to write counts as its own.
EnsureOutside == \A p \in Callers : pc[p] = "touch" /\ kind[p] = "ensure" => meta[p].outside

(* It has marked its copy when it took it.                                  *)
LEMMA OutsideMarked == Spec => []EnsureOutside
  <1>1. Init => EnsureOutside
    BY DEF Init, EnsureOutside
  <1>2. IInv /\ EnsureOutside /\ [Next]_vars => EnsureOutside'
    <2> SUFFICES ASSUME IInv, EnsureOutside, [Next]_vars PROVE EnsureOutside'
      OBVIOUS
    <2>0. /\ pc \in [Callers -> Steps] /\ meta \in [Callers -> Metadata \cup {None}]
          /\ kind \in [Callers -> traffic.kinds \cup {None}]
      BY DEF IInv, TypeOK
    <2>1. ASSUME NEW p \in Callers, Moves(p) PROVE EnsureOutside'
      <3>1. Alone(p)
        BY <2>1, MovesAlone
      <3>2. pc'[p] = "touch" /\ kind'[p] = "ensure" => meta'[p].outside
        <4>1. CASE Lookup(p)
          <5> SUFFICES ASSUME pc'[p] = "touch", kind'[p] = "ensure" PROVE meta'[p].outside
            OBVIOUS
          <5>1. PICK s \in Existing(p) :
                   LET m == Validated(store[s], req[p], kind[p] # "turn")
                   IN  m # None /\ meta' = [meta EXCEPT ![p] = m] /\ UNCHANGED local
            BY <2>0, <4>1 DEF Lookup, Return, NextLookup
          <5> DEFINE m == Validated(store[s], req[p], kind[p] # "turn")
          <5>2. /\ pc[p] \in {"resolve", "by_route", "by_conversation"} /\ kind[p] = "ensure"
                /\ req[p] \in traffic.bootstraps /\ Reached(pc[p], req[p])
            BY <4>1, <5>1, CopyFacts DEF Lookup, local, IInv, AllPlaced, Placed
          <5>3. store[s] \in Metadata /\ Sourced(store[s]) /\ Agrees(store[s], req[p])
            BY <5>2, ExistingKey DEF IInv
          <5>4. (kind[p] # "turn") = TRUE
            BY <5>2
          <5>5. m.outside
            BY <5>1, <5>2, <5>3, <5>4, ValidatedFacts DEF IInv
          <5> HIDE DEF m
          <5> QED BY <2>0, <5>1, <5>5 DEF m
        <4>2. CASE ~Lookup(p)
          <5>1. pc'[p] # "touch"
            <6>1. CASE Call(p)
              BY <6>1, CallStarts
            <6>2. CASE Acquire(p) \/ List(p) \/ Pick(p) \/ Evict(p)
              BY <2>0, <6>2 DEF Acquire, List, Pick, Evict, Goto, Sweep
            <6>3. CASE Swept(p)
              BY <2>0, <6>3, CopyFacts DEF Swept, Goto, Sweep, Return
            <6>4. CASE Limit(p) \/ Count(p)
              BY <2>0, <6>4 DEF Limit, Count, Goto, Return
            <6>5. CASE Touch(p) \/ Create(p)
              BY <2>0, <6>5 DEF Touch, Create, Ensured, Return
            <6>6. CASE Start(p) \/ Register(p) \/ Subscribe(p) \/ TurnEnds(p) \/ Finish(p)
              BY <2>0, <6>6 DEF Start, Register, Subscribe, TurnEnds, Finish, Goto, Return
            <6>7. CASE Look(p) \/ Mark(p) \/ Preempt(p)
              BY <2>0, <6>7 DEF Look, Mark, Preempt, Goto, Return
            <6>8. CASE Read(p) \/ Answer(p)
              BY <2>0, <6>8 DEF Read, Answer, Goto, Return
            <6> QED BY <2>1, <4>2, <6>1, <6>2, <6>3, <6>4, <6>5, <6>6, <6>7, <6>8
                    DEF Moves, Proceed
          <5> QED BY <5>1
        <4> QED BY <4>1, <4>2
      <3> QED BY <3>1, <3>2 DEF EnsureOutside, Alone
    <2>2. ASSUME NEW s \in Sessions, Age(s) PROVE EnsureOutside'
      BY <2>2 DEF Age, local, EnsureOutside
    <2>3. CASE UNCHANGED vars
      BY <2>3 DEF vars, EnsureOutside
    <2> QED BY <2>1, <2>2, <2>3 DEF Next, Moves
  <1> QED BY <1>1, <1>2, Inductive, PTL DEF Spec

\* An upsert replaces the session it names.
LEMMA UpsertFacts ==
  ASSUME IInv, NEW m \in Metadata, Upsert(m), NEW s \in Sessions
  PROVE  /\ store'[s] = IF s = m.session THEN m ELSE store[s]
         /\ m # None
  <1>1. store'[s] = IF s = m.session THEN m ELSE store[s]
    BY DEF IInv, TypeOK, Upsert
  <1> QED BY <1>1, NoneAssumption

-----------------------------------------------------------------------------
(* Busy does not outlive its turn.  A Busy record has a turn that will      *)
(* write it again; the turn has the lock of every control operation, or the *)
(* session is split, so no control operation brings Busy back.              *)

BusyAt(s) == store[s] # None /\ store[s].state = "Busy" /\ ~store[s].outside /\ ~Split(s)
Covers(p, s) == kind[p] = "turn" /\ meta[p] # None /\ meta[p].session = s

BusyCovered == \A s \in Sessions : BusyAt(s) => \E p \in Callers : Covers(p, s)
Harmless(m) == m.state # "Busy" \/ m.outside \/ Split(m.session)
BusyCopies == \A p \in Callers : pc[p] = "call" => Harmless(meta[p])
BusyInv == BusyCovered /\ BusyCopies

\* p leaves no Busy record without a turn, and takes no copy of one.
BusySafe(p) ==
    /\ \A s \in Sessions : BusyAt(s)' => Covers(p, s)' \/ (BusyAt(s) /\ ~Covers(p, s))
    /\ pc'[p] = "call" => Harmless(meta[p])'

(* The caller itself is the only one to look at.                            *)
LEMMA BusyKept ==
  ASSUME IInv, BusyCovered, BusyCopies, NEW p \in Callers, Alone(p), Grows, BusySafe(p)
  PROVE  BusyCovered' /\ BusyCopies'
  <1>1. ASSUME NEW s \in Sessions, BusyAt(s)'
        PROVE  \E q \in Callers : Covers(q, s)'
    <2>1. CASE Covers(p, s)'
      BY <2>1
    <2>2. CASE BusyAt(s) /\ ~Covers(p, s)
      <3>1. PICK q \in Callers : Covers(q, s)
        BY <2>2 DEF BusyCovered
      <3>2. Covers(q, s)'
        BY <2>2, <3>1 DEF Alone, Covers
      <3> QED BY <3>2
    <2> QED BY <1>1, <2>1, <2>2 DEF BusySafe
  <1>2. ASSUME NEW q \in Callers, q # p, pc'[q] = "call" PROVE Harmless(meta[q])'
    <2>1. meta'[q] = meta[q] /\ Harmless(meta[q]) /\ meta[q] \in Metadata
      BY <1>2, CopyFacts DEF Alone, BusyCopies, WithMeta
    <2>2. meta[q].session \in Sessions
      BY <2>1 DEF Metadata
    <2> QED BY <2>1, <2>2 DEF Harmless, Grows
  <1>3. BusyCopies'
    BY <1>2 DEF BusyCopies, BusySafe
  <1> QED BY <1>1, <1>3 DEF BusyCovered

(* A write of another state than Busy, one that the property exempts, or no *)
(* write, by an operation that does not cover the session any longer.       *)
LEMMA IdleWrite ==
  ASSUME IInv, Grows, NEW p \in Callers, pc'[p] # "call",
         \/ UNCHANGED store /\ (\A s \in Sessions : ~Covers(p, s))
         \/ (\E s : store' = [store EXCEPT ![s] = None]) /\ (\A s \in Sessions : ~Covers(p, s))
         \/ \E m \in Metadata : /\ Upsert(m) /\ Harmless(m)
                               /\ \A s \in Sessions : Covers(p, s) => s = m.session
  PROVE  BusySafe(p)
  <1>1. CASE UNCHANGED store /\ (\A s \in Sessions : ~Covers(p, s))
    BY <1>1 DEF BusySafe, BusyAt, Grows
  <1>2. ASSUME NEW s, store' = [store EXCEPT ![s] = None], \A r \in Sessions : ~Covers(p, r)
        PROVE  BusySafe(p)
    BY <1>2 DEF BusySafe, BusyAt, Grows, IInv, TypeOK
  <1>3. ASSUME NEW m \in Metadata, Upsert(m), Harmless(m),
               \A s \in Sessions : Covers(p, s) => s = m.session
        PROVE  BusySafe(p)
    <2>1. \A s \in Sessions : store'[s] = IF s = m.session THEN m ELSE store[s]
      BY <1>3, UpsertFacts
    <2>2. m.session \in Sessions
      BY DEF Metadata
    <2> QED BY <1>3, <2>1, <2>2 DEF BusySafe, BusyAt, Grows, Harmless
  <1> QED BY <1>1, <1>2, <1>3

\* Busy is stored only for a session whose turn is under way.
LEMMA MovesBusySafe ==
  ASSUME "Busy" \notin StatusStates, IInv, IInv', EnsureOutside,
         BusyCovered, BusyCopies, NEW p \in Callers, Moves(p)
  PROVE  BusySafe(p)
  <1>0. /\ (pc[p] \notin WithMeta => \A s \in Sessions : ~Covers(p, s))
        /\ (pc[p] \in WithMeta => meta[p] \in Metadata)
    BY CopyFacts DEF Covers
  <1>g. Grows
    BY MovesGrow
  <1>t. \A state \in States : meta[p] \in Metadata =>
           LET m == Touched(meta[p], state)
           IN  m \in Metadata /\ m.state = state /\ m.session = meta[p].session
    BY TouchedFacts
  <1>p. /\ pc \in [Callers -> Steps] /\ meta \in [Callers -> Metadata \cup {None}]
        /\ kind \in [Callers -> traffic.kinds \cup {None}]
    BY DEF IInv, TypeOK
  <1>r. Return(p) => pc'[p] = "idle"
    BY <1>p DEF Return
  <1>1. CASE Call(p)
    <2>1. UNCHANGED store /\ pc'[p] # "call" /\ pc[p] = "idle"
      BY <1>1, CallStarts
    <2> QED BY <1>0, <1>g, <2>1, IdleWrite DEF WithMeta
  <1>2. CASE Acquire(p) \/ List(p) \/ Pick(p) \/ Swept(p)
    <2>1. UNCHANGED store /\ pc'[p] # "call" /\ pc[p] \in {"wait", "list", "sweep"}
      BY <1>2, <1>p, <1>r, CopyFacts DEF Acquire, List, Pick, Swept, Goto, Sweep
    <2> QED BY <1>0, <1>g, <2>1, IdleWrite DEF WithMeta
  <1>3. CASE Evict(p)
    <2>1. pc'[p] # "call" /\ pc[p] = "evict" /\ (UNCHANGED store \/ store' = [store EXCEPT ![victim[p]] = None])
      BY <1>3, <1>p DEF Evict, Goto
    <2> QED BY <1>0, <1>g, <2>1, IdleWrite DEF WithMeta
  <1>4. CASE Lookup(p) \/ Limit(p) \/ Count(p)
    <2>1. /\ UNCHANGED store /\ pc'[p] # "call"
          /\ pc[p] \in {"resolve", "by_route", "by_conversation", "limit", "count"}
      <3>1. CASE Lookup(p)
        BY <1>p, <1>r, <3>1 DEF Lookup, NextLookup
      <3>2. CASE Limit(p)
        BY <1>p, <3>2 DEF Limit, Goto
      <3>3. CASE Count(p)
        BY <1>p, <1>r, <3>3 DEF Count, Goto
      <3> QED BY <1>4, <3>1, <3>2, <3>3
    <2> QED BY <1>0, <1>g, <2>1, IdleWrite DEF WithMeta
  <1>5. CASE Touch(p)
    <2>1. /\ pc[p] = "touch" /\ Upsert(meta[p]) /\ kind[p] \in {"turn", "ensure"}
          /\ meta[p] \in Metadata
      BY <1>0, <1>5, CopyFacts DEF Touch, KindAt, WithMeta
    <2>2. CASE kind[p] = "turn"
      <3>1. pc'[p] = "start" /\ meta'[p] = meta[p] /\ kind'[p] = "turn"
        BY <1>5, <1>p, <2>1, <2>2 DEF Touch, Ensured, local
      <3>2. meta[p] # None
        BY <2>1, NoneAssumption
      <3>3. \A s \in Sessions : store'[s] = IF s = meta[p].session THEN meta[p] ELSE store[s]
        BY <2>1, UpsertFacts
      <3>4. ASSUME NEW s \in Sessions, BusyAt(s)'
            PROVE  Covers(p, s)' \/ (BusyAt(s) /\ ~Covers(p, s))
        BY <1>g, <3>1, <3>2, <3>3, <3>4 DEF BusyAt, Covers, Grows
      <3> QED BY <3>1, <3>4 DEF BusySafe
    <2>3. CASE kind[p] = "ensure"
      <3>1. Harmless(meta[p]) /\ \A s \in Sessions : ~Covers(p, s)
        BY <2>1, <2>3 DEF EnsureOutside, Harmless, Covers
      <3>2. pc'[p] # "call"
        BY <1>5, <1>r, <2>3 DEF Touch, Ensured
      <3> QED BY <1>g, <2>1, <3>1, <3>2, IdleWrite
    <2> QED BY <2>1, <2>2, <2>3
  <1>6. CASE Create(p)
    <2> DEFINE m == Made(req[p], "Ready", kind[p] # "turn")
    <2>1. pc[p] = "create" /\ ((Upsert(m) /\ Ensured(p, m)) \/ (UNCHANGED store /\ Return(p)))
      BY <1>6 DEF Create
    <2>2. pc'[p] # "call"
      BY <1>p, <1>r, <2>1 DEF Ensured
    <2>3. m \in Metadata /\ m.state = "Ready"
      BY <2>1, CopyFacts, MadeFacts DEF IInv, States
    <2> HIDE DEF m
    <2>4. Harmless(m) /\ \A s \in Sessions : ~Covers(p, s)
      BY <1>0, <2>1, <2>3 DEF Harmless, WithMeta
    <2> QED BY <1>g, <2>1, <2>2, <2>3, <2>4, IdleWrite
  <1>7. CASE Start(p)
    <2> DEFINE m == Touched(meta[p], "Busy")
    <2>1. /\ pc[p] = "start" /\ pc'[p] = "register" /\ meta'[p] = m /\ Upsert(m) /\ kind'[p] = kind[p]
      BY <1>7, <1>p DEF Start, Goto, local
    <2>2. m \in Metadata /\ kind[p] = "turn" /\ m.session = meta[p].session
      BY <1>0, <1>t, <2>1, CopyFacts DEF WithMeta, KindAt, States
    <2> HIDE DEF m
    <2>3. \A s \in Sessions : Covers(p, s) => s = m.session
      BY <2>2 DEF Covers
    <2>4. m # None /\ \A s \in Sessions : store'[s] = IF s = m.session THEN m ELSE store[s]
      BY <2>1, <2>2, UpsertFacts, NoneAssumption
    <2>5. ASSUME NEW s \in Sessions, BusyAt(s)'
          PROVE  Covers(p, s)' \/ (BusyAt(s) /\ ~Covers(p, s))
      BY <1>g, <2>1, <2>2, <2>3, <2>4, <2>5 DEF BusyAt, Covers, Grows
    <2> QED BY <2>1, <2>5 DEF BusySafe
  <1>8. CASE Register(p) \/ Subscribe(p) \/ TurnEnds(p)
    <2>1. UNCHANGED <<store, kind, meta>> /\ pc'[p] # "call"
      BY <1>8, <1>p DEF Register, Subscribe, TurnEnds, Goto, local
    <2> QED BY <1>g, <2>1 DEF BusySafe, BusyAt, Covers, Grows
  <1>9. CASE Finish(p)
    <2> DEFINE state == IF pc[p] = "finish_ok" THEN "Ready" ELSE "Error"
               m == Touched(meta[p], state)
    <2>1. pc[p] \in {"finish_ok", "finish_err"} /\ Upsert(m) /\ pc'[p] = "idle"
      BY <1>9, <1>r DEF Finish
    <2>2. m \in Metadata /\ m.session = meta[p].session /\ m.state # "Busy"
      BY <1>0, <1>t, <2>1 DEF WithMeta, States
    <2> HIDE DEF m, state
    <2>3. \A s \in Sessions : Covers(p, s) => s = m.session
      BY <2>2 DEF Covers
    <2>4. Harmless(m)
      BY <2>2 DEF Harmless
    <2> QED BY <1>g, <2>1, <2>2, <2>3, <2>4, IdleWrite
  <1>10. CASE Look(p) \/ Mark(p) \/ Preempt(p)
    <2>1. /\ pc[p] \in {"look", "mark", "preempt"} /\ pc'[p] # "call"
          /\ \/ UNCHANGED store
             \/ \E state \in {"Cancelling", "Error"} : Upsert(Touched(meta[p], state))
      <3>1. CASE Look(p)
        BY <1>p, <3>1 DEF Look, Goto
      <3>2. CASE Mark(p)
        BY <1>p, <3>2 DEF Mark, Goto
      <3>3. CASE Preempt(p)
        BY <1>p, <1>r, <3>3 DEF Preempt, Goto
      <3> QED BY <1>10, <3>1, <3>2, <3>3
    <2>2. \A s \in Sessions : ~Covers(p, s)
      BY <2>1, CopyFacts DEF KindAt, Covers
    <2>3. meta[p] \in Metadata
      BY <1>0, <2>1 DEF WithMeta
    <2> QED BY <1>g, <1>t, <2>1, <2>2, <2>3, IdleWrite DEF States, Harmless
  <1>11. CASE Read(p)
    <2>1. pc[p] = "read" /\ UNCHANGED store
      BY <1>11 DEF Read
    <2>2. /\ req[p].session \in Sessions
          /\ kind[p] \in {"status", "control", "cancel", "close"}
      BY <2>1, CopyFacts, TrafficTypes, KeyTypes DEF IInv, KindAt
    <2> PICK s \in Sessions : s = req[p].session
      BY <2>2
    <2>3. ASSUME pc'[p] = "call" PROVE Harmless(meta[p])'
      <3>1. store[s] # None /\ meta'[p] = store[s] /\ TakesUp(p, store[s].session)
        BY <1>11, <1>p, <1>r, <2>3 DEF Read, Goto
      <3>2. store[s].session = s /\ store[s] \in Metadata
        BY <2>2, <3>1 DEF IInv, TypeOK
      <3> SUFFICES ASSUME store[s].state = "Busy", ~store[s].outside PROVE Split(s)'
        BY <3>1, <3>2 DEF Harmless
      <3>3. CASE Split(s)
        BY <1>g, <2>2, <3>3 DEF Grows
      <3>4. CASE ~Split(s)
        <4>1. PICK q \in Callers : Covers(q, s)
          BY <2>2, <3>1, <3>4 DEF BusyCovered, BusyAt
        <4>2. /\ pc[q] \in WithMeta /\ pc[q] \notin Unlocked /\ pc[q] # "wait"
              /\ kind[q] = "turn" /\ meta[q] # None /\ meta[q].session = s
          BY <4>1, CopyFacts DEF Covers, KindAt, WithMeta, Unlocked
        <4>3. lock[q] \in ActorKeys
          BY <4>2 DEF IInv, AllPlaced, Placed, LockFor
        <4>4. lock[q] \in actors[s]
          BY <4>2, <4>3, NoneAssumption DEF IInv, AllTakenUp
        <4>5. lock[p] \in ActorKeys
          BY <2>1, <2>2 DEF IInv, AllPlaced, Placed, Unlocked, LockFor
        <4>6. lock[p] # lock[q]
          <5>1. p # q /\ pc[p] # "wait" /\ lock[p] # None
            BY <2>1, <2>2, <4>2, <4>5, NoneAssumption
          <5> QED BY <4>2, <5>1 DEF IInv, LockExclusive
        <4>7. lock[p] \in actors'[s]
          BY <2>2, <3>1, <3>2, <4>5, NoneAssumption DEF TakesUp, IInv, TypeOK
        <4>8. lock[q] \in actors'[s]
          BY <1>g, <2>2, <4>4 DEF Grows
        <4> QED BY <4>6, <4>7, <4>8 DEF Split
      <3> QED BY <3>3, <3>4
    <2>4. \A r \in Sessions : ~Covers(p, r)
      BY <1>0, <2>1 DEF WithMeta
    <2> QED BY <1>g, <2>1, <2>3, <2>4 DEF BusySafe, BusyAt, Grows
  <1>12. CASE Answer(p)
    <2>1. pc[p] = "call" /\ pc'[p] = "idle" /\ Harmless(meta[p])
      BY <1>12, <1>r DEF Answer, BusyCopies
    <2>2. meta[p] \in Metadata /\ \A s \in Sessions : ~Covers(p, s)
      BY <1>0, <2>1, CopyFacts DEF Covers, KindAt, WithMeta
    <2>3. CASE UNCHANGED store
      BY <1>g, <2>1, <2>2, <2>3, IdleWrite
    <2>4. ASSUME NEW s, store' = [store EXCEPT ![s] = None] PROVE BusySafe(p)
      BY <1>g, <2>1, <2>2, <2>4, IdleWrite
    <2>5. ASSUME NEW state \in States, state # "Busy", Upsert(Touched(meta[p], state))
          PROVE  BusySafe(p)
      <3> DEFINE m == Touched(meta[p], state)
      <3>1. m \in Metadata /\ m.state = state /\ Upsert(m)
        BY <1>t, <2>2, <2>5
      <3> HIDE DEF m
      <3>2. Harmless(m)
        BY <2>5, <3>1 DEF Harmless
      <3> QED BY <1>g, <2>1, <2>2, <3>1, <3>2, IdleWrite
    <2>6. CASE Upsert([meta[p] EXCEPT !.idle = FALSE])
      <3> DEFINE m == [meta[p] EXCEPT !.idle = FALSE]
      <3>1. /\ m \in Metadata /\ m.state = meta[p].state /\ m.outside = meta[p].outside
            /\ m.session = meta[p].session /\ Upsert(m)
        BY <2>2, <2>6, AgedFacts
      <3> HIDE DEF m
      <3>2. Harmless(m)
        BY <2>1, <3>1 DEF Harmless
      <3> QED BY <1>g, <2>1, <2>2, <3>1, <3>2, IdleWrite
    <2>7. \/ UNCHANGED store \/ \E s : store' = [store EXCEPT ![s] = None]
          \/ \E state \in States : state # "Busy" /\ Upsert(Touched(meta[p], state))
          \/ Upsert([meta[p] EXCEPT !.idle = FALSE])
      BY <1>12, StatusAssumption
         DEF Answer, AnswerStatus, AnswerControl, AnswerCancel, AnswerClose, States
    <2> QED BY <2>3, <2>4, <2>5, <2>6, <2>7
  <1> QED BY <1>1, <1>2, <1>3, <1>4, <1>5, <1>6, <1>7, <1>8, <1>9, <1>10, <1>11, <1>12
          DEF Moves, Proceed

(* A session that ages keeps its state.                                     *)
LEMMA AgeFacts ==
  ASSUME IInv, NEW s \in Sessions, Age(s), NEW r \in Sessions
  PROVE  /\ store'[r] = None <=> store[r] = None
         /\ store[r] # None => /\ store'[r].state = store[r].state
                               /\ store'[r].outside = store[r].outside
  <1> DEFINE m == [store[s] EXCEPT !.idle = TRUE]
  <1>1. store[s] \in Metadata /\ store[s] # None /\ store' = [store EXCEPT ![s] = m]
    BY DEF Age, IInv, TypeOK
  <1>2. m \in Metadata /\ m.state = store[s].state /\ m.outside = store[s].outside /\ m # None
    BY <1>1, AgedFacts, NoneAssumption
  <1> HIDE DEF m
  <1> QED BY <1>1, <1>2 DEF IInv, TypeOK

(* With a backend that does not report Busy of a session without a turn, a  *)
(* session that this manager's operations write under one actor key does    *)
(* not stay Busy without a turn: the sweep of cleanup_idle_sessions can     *)
(* reach it again.                                                          *)
THEOREM BusyCorrect ==
  ASSUME "Busy" \notin StatusStates
  PROVE  Spec => []NoStuckBusy
  <1>1. Init => BusyInv
    <2> SUFFICES ASSUME Init PROVE BusyInv
      OBVIOUS
    <2>1. \A s \in Sessions : store[s] # None => store[s].outside
      BY InitOutside
    <2>2. BusyCopies
      BY DEF Init, BusyCopies
    <2> QED BY <2>1, <2>2 DEF BusyInv, BusyCovered, BusyAt
  <1>2. IInv /\ IInv' /\ EnsureOutside /\ BusyInv /\ [Next]_vars => BusyInv'
    <2> SUFFICES ASSUME IInv, IInv', EnsureOutside, BusyInv, [Next]_vars PROVE BusyInv'
      OBVIOUS
    <2>1. ASSUME NEW p \in Callers, Moves(p) PROVE BusyInv'
      <3>1. Alone(p) /\ Grows
        BY <2>1, MovesAlone, MovesGrow
      <3>2. BusySafe(p)
        BY <2>1, MovesBusySafe DEF BusyInv
      <3> QED BY <3>1, <3>2, BusyKept DEF BusyInv
    <2>2. ASSUME NEW s \in Sessions, Age(s) PROVE BusyInv'
      <3>1. UNCHANGED <<traffic, pc, kind, meta, actors>>
        BY <2>2 DEF Age, local
      <3>2. \A r \in Sessions : BusyAt(r)' => BusyAt(r)
        BY <2>2, <3>1, AgeFacts DEF BusyAt, Split
      <3> QED BY <3>1, <3>2 DEF BusyInv, BusyCovered, BusyCopies, Covers, Harmless, Split
    <2>3. CASE UNCHANGED vars
      BY <2>3 DEF vars, BusyInv, BusyCovered, BusyCopies, BusyAt, Covers, Harmless, Split
    <2> QED BY <2>1, <2>2, <2>3 DEF Next, Moves
  <1>3. BusyInv => NoStuckBusy
    BY DEF BusyInv, BusyCovered, BusyAt, Covers, NoStuckBusy
  <1> QED BY <1>1, <1>2, <1>3, Inductive, OutsideMarked, PTL DEF Spec

-----------------------------------------------------------------------------
(* A draining turn is visible.  A turn that runs has its actor's lock, so   *)
(* besides the sweep only cancel and close write its session meanwhile, a   *)
(* separate ensure_session, and whoever has another key of the session.     *)

\* What a step of p may do to a stored record: remove it, mark it, write it
\* from outside or, as the holder of one of the session's keys, anything.
Writes(p) ==
    \A s \in Sessions : store'[s] # store[s] =>
        \/ store'[s] = None
        \/ store'[s].state \in {"Cancelling", "Error"}
        \/ store'[s].outside
        \/ pc[p] \notin {"wait", "run"} /\ lock[p] # None /\ lock[p] \in actors'[s]

(* Every step keeps to that.                                                *)
LEMMA MovesWrites ==
  ASSUME IInv, EnsureOutside, NEW p \in Callers, Moves(p)
  PROVE  Writes(p)
  <1>0. ASSUME NEW m \in Metadata, Upsert(m),
               \/ m.outside \/ m.state \in {"Cancelling", "Error"}
               \/ /\ pc[p] \notin {"wait", "run"} /\ lock[p] # None
                  /\ lock[p] \in actors'[m.session]
        PROVE  Writes(p)
    BY <1>0, UpsertFacts DEF Writes
  <1>g. Grows
    BY MovesGrow
  <1>m. pc[p] \in WithMeta => meta[p] \in Metadata /\ meta[p] # None
    BY CopyFacts
  <1>t. \A state \in States : meta[p] \in Metadata =>
           LET m == Touched(meta[p], state)
           IN  m \in Metadata /\ m.session = meta[p].session /\ m.state = state
    BY TouchedFacts
  <1>h. pc[p] \in {"touch", "create", "start", "finish_ok", "finish_err", "call"}
        /\ kind[p] # "ensure" => lock[p] # None
    BY CopyFacts, NoneAssumption DEF IInv, AllPlaced, Placed, Unlocked, KindAt, LockFor
  <1>u. ASSUME pc[p] \in WithMeta, lock[p] # None PROVE lock[p] \in actors'[meta[p].session]
    <2>1. lock[p] \in actors[meta[p].session] /\ meta[p].session \in Sessions
      BY <1>m, <1>u DEF IInv, AllTakenUp, Metadata
    <2> QED BY <1>g, <2>1 DEF Grows
  <1>1. CASE UNCHANGED store
    BY <1>1 DEF Writes
  <1>2. ASSUME NEW s, store' = [store EXCEPT ![s] = None] PROVE Writes(p)
    BY <1>2 DEF Writes, IInv, TypeOK
  <1>3. CASE Touch(p)
    <2>1. pc[p] = "touch" /\ Upsert(meta[p]) /\ meta[p] \in Metadata
      BY <1>3, <1>m DEF Touch, WithMeta
    <2>2. CASE kind[p] = "ensure"
      BY <1>0, <2>1, <2>2 DEF EnsureOutside
    <2>3. CASE kind[p] # "ensure"
      BY <1>0, <1>h, <1>u, <2>1, <2>3 DEF WithMeta
    <2> QED BY <2>2, <2>3
  <1>4. CASE Create(p)
    <2> DEFINE m == Made(req[p], "Ready", kind[p] # "turn")
    <2>1. pc[p] = "create" /\ ((Upsert(m) /\ TakesUp(p, m.session)) \/ UNCHANGED store)
      BY <1>4 DEF Create
    <2>2. m \in Metadata /\ m.outside = (kind[p] # "turn")
      BY <2>1, CopyFacts, MadeFacts DEF IInv, States
    <2>3. kind[p] \in {"turn", "ensure"} /\ lock[p] \in ActorKeys \cup {None}
      BY <2>1, CopyFacts DEF KindAt, IInv, TypeOK
    <2>4. m.session \in Sessions
      BY <2>2 DEF Metadata
    <2> HIDE DEF m
    <2>5. CASE kind[p] = "ensure"
      BY <1>0, <1>1, <2>1, <2>2, <2>5
    <2>6. CASE kind[p] = "turn"
      <3>1. lock[p] # None
        BY <1>h, <2>1, <2>6
      <3>2. TakesUp(p, m.session) => lock[p] \in actors'[m.session]
        BY <2>4, <3>1 DEF TakesUp, IInv, TypeOK
      <3> QED BY <1>0, <1>1, <2>1, <2>2, <3>1, <3>2
    <2> QED BY <2>3, <2>5, <2>6
  <1>5. ASSUME NEW state \in States, Upsert(Touched(meta[p], state)),
               pc[p] \in {"start", "finish_ok", "finish_err", "call"}
        PROVE  Writes(p)
    <2> DEFINE m == Touched(meta[p], state)
    <2>1. m \in Metadata /\ m.session = meta[p].session /\ Upsert(m)
      BY <1>5, <1>m, <1>t DEF WithMeta
    <2> HIDE DEF m
    <2>2. kind[p] # "ensure"
      BY <1>5, CopyFacts DEF KindAt
    <2> QED BY <1>0, <1>5, <1>h, <1>u, <2>1, <2>2 DEF WithMeta
  <1>6. ASSUME NEW state \in {"Cancelling", "Error"}, Upsert(Touched(meta[p], state)),
               pc[p] \in WithMeta
        PROVE  Writes(p)
    <2> DEFINE m == Touched(meta[p], state)
    <2>1. m \in Metadata /\ m.state = state /\ Upsert(m)
      BY <1>6, <1>m, <1>t DEF States
    <2> HIDE DEF m
    <2> QED BY <1>0, <2>1
  <1>7. CASE Start(p)
    <2>1. pc[p] = "start" /\ Upsert(Touched(meta[p], "Busy"))
      BY <1>7 DEF Start, Goto, IInv, TypeOK
    <2> QED BY <1>5, <2>1 DEF States
  <1>8. CASE Finish(p)
    <2>1. /\ pc[p] \in {"finish_ok", "finish_err"}
          /\ Upsert(Touched(meta[p], IF pc[p] = "finish_ok" THEN "Ready" ELSE "Error"))
      BY <1>8 DEF Finish
    <2> QED BY <1>5, <2>1 DEF States
  <1>9. CASE Mark(p) \/ Preempt(p)
    <2>1. CASE Mark(p)
      <3>1. pc[p] = "mark" /\ Upsert(Touched(meta[p], "Cancelling"))
        BY <2>1 DEF Mark, Goto, IInv, TypeOK
      <3> QED BY <1>6, <3>1 DEF WithMeta
    <2>2. CASE Preempt(p)
      <3>1. pc[p] = "preempt" /\ (UNCHANGED store \/ Upsert(Touched(meta[p], "Error")))
        BY <2>2 DEF Preempt
      <3> QED BY <1>1, <1>6, <3>1 DEF WithMeta
    <2> QED BY <1>9, <2>1, <2>2
  <1>10. CASE Answer(p)
    <2>1. pc[p] = "call"
      BY <1>10 DEF Answer
    <2>2. \/ UNCHANGED store
          \/ \E s : store' = [store EXCEPT ![s] = None]
          \/ \E state \in States : Upsert(Touched(meta[p], state))
          \/ Upsert([meta[p] EXCEPT !.idle = FALSE])
      BY <1>10, StatusAssumption
         DEF Answer, AnswerStatus, AnswerControl, AnswerCancel, AnswerClose, States
    <2>3. CASE Upsert([meta[p] EXCEPT !.idle = FALSE])
      <3> DEFINE m == [meta[p] EXCEPT !.idle = FALSE]
      <3>1. m \in Metadata /\ m.session = meta[p].session /\ Upsert(m)
        BY <1>m, <2>1, <2>3, AgedFacts DEF WithMeta
      <3> HIDE DEF m
      <3>2. kind[p] # "ensure"
        BY <2>1, CopyFacts DEF KindAt
      <3> QED BY <1>0, <1>h, <1>u, <2>1, <3>1, <3>2 DEF WithMeta
    <2> QED BY <1>1, <1>2, <1>5, <2>1, <2>2, <2>3
  <1>11. CASE Evict(p)
    BY <1>1, <1>2, <1>11 DEF Evict
  <1>12. CASE \/ Call(p) \/ Acquire(p) \/ List(p) \/ Pick(p) \/ Swept(p) \/ Lookup(p)
             \/ Limit(p) \/ Count(p) \/ Register(p) \/ Subscribe(p) \/ TurnEnds(p) \/ Look(p) \/ Read(p)
    <2>1. UNCHANGED store
      BY <1>12 DEF Call, Acquire, List, Pick, Swept, Lookup, Limit, Count, Register, Subscribe,
                   TurnEnds, Look, Read
    <2> QED BY <1>1, <2>1
  <1> QED BY <1>3, <1>4, <1>7, <1>8, <1>9, <1>10, <1>11, <1>12 DEF Moves, Proceed

\* Only a turn that runs has been aborted.
AbortedRuns == \A p \in Callers : aborted[p] # {} => pc[p] = "run"

(* A turn becomes aborted, or ceases to be, by these steps.                 *)
LEMMA AbortedMoves ==
  ASSUME IInv, AbortedRuns, NEW p \in Callers, Moves(p)
  PROVE  /\ AbortedRuns'
         /\ \A r \in Callers : \A s \in aborted'[r] :
               /\ r # p
               /\ \/ s \in aborted[r] /\ pc[r] = "run"
                  \/ pc'[p] = "mark" /\ meta'[p].session = s
  <1>0. /\ pc \in [Callers -> Steps] /\ aborted \in [Callers -> SUBSET Sessions] /\ Alone(p)
    BY MovesAlone DEF IInv, TypeOK
  <1>1. CASE Look(p) /\ active[ActorKey(meta[p])] # None
    <2> DEFINE turn == active[ActorKey(meta[p])]
    <2>1. /\ pc[p] = "look" /\ pc' = [pc EXCEPT ![p] = "mark"] /\ UNCHANGED meta
          /\ IF pc[turn] = "run"
             THEN aborted' = [aborted EXCEPT ![turn] = @ \cup {meta[p].session}]
             ELSE UNCHANGED aborted
      BY <1>1 DEF Look, Goto
    <2>3. pc'[p] = "mark" /\ \A r \in Callers : r # p => pc'[r] = pc[r]
      BY <1>0, <2>1
    <2> HIDE DEF turn
    <2>4. \A r \in Callers : \A s \in aborted'[r] :
             s \in aborted[r] \/ (r = turn /\ pc[turn] = "run" /\ s = meta[p].session)
      BY <1>0, <2>1
    <2>5. \A r \in Callers : \A s \in aborted'[r] : r # p /\ pc[r] = "run"
      BY <2>1, <2>4 DEF AbortedRuns
    <2> QED BY <2>1, <2>3, <2>4, <2>5 DEF AbortedRuns
  <1>2. CASE TurnEnds(p)
    <2>1. aborted' = [aborted EXCEPT ![p] = {}]
      BY <1>2 DEF TurnEnds
    <2>2. \A r \in Callers : \A s \in aborted'[r] : s \in aborted[r] /\ r # p
      BY <1>0, <2>1
    <2> QED BY <1>0, <2>2 DEF AbortedRuns, Alone
  <1>3. CASE UNCHANGED aborted /\ pc[p] # "run"
    BY <1>0, <1>3 DEF AbortedRuns, Alone
  <1>4. Moves(p) => \/ TurnEnds(p)
                    \/ Look(p) /\ active[ActorKey(meta[p])] # None
                    \/ UNCHANGED aborted /\ pc[p] # "run"
    <2>1. Call(p) => UNCHANGED aborted /\ pc[p] # "run"
      BY CallStarts
    <2>2. Acquire(p) \/ List(p) \/ Pick(p) \/ Evict(p) \/ Swept(p) =>
             UNCHANGED aborted /\ pc[p] # "run"
      BY DEF Acquire, List, Pick, Evict, Swept, Goto, turns
    <2>3. Lookup(p) \/ Limit(p) \/ Count(p) => UNCHANGED aborted /\ pc[p] # "run"
      BY DEF Lookup, Limit, Count, Goto, turns
    <2>4. Touch(p) \/ Create(p) \/ Start(p) \/ Register(p) \/ Subscribe(p) \/ Finish(p) =>
             UNCHANGED aborted /\ pc[p] # "run"
      BY DEF Touch, Create, Start, Register, Subscribe, Finish, Goto, turns
    <2>5. Look(p) /\ active[ActorKey(meta[p])] = None => UNCHANGED aborted /\ pc[p] # "run"
      BY DEF Look, Goto
    <2>6. Mark(p) \/ Preempt(p) \/ Read(p) \/ Answer(p) => UNCHANGED aborted /\ pc[p] # "run"
      BY DEF Mark, Preempt, Read, Answer, Goto, turns
    <2> QED BY <2>1, <2>2, <2>3, <2>4, <2>5, <2>6 DEF Moves, Proceed
  <1> QED BY <1>1, <1>2, <1>3, <1>4

\* The stored state of the session shows that its turn drains.
Shown(s) ==
    \/ store[s] = None
    \/ store[s].state \in {"Cancelling", "Error"}
    \/ \E q \in Callers : pc[q] = "mark" /\ meta[q].session = s
    \/ store[s].outside
    \/ Split(s)

DrainInv == AbortedRuns /\ DrainingVisible

\* A turn that is aborted stays visible as draining until it ends.
LEMMA MovesDrain ==
  ASSUME IInv, EnsureOutside, AbortedRuns, DrainingVisible, NEW p \in Callers, Moves(p),
         NEW r \in Callers, NEW s \in Sessions, s \in aborted'[r], s = meta'[r].session
  PROVE  Shown(s)'
  <1>0. Alone(p) /\ Writes(p) /\ Grows
    BY MovesAlone, MovesWrites, MovesGrow
  <1>1. CASE pc'[p] = "mark" /\ meta'[p].session = s
    BY <1>1 DEF Shown
  <1>2. CASE s \in aborted[r] /\ pc[r] = "run" /\ r # p
    <2>1. meta'[r] = meta[r] /\ Shown(s)
      BY <1>0, <1>2 DEF Alone, Shown, DrainingVisible
    <2>2. meta[r] # None /\ meta[r].session = s /\ lock[r] # None
      BY <1>2, <2>1, CopyFacts, TurnLock, NoneAssumption DEF WithMeta
    <2>3. lock[r] \in actors'[s]
      <3>1. lock[r] \in actors[s]
        BY <2>2 DEF IInv, AllTakenUp
      <3> QED BY <1>0, <3>1 DEF Grows
    <2>5. CASE store'[s] # store[s]
      <3>1. pc[p] \notin {"wait", "run"} /\ lock[p] # None => lock[p] # lock[r]
        BY <1>2 DEF IInv, LockExclusive
      <3> QED BY <1>0, <2>3, <2>5, <3>1 DEF Writes, Shown, Split
    <2>6. CASE store'[s] = store[s] /\ ~Mark(p)
      <3>1. pc[p] # "mark"
        BY <2>6, CallStarts DEF Moves, Proceed, Acquire, List, Pick, Evict, Swept, Lookup, Limit,
           Count, Touch, Create, Start, Register, Subscribe, TurnEnds, Finish, Look, Preempt, Read, Answer, Goto
      <3>2. \A q \in Callers : pc[q] = "mark" => pc'[q] = "mark" /\ meta'[q] = meta[q]
        BY <1>0, <3>1 DEF Alone
      <3> QED BY <1>0, <2>1, <2>6, <3>2 DEF Shown, Grows
    <2>7. CASE Mark(p)
      <3> DEFINE m == Touched(meta[p], "Cancelling")
      <3>1. pc[p] = "mark" /\ Upsert(m)
        BY <2>7 DEF Mark, Goto, IInv, TypeOK
      <3>2. meta[p] \in Metadata
        BY <3>1, CopyFacts DEF WithMeta
      <3>3. m \in Metadata /\ m.state = "Cancelling" /\ m.session = meta[p].session
        BY <3>2, TouchedFacts DEF States
      <3> HIDE DEF m
      <3>4. store'[s] = IF s = meta[p].session THEN m ELSE store[s]
        BY <3>1, <3>3, UpsertFacts
      <3>5. \A q \in Callers : q # p => pc'[q] = pc[q] /\ meta'[q] = meta[q]
        BY <1>0 DEF Alone
      <3>6. CASE s = meta[p].session
        BY <3>3, <3>4, <3>6 DEF Shown
      <3>7. CASE s # meta[p].session
        BY <1>0, <2>1, <3>4, <3>5, <3>7 DEF Shown, Grows
      <3> QED BY <3>6, <3>7
    <2> QED BY <2>5, <2>6, <2>7
  <1> QED BY <1>1, <1>2, AbortedMoves

(* While an aborted turn drains, status readers see it: cancel's mark is    *)
(* not overwritten before the turn ends, but by an ensure_session or under  *)
(* another actor key.                                                       *)
THEOREM DrainingCorrect == Spec => []DrainingVisible
  <1>1. Init => DrainInv
    BY DEF Init, DrainInv, AbortedRuns, DrainingVisible
  <1>2. IInv /\ EnsureOutside /\ DrainInv /\ [Next]_vars => DrainInv'
    <2> SUFFICES ASSUME IInv, EnsureOutside, DrainInv, [Next]_vars PROVE DrainInv'
      OBVIOUS
    <2>1. ASSUME NEW p \in Callers, Moves(p) PROVE DrainInv'
      <3>1. AbortedRuns'
        BY <2>1, AbortedMoves DEF DrainInv
      <3>2. DrainingVisible'
        <4> SUFFICES ASSUME NEW r \in Callers, meta'[r].session \in aborted'[r]
                     PROVE  Shown(meta[r].session)'
          BY DEF DrainingVisible, Shown
        <4>1. aborted'[r] \subseteq Sessions
          <5>1. IInv'
            BY NextSafe
          <5> QED BY <5>1 DEF IInv, TypeOK
        <4>2. PICK s \in Sessions : s = meta'[r].session
          BY <4>1
        <4>3. Shown(s)'
          BY <2>1, <4>2, MovesDrain DEF DrainInv
        <4> QED BY <4>2, <4>3 DEF Shown
      <3> QED BY <3>1, <3>2 DEF DrainInv
    <2>2. ASSUME NEW s \in Sessions, Age(s) PROVE DrainInv'
      <3>1. UNCHANGED <<traffic, pc, meta, aborted, actors>>
        BY <2>2 DEF Age, local, turns
      <3>2. \A r \in Sessions : Shown(r) => Shown(r)'
        BY <2>2, <3>1, AgeFacts DEF Shown, Split
      <3>3. DrainingVisible'
        <4> SUFFICES ASSUME NEW r \in Callers, pc'[r] = "run", meta'[r].session \in aborted'[r]
                     PROVE  Shown(meta[r].session)'
          BY DEF DrainingVisible, Shown
        <4>1. Shown(meta[r].session) /\ meta[r].session \in Sessions
          BY <3>1 DEF DrainInv, DrainingVisible, Shown, IInv, TypeOK
        <4>2. PICK t \in Sessions : t = meta[r].session /\ t = meta'[r].session
          BY <3>1, <4>1
        <4>3. Shown(t)'
          BY <3>2, <4>1, <4>2
        <4> QED BY <4>2, <4>3 DEF Shown
      <3> QED BY <3>1, <3>3 DEF DrainInv, AbortedRuns
    <2>3. CASE UNCHANGED vars
      BY <2>3 DEF vars, DrainInv, AbortedRuns, DrainingVisible, Split
    <2> QED BY <2>1, <2>2, <2>3 DEF Next, Moves
  <1>3. DrainInv => DrainingVisible
    BY DEF DrainInv
  <1> QED BY <1>1, <1>2, <1>3, Inductive, OutsideMarked, PTL DEF Spec
=============================================================================
