---------------------------- MODULE KernelProofs ----------------------------
(***************************************************************************)
(* Proofs about Kernel, for any number of callers, tokens, tasks and lines *)
(* of the journal: revocation and the generation counter, verification of  *)
(* the journal, and the trail of the tasks.                                *)
(*                                                                         *)
(* Revocation.  What a finished revocation covers (dead) is in the list  *)
(* of revoked tokens or at most at the threshold, and stays so.  An        *)
(* operation whose token was covered when it began is therefore stopped by *)
(* the first check or, failing that, by the second, and in between the     *)
(* threshold only rises.  For the counter: whoever raised the threshold    *)
(* last has not yet moved the counter, or has moved it that far.           *)
(*                                                                         *)
(* The journal.  The open sink remembers the hash of the last line, as     *)
(* long as every line can be decoded; a line changed from outside has a    *)
(* hash that is not its own, which no later step mends, since repair       *)
(* refuses it.  What repair writes is defined by recursion over the lines: *)
(* a least line at which it went wrong would contradict the one before.    *)
(*                                                                         *)
(* The trail.  A task is with at most one caller; its adapter was called   *)
(* if and only if that caller is past the checks, and it is recorded only  *)
(* as the caller leaves it.                                                *)
(***************************************************************************)
EXTENDS Kernel, FiniteSetTheorems, WellFoundedInduction, TLAPS

EventKinds ==
    {"TokenIssued", "TokenRevoked", "AuthorizationDenied", "PlaneInvoked",
     "ConnectorInvoked", "TaskDispatched"}

Entry == {Event(k, s) : k \in EventKinds, s \in Nat \cup Tasks \cup {None}}

OpKinds ==
    {"none", "issue", "revoke", "generation", "authorize", "plane", "connector", "task"}

Steps == {"idle", "forward", "revoked?", "generation?", "run", "audit"}

Operation ==
    [kind : OpKinds, token : Nat, task : Tasks \cup {None}, todo : Seq(Entry),
     ok : BOOLEAN, live : BOOLEAN, below : Nat]

Types ==
    /\ generation \in Nat /\ threshold \in Nat
    /\ issued \in [Tokens -> Nat]
    /\ dead \subseteq Tokens
    /\ pc \in [Callers -> Steps]
    /\ op \in [Callers -> Operation]

\* The counter is where the threshold is, or a revocation will bring it there.
Ordered ==
    \/ threshold <= generation
    \/ \E p \in Callers : pc[p] = "forward" /\ threshold <= op[p].below

\* A revocation under way has raised the threshold.
Raised == \A p \in Callers : pc[p] = "forward" => op[p].below <= threshold

\* What a finished revocation covers fails one of the two checks.
Covered == \A t \in dead : t \in revoked \/ issued[t] \in 1..threshold

\* Where an operation may be whose token was covered when it began.
Fits(step, o) ==
    /\ step \in {"revoked?", "generation?"} => o.token \in Tokens
    /\ step = "revoked?" /\ ~o.live => o.token \in dead
    /\ step = "generation?" /\ ~o.live => issued[o.token] \in 1..threshold
    /\ step = "run" => o.live
    /\ step = "audit" /\ o.ok /\ o.kind \notin {"issue", "revoke"} => o.live

Stopped == \A p \in Callers : Fits(pc[p], op[p])

IInv == Types /\ Ordered /\ Raised /\ Covered /\ Stopped

-----------------------------------------------------------------------------
(* Facts about operations and their events.                                 *)

\* A caller without an operation is in its type.
LEMMA NoOpType == NoOp \in Operation
  <1>1. <<>> \in Seq(Entry)
    OBVIOUS
  <1> QED BY <1>1 DEF NoOp, Operation, OpKinds

(* An operation about to record a token's event.                            *)
LEMMA TokenOperation ==
  ASSUME NEW kind \in {"issue", "revoke"}, NEW t \in Tokens, NEW event \in EventKinds
  PROVE  LET o == [NoOp EXCEPT !.kind = kind, !.token = t, !.ok = TRUE,
                               !.todo = <<Event(event, t)>>]
         IN  o \in Operation /\ o.kind = kind
  <1> DEFINE todo == <<Event(event, t)>>
             o == [NoOp EXCEPT !.kind = kind, !.token = t, !.ok = TRUE, !.todo = todo]
  <1>1. todo \in Seq(Entry)
    <2>1. Event(event, t) \in Entry
      BY KernelAssumption DEF Entry, Tokens
    <2> HIDE DEF Entry
    <2> QED BY <2>1
  <1>2. t \in Nat /\ kind \in OpKinds
    BY KernelAssumption DEF Tokens, OpKinds
  <1> HIDE DEF todo
  <1>3. o \in Operation /\ o.kind = kind
    BY <1>1, <1>2, NoOpType DEF Operation
  <1> QED BY <1>3 DEF todo

(* What an operation has still to record is a sequence of events, and       *)
(* recording one leaves such a sequence (record_plane_invocation).          *)
LEMMA TrailType ==
  ASSUME NEW o \in Operation
  PROVE  Trail(o) \in Seq(Entry)
  <1>1. /\ Event("TaskDispatched", o.task) \in Entry
        /\ Event("ConnectorInvoked", o.token) \in Entry
        /\ Event("PlaneInvoked", o.token) \in Entry
    BY DEF Entry, EventKinds, Operation
  <1> HIDE DEF Entry
  <1> QED BY <1>1 DEF Trail

(* Become changes one caller's place and operation and no other's.          *)
LEMMA BecomeFacts ==
  ASSUME Types, NEW p \in Callers, NEW step \in Steps, NEW o \in Operation,
         Become(p, step, o)
  PROVE  /\ pc' \in [Callers -> Steps] /\ op' \in [Callers -> Operation]
         /\ pc'[p] = step /\ op'[p] = o
         /\ \A q \in Callers : q # p => pc'[q] = pc[q] /\ op'[q] = op[q]
  BY DEF Become, Types

(* A caller that moves on without touching the engine keeps the invariant,  *)
(* if its new place fits.                                                   *)
LEMMA MoveKeeps ==
  ASSUME IInv, NEW p \in Callers, NEW step \in Steps, NEW o \in Operation,
         Become(p, step, o), UNCHANGED <<engine, issued, dead>>,
         pc[p] # "forward", step # "forward", Fits(step, o)
  PROVE  IInv'
  <1>1. /\ pc' \in [Callers -> Steps] /\ op' \in [Callers -> Operation]
        /\ pc'[p] = step /\ op'[p] = o
        /\ \A q \in Callers : q # p => pc'[q] = pc[q] /\ op'[q] = op[q]
    BY BecomeFacts DEF IInv
  <1>2. Types'
    BY <1>1 DEF IInv, Types, engine
  <1>3. Ordered' /\ Raised'
    BY <1>1 DEF IInv, Ordered, Raised, engine
  <1>4. Covered'
    BY DEF IInv, Covered, engine
  <1>5. Stopped'
    <2>1. \A q \in Callers : Fits(pc'[q], op'[q])
      BY <1>1 DEF IInv, Stopped
    <2> QED BY <2>1 DEF Stopped, Fits, engine
  <1> QED BY <1>2, <1>3, <1>4, <1>5 DEF IInv

-----------------------------------------------------------------------------
\* A new kernel satisfies the invariant.
LEMMA InitIInv == KernelInit => IInv
  <1> SUFFICES ASSUME KernelInit PROVE IInv
    OBVIOUS
  <1>1. Types
    BY NoOpType, KernelAssumption DEF KernelInit, Types, Tokens, Steps
  <1>2. Ordered /\ Raised /\ Covered
    BY DEF KernelInit, Ordered, Raised, Covered
  <1>3. Stopped
    BY DEF KernelInit, Stopped, Fits
  <1> QED BY <1>1, <1>2, <1>3 DEF IInv

(* issue_token: the new generation is above the counter, and no covered     *)
(* token is issued again.                                                   *)
LEMMA IssueKeeps ==
  ASSUME IInv, NEW p \in Callers, NEW t \in Tokens, Issue(p, t)
  PROVE  IInv'
  <1> DEFINE o == [NoOp EXCEPT !.kind = "issue", !.token = t, !.ok = TRUE,
                               !.todo = <<Event("TokenIssued", t)>>]
  <1>1. o \in Operation /\ o.kind = "issue"
    BY TokenOperation DEF EventKinds
  <1>2. Become(p, "audit", o) /\ pc[p] = "idle" /\ issued[t] = 0
    BY DEF Issue
  <1> HIDE DEF o
  <1>3. /\ pc' \in [Callers -> Steps] /\ op' \in [Callers -> Operation]
        /\ pc'[p] = "audit" /\ op'[p] = o
        /\ \A q \in Callers : q # p => pc'[q] = pc[q] /\ op'[q] = op[q]
    BY <1>1, <1>2, BecomeFacts DEF IInv, Steps
  <1>4. /\ generation' = generation + 1 /\ threshold' = threshold
        /\ revoked' = revoked /\ dead' = dead
        /\ issued' = [issued EXCEPT ![t] = generation + 1]
    BY DEF Issue
  <1>5. Types'
    BY <1>3, <1>4 DEF IInv, Types
  <1>6. Ordered' /\ Raised'
    BY <1>2, <1>3, <1>4 DEF IInv, Types, Ordered, Raised
  <1>7. Covered'
    BY <1>2, <1>4 DEF IInv, Types, Covered
  <1>8. Stopped'
    <2>1. ASSUME NEW q \in Callers PROVE Fits(pc[q], op[q])'
      <3>1. CASE q = p
        BY <1>1, <1>3, <3>1 DEF Fits
      <3>2. CASE q # p
        BY <1>2, <1>3, <1>4, <3>2 DEF IInv, Types, Stopped, Fits
      <3> QED BY <3>1, <3>2
    <2> QED BY <2>1 DEF Stopped
  <1> QED BY <1>5, <1>6, <1>7, <1>8 DEF IInv

(* revoke_token: what it covers is on the list.                             *)
LEMMA RevokeKeeps ==
  ASSUME IInv, NEW p \in Callers, NEW t \in Tokens, Revoke(p, t)
  PROVE  IInv'
  <1> DEFINE o == [NoOp EXCEPT !.kind = "revoke", !.token = t, !.ok = TRUE,
                               !.todo = <<Event("TokenRevoked", t)>>]
  <1>1. o \in Operation /\ o.kind = "revoke"
    BY TokenOperation DEF EventKinds
  <1>2. Become(p, "audit", o) /\ pc[p] = "idle"
    BY DEF Revoke
  <1> HIDE DEF o
  <1>3. /\ pc' \in [Callers -> Steps] /\ op' \in [Callers -> Operation]
        /\ pc'[p] = "audit" /\ op'[p] = o
        /\ \A q \in Callers : q # p => pc'[q] = pc[q] /\ op'[q] = op[q]
    BY <1>1, <1>2, BecomeFacts DEF IInv, Steps
  <1>4. /\ UNCHANGED <<generation, threshold, issued>>
        /\ revoked' = revoked \cup {t} /\ dead' = dead \cup {t}
    BY DEF Revoke
  <1>5. Types'
    BY <1>3, <1>4 DEF IInv, Types
  <1>6. Ordered' /\ Raised'
    BY <1>2, <1>3, <1>4 DEF IInv, Types, Ordered, Raised
  <1>7. Covered'
    BY <1>4 DEF IInv, Covered
  <1>8. Stopped'
    <2>1. ASSUME NEW q \in Callers PROVE Fits(pc[q], op[q])'
      <3>1. CASE q = p
        BY <1>1, <1>3, <3>1 DEF Fits
      <3>2. CASE q # p
        BY <1>3, <1>4, <3>2 DEF IInv, Stopped, Fits
      <3> QED BY <3>1, <3>2
    <2> QED BY <2>1 DEF Stopped
  <1> QED BY <1>5, <1>6, <1>7, <1>8 DEF IInv

(* revoke_generation, first half: the threshold rises, if at all, to what   *)
(* this caller will move the counter to.                                    *)
LEMMA RevokeGenerationKeeps ==
  ASSUME IInv, NEW p \in Callers, NEW below \in Belows, RevokeGeneration(p, below)
  PROVE  IInv'
  <1> DEFINE o == [NoOp EXCEPT !.kind = "generation", !.below = below]
  <1>1. o \in Operation /\ o.below = below /\ below \in Nat
    BY NoOpType, KernelAssumption DEF NoOp, Operation, OpKinds
  <1>2. Become(p, "forward", o) /\ pc[p] = "idle"
    BY DEF RevokeGeneration
  <1> HIDE DEF o
  <1>3. /\ pc' \in [Callers -> Steps] /\ op' \in [Callers -> Operation]
        /\ pc'[p] = "forward" /\ op'[p] = o
        /\ \A q \in Callers : q # p => pc'[q] = pc[q] /\ op'[q] = op[q]
    BY <1>1, <1>2, BecomeFacts DEF IInv, Steps
  <1>4. /\ UNCHANGED <<generation, revoked, issued, dead>>
        /\ threshold' \in Nat /\ threshold <= threshold' /\ below <= threshold'
        /\ threshold' = threshold \/ threshold' = below
    BY <1>1 DEF RevokeGeneration, Larger, tokens, IInv, Types
  <1>5. Types'
    BY <1>3, <1>4 DEF IInv, Types
  <1>6. Ordered'
    BY <1>1, <1>2, <1>3, <1>4 DEF IInv, Types, Ordered
  <1>7. Raised'
    BY <1>1, <1>2, <1>3, <1>4 DEF IInv, Types, Raised, Operation
  <1>8. Covered'
    BY <1>4 DEF IInv, Types, Covered
  <1>9. Stopped'
    <2>1. ASSUME NEW q \in Callers PROVE Fits(pc[q], op[q])'
      <3>1. CASE q = p
        BY <1>3, <3>1 DEF Fits
      <3>2. CASE q # p
        BY <1>3, <1>4, <3>2 DEF IInv, Types, Stopped, Fits
      <3> QED BY <3>1, <3>2
    <2> QED BY <2>1 DEF Stopped
  <1> QED BY <1>5, <1>6, <1>7, <1>8, <1>9 DEF IInv

(* revoke_generation, second half: the counter catches up, and what was     *)
(* issued up to there is covered.                                           *)
LEMMA ForwardKeeps ==
  ASSUME IInv, NEW p \in Callers, Forward(p)
  PROVE  IInv'
  <1>1. Become(p, "idle", NoOp) /\ pc[p] = "forward" /\ op[p].below <= threshold
    BY DEF Forward, IInv, Raised
  <1>2. /\ pc' \in [Callers -> Steps] /\ op' \in [Callers -> Operation]
        /\ pc'[p] = "idle"
        /\ \A q \in Callers : q # p => pc'[q] = pc[q] /\ op'[q] = op[q]
    BY <1>1, NoOpType, BecomeFacts DEF IInv, Steps
  <1>3. op[p].below \in Nat
    BY DEF IInv, Types, Operation
  <1>4. /\ UNCHANGED <<threshold, revoked, issued>>
        /\ generation' \in Nat /\ generation <= generation' /\ op[p].below <= generation'
        /\ dead' = dead \cup {t \in Tokens : issued[t] \in 1..op[p].below}
    BY <1>3 DEF Forward, Larger, IInv, Types
  <1>5. Types'
    BY <1>2, <1>4 DEF IInv, Types
  <1>6. Ordered'
    BY <1>2, <1>3, <1>4 DEF IInv, Types, Ordered
  <1>7. Raised'
    BY <1>2, <1>4 DEF IInv, Raised
  <1>8. Covered'
    BY <1>1, <1>3, <1>4 DEF IInv, Types, Covered
  <1>9. Stopped'
    <2>1. ASSUME NEW q \in Callers PROVE Fits(pc[q], op[q])'
      <3>1. CASE q = p
        BY <1>2, <3>1 DEF Fits
      <3>2. CASE q # p
        BY <1>2, <1>4, <3>2 DEF IInv, Stopped, Fits
      <3> QED BY <3>1, <3>2
    <2> QED BY <2>1 DEF Stopped
  <1> QED BY <1>5, <1>6, <1>7, <1>8, <1>9 DEF IInv

(* authorize_pack_operation and TaskSupervisor::execute: whether the token  *)
(* is covered is noted as the operation begins.                             *)
LEMMA BeginKeeps ==
  ASSUME IInv, NEW p \in Callers, NEW t \in Tokens, NEW o \in Operation,
         o.token = t, o.live = (t \notin dead),
         pc[p] = "idle", UNCHANGED <<engine, tokens>>, Become(p, "revoked?", o)
  PROVE  IInv'
  <1>1. Fits("revoked?", o)
    BY DEF Fits
  <1>2. UNCHANGED <<engine, issued, dead>> /\ "revoked?" \in Steps
    BY DEF tokens, Steps
  <1> QED BY <1>1, <1>2, MoveKeeps

(* authorize_or_audit_denial: a denied operation will not return Ok.        *)
LEMMA DenyKeeps ==
  ASSUME IInv, NEW p \in Callers, pc[p] # "forward", Deny(p),
         UNCHANGED <<engine, issued, dead>>
  PROVE  IInv'
  <1> DEFINE todo == <<Event("AuthorizationDenied", op[p].token)>>
             o == [op[p] EXCEPT !.todo = todo, !.ok = FALSE]
  <1>1. op[p] \in Operation
    BY DEF IInv, Types
  <1>2. todo \in Seq(Entry)
    <2>1. Event("AuthorizationDenied", op[p].token) \in Entry
      BY <1>1 DEF Operation, Entry, EventKinds
    <2> HIDE DEF Entry
    <2> QED BY <2>1
  <1>3. o \in Operation /\ ~o.ok
    <2> HIDE DEF todo
    <2> QED BY <1>1, <1>2 DEF Operation
  <1>4. Become(p, "audit", o)
    BY DEF Deny
  <1> HIDE DEF o
  <1>5. Fits("audit", o) /\ "audit" \in Steps
    BY <1>3 DEF Fits, Steps
  <1> QED BY <1>3, <1>4, <1>5, MoveKeeps

(* The first check of authorize: a covered token that passes it is at or    *)
(* below the threshold.                                                     *)
LEMMA CheckTokenKeeps ==
  ASSUME IInv, NEW p \in Callers, CheckToken(p)
  PROVE  IInv'
  <1>1. pc[p] = "revoked?" /\ UNCHANGED <<engine, issued, dead>>
    BY DEF CheckToken, tokens
  <1>2. CASE op[p].token \in revoked
    BY <1>1, <1>2, DenyKeeps DEF CheckToken
  <1>3. CASE op[p].token \notin revoked
    <2>1. op[p] \in Operation /\ Fits("revoked?", op[p]) /\ "generation?" \in Steps
      BY <1>1 DEF IInv, Types, Stopped, Steps
    <2>2. Fits("generation?", op[p])
      BY <1>3, <2>1 DEF Fits, IInv, Covered
    <2> QED BY <1>1, <1>3, <2>1, <2>2, MoveKeeps DEF CheckToken
  <1> QED BY <1>2, <1>3

(* An operation that goes on to record its events with Ok in hand.          *)
LEMMA RecordKeeps ==
  ASSUME IInv, NEW p \in Callers, pc[p] # "forward", op[p].live,
         UNCHANGED <<engine, issued, dead>>,
         Become(p, "audit", [op[p] EXCEPT !.todo = Trail(op[p]), !.ok = TRUE])
  PROVE  IInv'
  <1> DEFINE todo == Trail(op[p])
             o == [op[p] EXCEPT !.todo = todo, !.ok = TRUE]
  <1>1. op[p] \in Operation
    BY DEF IInv, Types
  <1>2. todo \in Seq(Entry)
    BY <1>1, TrailType
  <1>3. o \in Operation /\ o.live
    <2> HIDE DEF todo
    <2> QED BY <1>1, <1>2 DEF Operation
  <1>4. Become(p, "audit", o)
    OBVIOUS
  <1> HIDE DEF o
  <1>5. Fits("audit", o) /\ "audit" \in Steps
    BY <1>3 DEF Fits, Steps
  <1> QED BY <1>3, <1>4, <1>5, MoveKeeps

(* An operation that returns, or whose future is dropped.                   *)
LEMMA ReturnKeeps ==
  ASSUME IInv, NEW p \in Callers, pc[p] # "forward", Become(p, "idle", NoOp),
         UNCHANGED <<engine, issued, dead>>
  PROVE  IInv'
  <1>1. Fits("idle", NoOp) /\ "idle" \in Steps
    BY DEF Fits, Steps
  <1> QED BY <1>1, NoOpType, MoveKeeps

(* The second check: a token above the threshold was not covered.           *)
LEMMA CheckGenerationKeeps ==
  ASSUME IInv, NEW p \in Callers, CheckGeneration(p)
  PROVE  IInv'
  <1>1. pc[p] = "generation?" /\ UNCHANGED <<engine, issued, dead>>
    BY DEF CheckGeneration, tokens
  <1>2. CASE Deny(p)
    BY <1>1, <1>2, DenyKeeps
  <1>3. CASE issued[op[p].token] > threshold
    <2>1. op[p] \in Operation /\ Fits("generation?", op[p])
      BY <1>1 DEF IInv, Types, Stopped
    <2>2. op[p].live
      BY <1>3, <2>1 DEF Fits, IInv, Types
    <2>3. CASE Become(p, "run", op[p])
      <3>1. Fits("run", op[p]) /\ "run" \in Steps
        BY <2>2 DEF Fits, Steps
      <3> QED BY <1>1, <2>1, <2>3, <3>1, MoveKeeps
    <2>4. CASE Become(p, "audit", [op[p] EXCEPT !.todo = Trail(op[p]), !.ok = TRUE])
      BY <1>1, <2>2, <2>4, RecordKeeps
    <2>5. Deny(p) \/ Become(p, "run", op[p])
          \/ Become(p, "audit", [op[p] EXCEPT !.todo = Trail(op[p]), !.ok = TRUE])
      BY Zenon DEF CheckGeneration
    <2> QED BY <1>2, <2>3, <2>4, <2>5
  <1>4. Deny(p) \/ issued[op[p].token] > threshold
    BY Zenon DEF CheckGeneration
  <1> QED BY <1>2, <1>3, <1>4

(* The adapter's answer: what ran was live.                                 *)
LEMMA AnswerKeeps ==
  ASSUME IInv, NEW p \in Callers, Answer(p)
  PROVE  IInv'
  <1>1. pc[p] = "run" /\ UNCHANGED <<engine, issued, dead>>
    BY DEF Answer
  <1>2. op[p].live
    BY <1>1 DEF IInv, Stopped, Fits
  <1>3. CASE Become(p, "audit", [op[p] EXCEPT !.todo = Trail(op[p]), !.ok = TRUE])
    BY <1>1, <1>2, <1>3, RecordKeeps
  <1>4. CASE Finish(p, FALSE)
    BY <1>1, <1>4, ReturnKeeps DEF Finish
  <1>5. Become(p, "audit", [op[p] EXCEPT !.todo = Trail(op[p]), !.ok = TRUE])
        \/ Finish(p, FALSE)
    BY Zenon DEF Answer
  <1> QED BY <1>3, <1>4, <1>5

(* Recording an event, or failing to: the operation goes on with the rest   *)
(* of its events or returns.                                                *)
LEMMA AuditKeeps ==
  ASSUME IInv, NEW p \in Callers, Audit(p)
  PROVE  IInv'
  <1>1. pc[p] = "audit" /\ UNCHANGED <<engine, issued, dead>>
    BY DEF Audit
  <1>2. CASE /\ Len(op[p].todo) > 1
             /\ Become(p, "audit", [op[p] EXCEPT !.todo = Tail(op[p].todo)])
    <2> DEFINE todo == Tail(op[p].todo)
               o == [op[p] EXCEPT !.todo = todo]
    <2>1. op[p] \in Operation /\ Fits("audit", op[p])
      BY <1>1 DEF IInv, Types, Stopped
    <2>2. op[p].todo \in Seq(Entry)
      BY <2>1 DEF Operation
    <2>3. todo \in Seq(Entry)
      <3> HIDE DEF Entry
      <3> QED BY <1>2, <2>2
    <2>4. /\ o \in Operation
          /\ o.ok = op[p].ok /\ o.kind = op[p].kind /\ o.live = op[p].live
      <3> HIDE DEF todo
      <3> QED BY <2>1, <2>3 DEF Operation
    <2>5. Become(p, "audit", o)
      BY <1>2
    <2> HIDE DEF o
    <2>6. Fits("audit", o) /\ "audit" \in Steps
      BY <2>1, <2>4 DEF Fits, Steps
    <2> QED BY <1>1, <2>4, <2>5, <2>6, MoveKeeps
  <1>3. ASSUME NEW ok, Finish(p, ok) PROVE IInv'
    BY <1>1, <1>3, ReturnKeeps DEF Finish
  <1>4. \/ /\ Len(op[p].todo) > 1
           /\ Become(p, "audit", [op[p] EXCEPT !.todo = Tail(op[p].todo)])
        \/ Finish(p, op[p].ok)
        \/ Finish(p, FALSE)
    BY Zenon DEF Audit
  <1> QED BY <1>2, <1>3, <1>4

(* The process ends: what it revoked is gone with what it issued.           *)
LEMMA HaltKeeps == ASSUME Halt PROVE IInv'
  <1>1. Types'
    BY NoOpType, KernelAssumption DEF Halt, Types, Tokens, Steps
  <1>2. Ordered' /\ Raised' /\ Covered'
    BY DEF Halt, Ordered, Raised, Covered
  <1>3. Stopped'
    BY DEF Halt, Stopped, Fits
  <1> QED BY <1>1, <1>2, <1>3 DEF IInv

(* Whatever happens to the journal alone.                                   *)
LEMMA ElsewhereKeeps == ASSUME IInv, UNCHANGED kernelVars PROVE IInv'
  <1>1. UNCHANGED <<generation, threshold, revoked, issued, dead, pc, op>>
    BY DEF kernelVars, engine, tokens
  <1>2. Types' /\ Ordered' /\ Raised' /\ Covered' /\ Stopped'
    BY <1>1 DEF IInv, Types, Ordered, Raised, Covered, Stopped, Fits
  <1> QED BY <1>2 DEF IInv

-----------------------------------------------------------------------------
(* One step of one caller.                                                  *)
LEMMA CallerKeeps ==
  ASSUME IInv, NEW p \in Callers,
         \/ \E t \in Tokens : Issue(p, t) \/ Revoke(p, t)
         \/ \E below \in Belows : RevokeGeneration(p, below)
         \/ \E t \in Tokens :
               AuthorizeOperation(p, t) \/ ExecutePlane(p, t) \/ ExecuteConnector(p, t)
         \/ \E t \in Tokens, k \in Tasks : Supervise(p, t, k)
         \/ Proceed(p)
         \/ Abandon(p)
  PROVE  IInv'
  <1>1. ASSUME NEW t \in Tokens, Issue(p, t) \/ Revoke(p, t) PROVE IInv'
    BY <1>1, IssueKeeps, RevokeKeeps
  <1>2. ASSUME NEW below \in Belows, RevokeGeneration(p, below) PROVE IInv'
    BY <1>2, RevokeGenerationKeeps
  <1>3. ASSUME NEW kind \in {"authorize", "plane", "connector"}, NEW t \in Tokens,
               Request(p, kind, t)
        PROVE  IInv'
    <2> DEFINE live == t \notin dead
               o == [NoOp EXCEPT !.kind = kind, !.token = t, !.live = live]
    <2>1. live \in BOOLEAN /\ t \in Nat /\ kind \in OpKinds
      BY KernelAssumption DEF Tokens, OpKinds
    <2>2. o \in Operation /\ o.token = t /\ o.live = live
      <3> HIDE DEF live
      <3> QED BY <2>1, NoOpType DEF Operation
    <2>3. pc[p] = "idle" /\ UNCHANGED <<engine, tokens>> /\ Become(p, "revoked?", o)
      BY <1>3, Zenon DEF Request
    <2> HIDE DEF o
    <2> QED BY <2>2, <2>3, BeginKeeps
  <1>4. ASSUME NEW t \in Tokens, NEW k \in Tasks, Supervise(p, t, k) PROVE IInv'
    <2> DEFINE live == t \notin dead
               o == [NoOp EXCEPT !.kind = "task", !.token = t, !.task = k, !.live = live]
    <2>1. live \in BOOLEAN /\ t \in Nat
      BY KernelAssumption DEF Tokens
    <2>2. o \in Operation /\ o.token = t /\ o.live = live
      <3> HIDE DEF live
      <3> QED BY <2>1, NoOpType DEF Operation, OpKinds
    <2>3. pc[p] = "idle" /\ UNCHANGED <<engine, tokens>> /\ Become(p, "revoked?", o)
      BY <1>4, Zenon DEF Supervise
    <2> HIDE DEF o
    <2> QED BY <2>2, <2>3, BeginKeeps
  <1>5. CASE Proceed(p)
    <2>1. CASE Refuse(p)
      BY <2>1, ReturnKeeps DEF Refuse, Finish
    <2> QED BY <1>5, <2>1, ForwardKeeps, CheckTokenKeeps, CheckGenerationKeeps, AnswerKeeps,
               AuditKeeps DEF Proceed
  <1>6. CASE Abandon(p)
    BY <1>6, ReturnKeeps DEF Abandon, tokens
  <1>7. ASSUME NEW t \in Tokens,
               AuthorizeOperation(p, t) \/ ExecutePlane(p, t) \/ ExecuteConnector(p, t)
        PROVE  IInv'
    BY <1>3, <1>7 DEF AuthorizeOperation, ExecutePlane, ExecuteConnector
  <1> QED BY <1>1, <1>2, <1>4, <1>5, <1>6, <1>7

\* Every step keeps the invariant.
LEMMA StepIInv == IInv /\ [Next]_vars => IInv'
  <1> SUFFICES ASSUME IInv, [Next]_vars PROVE IInv'
    OBVIOUS
  <1>1. CASE UNCHANGED vars
    BY <1>1, ElsewhereKeeps DEF vars
  <1>2. CASE Boot \/ RepairJournal \/ \E i \in 1..Len(journal) : DamageJournal(i)
    BY <1>2, ElsewhereKeeps DEF Boot, RepairJournal, DamageJournal
  <1>3. CASE Halt
    BY <1>3, HaltKeeps
  <1> QED BY <1>1, <1>2, <1>3, CallerKeeps, Zenon DEF Next

\* The invariant holds throughout.
LEMMA AlwaysIInv == Spec => []IInv
  BY InitIInv, StepIInv, PTL DEF Spec

(* Revocation is final.  For any number of callers, tokens and tasks, and   *)
(* any arguments of revoke_generation: an operation that begins after a     *)
(* revocation of its token is done reaches no adapter and is not recorded   *)
(* as authorized, although StaticPolicyEngine::authorize reads the list and *)
(* the threshold at different times.                                        *)
THEOREM RevocationCorrect == Spec => []RevokedNeverRuns
  <1>1. IInv => RevokedNeverRuns
    BY DEF IInv, Stopped, Fits, RevokedNeverRuns, Authorized
  <1> QED BY <1>1, AlwaysIInv, PTL

(* revoke_generation leaves the counter at or above the threshold, however  *)
(* many of its calls and of issue_token's overlap.                          *)
THEOREM CounterCorrect == Spec => []NextTokenValid
  <1>1. IInv => NextTokenValid
    BY DEF IInv, Ordered, NextTokenValid
  <1> QED BY <1>1, AlwaysIInv, PTL

-----------------------------------------------------------------------------
\* The journal.

\* A nonempty set of naturals has a least element.
Below == {ss \in Nat \X Nat : ss[1] < ss[2]}

\* Every nonempty set of naturals has a least member.
LEMMA LeastNatural ==
    ASSUME NEW S, S \subseteq Nat, S # {}
    PROVE  \E x \in S : \A y \in S : x <= y
  <1>1. IsWellFoundedOn(Below, Nat)
    BY NatLessThanWellFounded, Zenon DEF OpToRel, Below
  <1>2. PICK x \in S : \A y \in S : ~ (<<y, x>> \in Below)
    BY <1>1, WFMin
  <1>3. ASSUME NEW y \in S PROVE x <= y
    <2>1. x \in Nat /\ y \in Nat
      BY <1>3, <1>2
    <2>2. ~(y < x)
      BY <1>2, <2>1 DEF Below
    <2> QED BY <2>1, <2>2
  <1> QED BY <1>2, <1>3

\* The chain that repair builds over the first m lines.
Resealed(j, m, f) ==
    f = [i \in 1..m |-> Sealed(j[i].event, IF i = 1 THEN None ELSE f[i - 1].hash)]

\* It exists for every number of lines: the least number without one would be
\* one more than a number with one.
LEMMA ResealedExists ==
    ASSUME NEW j, NEW n \in Nat
    PROVE  \E f : Resealed(j, n, f)
  <1> DEFINE Bad == {m \in Nat : ~ \E f : Resealed(j, m, f)}
  <1>1. SUFFICES ASSUME Bad # {} PROVE FALSE
    OBVIOUS
  <1>2. PICK m \in Bad : \A y \in Bad : m <= y
    <2>1. Bad \subseteq Nat
      OBVIOUS
    <2> HIDE DEF Bad
    <2> QED BY <1>1, <2>1, LeastNatural
  <1>3. m # 0
    <2> DEFINE f == [i \in 1..0 |-> None]
    <2>1. Resealed(j, 0, f)
      BY DEF Resealed
    <2> QED BY <1>2, <2>1
  <1>4. PICK f : Resealed(j, m - 1, f)
    <2>1. m - 1 \in Nat /\ ~(m <= m - 1)
      BY <1>2, <1>3
    <2> QED BY <1>2, <2>1
  <1> DEFINE g == [i \in 1..m |-> IF i = m
                     THEN Sealed(j[m].event, IF m = 1 THEN None ELSE f[m - 1].hash)
                     ELSE f[i]]
  <1>5. ASSUME NEW i \in 1..m
        PROVE  g[i] = Sealed(j[i].event, IF i = 1 THEN None ELSE g[i - 1].hash)
    <2>1. i # 1 => i - 1 \in 1..m /\ i - 1 # m
      BY <1>2
    <2>2. i # 1 => g[i - 1] = f[i - 1]
      BY <2>1
    <2>3. CASE i = m
      BY <2>2, <2>3
    <2>4. CASE i # m
      <3>1. i \in 1..(m - 1)
        BY <1>2, <2>4
      <3>2. f[i] = Sealed(j[i].event, IF i = 1 THEN None ELSE f[i - 1].hash)
        BY <1>4, <3>1 DEF Resealed
      <3> QED BY <2>2, <2>4, <3>2
    <2> QED BY <2>3, <2>4
  <1>6. Resealed(j, m, g)
    <2>1. g = [i \in 1..m |-> g[i]]
      OBVIOUS
    <2> HIDE DEF g
    <2> QED BY <1>5, <2>1 DEF Resealed
  <1> QED BY <1>2, <1>6

\* What repair_jsonl_audit_journal writes is that chain over all lines.
LEMMA RepairedIs ==
    ASSUME NEW j, Len(j) \in Nat
    PROVE  Resealed(j, Len(j), Repaired(j))
  <1> DEFINE r == CHOOSE f : Resealed(j, Len(j), f)
  <1>1. Resealed(j, Len(j), r)
    BY ResealedExists
  <1>2. Repaired(j) = [i \in 1..Len(j) |-> r[i]]
    BY DEF Repaired, Resealed
  <1>3. r = [i \in 1..Len(j) |-> r[i]]
    <2> HIDE DEF r
    <2> QED BY <1>1 DEF Resealed
  <1> QED BY <1>1, <1>2, <1>3

\* Sequences of anything.
IsSeq(s) == \E S : s \in Seq(S)

\* The length and the domain of a sequence.
LEMMA SeqFacts ==
    ASSUME NEW s, IsSeq(s)
    PROVE  Len(s) \in Nat /\ DOMAIN s = 1..Len(s) /\ (s = <<>> <=> Len(s) = 0)
  <1>1. PICK S : s \in Seq(S)
    BY DEF IsSeq
  <1> QED BY <1>1

\* A sequence with one more element.
LEMMA AppendFacts ==
    ASSUME NEW s, IsSeq(s), NEW e
    PROVE  /\ IsSeq(Append(s, e))
           /\ Len(s) \in Nat /\ Len(Append(s, e)) = Len(s) + 1
           /\ Append(s, e)[Len(s) + 1] = e
           /\ \A i \in 1..Len(s) : Append(s, e)[i] = s[i]
           /\ \A i \in 1..(Len(s) + 1) : i \in 1..Len(s) \/ i = Len(s) + 1
  <1>1. PICK S : s \in Seq(S)
    BY DEF IsSeq
  <1>2. s \in Seq(S \cup {e}) /\ e \in S \cup {e}
    BY <1>1
  <1>3. Append(s, e) \in Seq(S \cup {e})
    BY <1>2
  <1>4. /\ Len(s) \in Nat /\ Len(Append(s, e)) = Len(s) + 1
        /\ Append(s, e)[Len(s) + 1] = e
        /\ \A i \in 1..Len(s) : Append(s, e)[i] = s[i]
    BY <1>2
  <1> QED BY <1>3, <1>4 DEF IsSeq

\* t is s with another element at i.
Changed(s, t, i, e) ==
    /\ IsSeq(t) /\ Len(t) = Len(s) /\ t[i] = e
    /\ \A k \in 1..Len(s) : k # i => t[k] = s[k]

\* A sequence with one element changed.
LEMMA ExceptFacts ==
    ASSUME NEW s, IsSeq(s), NEW i \in 1..Len(s), NEW e, NEW t, t = [s EXCEPT ![i] = e]
    PROVE  Changed(s, t, i, e)
  <1>1. PICK S : s \in Seq(S)
    BY DEF IsSeq
  <1>2. s \in Seq(S \cup {e}) /\ e \in S \cup {e}
    BY <1>1
  <1>3. t \in Seq(S \cup {e}) /\ Len(t) = Len(s)
    BY <1>2
  <1>4. t[i] = e /\ \A k \in 1..Len(s) : k # i => t[k] = s[k]
    BY <1>2
  <1> QED BY <1>3, <1>4 DEF IsSeq, Changed

\* The lines a journal has: cut or garbled by a failed write, left by an older
\* release, or sealed.
Line(l) ==
    \/ l \in {Cut, Garbled, Unsealed(Legacy)}
    \/ \E e, p, h : l = [event |-> e, sealed |-> TRUE, prev |-> p, hash |-> h]

\* A sealed line whose hash is not that of its contents.
Forged(l) == l.sealed /\ l.hash # Hash(l.event, l.prev)

LinesTrue ==
    \A i \in 1..Len(journal) : Line(journal[i]) /\ journal[i].event = written[i]

\* The one open sink remembers the hash the next line has to continue, unless
\* it has written a line and returned an error.
ChainContinues ==
    Intact /\ ~damaged /\ ~forked =>
        /\ ChainHolds(journal)
        /\ Up /\ Self \notin stray => last[Self] = TailHash(journal)

\* Only a change from outside leaves such a line, and it stays.
ForgeryStays == damaged <=> \E i \in 1..Len(journal) : Forged(journal[i])

JournalInv ==
    /\ IsSeq(journal) /\ IsSeq(written) /\ Len(journal) = Len(written)
    /\ DOMAIN last = Sinks
    /\ open \subseteq {Self}
    /\ damaged \in BOOLEAN
    /\ LinesTrue
    /\ ChainContinues
    /\ ForgeryStays

\* What event_with_integrity makes of an event.
IsSealed(l, e, p) ==
    /\ l.event = e /\ l.sealed = TRUE
    /\ l.prev = p /\ l.hash = Hash(e, p)
    /\ Decodes(l) /\ Line(l) /\ ~Forged(l)

\* What event_with_integrity makes of an event is sealed.
LEMMA SealedFacts == \A e, p : IsSealed(Sealed(e, p), e, p)
  <1> SUFFICES ASSUME NEW e, NEW p PROVE IsSealed(Sealed(e, p), e, p)
    OBVIOUS
  <1>1. /\ Sealed(e, p).event = e /\ Sealed(e, p).sealed = TRUE
        /\ Sealed(e, p).prev = p /\ Sealed(e, p).hash = Hash(e, p)
    BY DEF Sealed
  <1>2. Cut.sealed = FALSE /\ Garbled.sealed = FALSE
    BY DEF Cut, Garbled
  <1>3. Decodes(Sealed(e, p))
    BY <1>1, <1>2 DEF Decodes
  <1>4. Line(Sealed(e, p))
    BY DEF Line, Sealed
  <1> QED BY <1>1, <1>3, <1>4 DEF Forged, IsSealed

\* What is left of a line that is not sealed.
LEMMA CutFacts ==
    /\ Cut.sealed = FALSE /\ Cut.event = None /\ ~Decodes(Cut)
    /\ Garbled.sealed = FALSE /\ Garbled.event = None /\ ~Decodes(Garbled)
    /\ Unsealed(Legacy).sealed = FALSE /\ Unsealed(Legacy).event = Legacy
  BY DEF Cut, Garbled, Unsealed, Decodes

\* A line sealed with the hash of the last one continues the chain.
LEMMA ChainAppend ==
    ASSUME NEW j, IsSeq(j), ChainHolds(j), NEW e
    PROVE  ChainHolds(Append(j, Sealed(e, TailHash(j))))
  <1>1. PICK l : l = Sealed(e, TailHash(j))
    OBVIOUS
  <1>2. /\ l.sealed = TRUE /\ l.prev = TailHash(j) /\ l.event = e
        /\ l.hash = Hash(l.event, l.prev) /\ Decodes(l)
    <2>1. IsSealed(l, e, TailHash(j))
      BY <1>1, SealedFacts
    <2> QED BY <2>1 DEF IsSealed
  <1>3. PICK t : t = Append(j, l)
    OBVIOUS
  <1>4. PICK n \in Nat : n = Len(j)
    BY SeqFacts
  <1>5. /\ Len(t) = n + 1 /\ t[n + 1] = l
        /\ \A i \in 1..n : t[i] = j[i]
        /\ \A i \in 1..(n + 1) : i \in 1..n \/ i = n + 1
    BY <1>3, <1>4, AppendFacts
  <1>6. ASSUME NEW i \in 1..(n + 1)
        PROVE  /\ Decodes(t[i])
               /\ t[i].sealed => /\ t[i].prev = PreviousHash(t, i)
                                 /\ t[i].hash = Hash(t[i].event, t[i].prev)
               /\ ~t[i].sealed => \A k \in 1..i : ~t[k].sealed
    <2>1. CASE i \in 1..n
      <3>1. t[i] = j[i]
        BY <1>5, <2>1
      <3>2. PreviousHash(t, i) = PreviousHash(j, i)
        <4>1. i # 1 => i - 1 \in 1..n
          BY <2>1
        <4> QED BY <1>5, <4>1 DEF PreviousHash
      <3>3. \A k \in 1..i : k \in 1..n /\ t[k] = j[k]
        BY <1>5, <2>1
      <3> QED BY <1>4, <2>1, <3>1, <3>2, <3>3 DEF ChainHolds
    <2>2. CASE i = n + 1
      <3>1. t[i] = l
        BY <1>5, <2>2
      <3>2. PreviousHash(t, i) = TailHash(j)
        <4>1. CASE n = 0
          <5>1. j = <<>>
            BY <1>4, <4>1, SeqFacts, Zenon
          <5>2. i = 1
            BY <2>2, <4>1
          <5> QED BY <5>1, <5>2 DEF PreviousHash, TailHash
        <4>2. CASE n # 0
          <5>1. i # 1 /\ i - 1 = n /\ n \in 1..n
            BY <2>2, <4>2
          <5>2. t[n] = j[n] /\ j # <<>>
            BY <1>4, <1>5, <4>2, <5>1, SeqFacts
          <5> QED BY <1>4, <5>1, <5>2 DEF PreviousHash, TailHash
        <4> QED BY <4>1, <4>2
      <3> QED BY <1>2, <3>1, <3>2
    <2> QED BY <1>5, <2>1, <2>2
  <1>7. ChainHolds(t)
    BY <1>5, <1>6 DEF ChainHolds
  <1> QED BY <1>1, <1>3, <1>7

\* Repair keeps what the lines say and leaves a whole chain of sealed lines.
LEMMA RepairedFacts ==
    ASSUME NEW j, IsSeq(j)
    PROVE  /\ IsSeq(Repaired(j)) /\ Len(Repaired(j)) = Len(j)
           /\ \A i \in 1..Len(j) : /\ Line(Repaired(j)[i]) /\ ~Forged(Repaired(j)[i])
                                   /\ Repaired(j)[i].event = j[i].event
           /\ ChainHolds(Repaired(j))
  <1>1. PICK n \in Nat : n = Len(j)
    BY SeqFacts
  <1>2. PICK r : r = Repaired(j)
    OBVIOUS
  <1>3. r = [i \in 1..n |-> Sealed(j[i].event, IF i = 1 THEN None ELSE r[i - 1].hash)]
    BY <1>1, <1>2, RepairedIs DEF Resealed
  <1>4. PICK S : \A i \in 1..n : r[i] \in S
    <2>1. \A i \in 1..n : r[i] \in {r[k] : k \in 1..n}
      OBVIOUS
    <2> QED BY <2>1
  <1>5. r \in Seq(S) /\ Len(r) = n
    <2>1. r \in [1..n -> S]
      BY <1>3, <1>4
    <2> QED BY <2>1
  <1>6. \A i \in 1..n : r[i] = Sealed(j[i].event, PreviousHash(r, i))
    BY <1>3 DEF PreviousHash
  <1>7. ASSUME NEW i \in 1..n
        PROVE  /\ r[i].event = j[i].event /\ r[i].sealed = TRUE
               /\ r[i].prev = PreviousHash(r, i)
               /\ r[i].hash = Hash(r[i].event, r[i].prev)
               /\ Decodes(r[i]) /\ Line(r[i]) /\ ~Forged(r[i])
    <2>1. IsSealed(r[i], j[i].event, PreviousHash(r, i))
      BY <1>6, SealedFacts
    <2> QED BY <2>1 DEF IsSealed
  <1>8. ChainHolds(r)
    BY <1>5, <1>7 DEF ChainHolds
  <1> QED BY <1>1, <1>2, <1>5, <1>7, <1>8 DEF IsSeq

\* A forged line breaks the chain, and so does one that cannot be decoded.
LEMMA ForgedBreaks == ASSUME ForgeryStays, damaged PROVE ~ChainHolds(journal)
  BY DEF ForgeryStays, Forged, ChainHolds

-----------------------------------------------------------------------------
\* The steps of the journal.

\* A step that does not write the file.
LEMMA SameLines ==
    ASSUME JournalInv, UNCHANGED <<journal, written, damaged>>
    PROVE  LinesTrue' /\ ForgeryStays' /\ (Intact' <=> Intact)
  <1>1. LinesTrue'
    BY DEF JournalInv, LinesTrue
  <1>2. ForgeryStays'
    BY DEF JournalInv, ForgeryStays
  <1>3. Intact' <=> Intact
    BY DEF Intact
  <1> QED BY <1>1, <1>2, <1>3

\* A line is added at the end: the event it stands for is known, and it
\* changes nothing about the others.
Adds(l, e) ==
    /\ journal' = Append(journal, l) /\ written' = Append(written, e)
    /\ Line(l) /\ ~Forged(l) /\ l.event = e
    /\ UNCHANGED damaged

\* A step that adds one line to the file.
LEMMA AddsFacts ==
    ASSUME JournalInv, NEW l, NEW e, Adds(l, e)
    PROVE  /\ IsSeq(journal') /\ IsSeq(written') /\ Len(journal') = Len(written')
           /\ LinesTrue' /\ ForgeryStays'
           /\ Intact' => Intact /\ Decodes(l)
  <1>1. PICK n \in Nat : n = Len(journal) /\ n = Len(written)
    BY SeqFacts DEF JournalInv
  <1>2. /\ IsSeq(journal') /\ Len(journal') = n + 1 /\ journal'[n + 1] = l
        /\ \A i \in 1..n : journal'[i] = journal[i]
        /\ \A i \in 1..(n + 1) : i \in 1..n \/ i = n + 1
    BY <1>1, AppendFacts DEF Adds, JournalInv
  <1>3. /\ IsSeq(written') /\ Len(written') = n + 1 /\ written'[n + 1] = e
        /\ \A i \in 1..n : written'[i] = written[i]
    BY <1>1, AppendFacts DEF Adds, JournalInv
  <1>4. n + 1 \in 1..(n + 1) /\ \A i \in 1..n : i \in 1..(n + 1)
    BY <1>1
  <1>5. ASSUME NEW i \in 1..(n + 1)
        PROVE  Line(journal'[i]) /\ journal'[i].event = written'[i]
    <2>1. CASE i \in 1..n
      BY <1>1, <1>2, <1>3, <2>1 DEF JournalInv, LinesTrue
    <2>2. CASE i = n + 1
      BY <1>2, <1>3, <2>2 DEF Adds
    <2> QED BY <1>2, <2>1, <2>2
  <1>6. LinesTrue'
    BY <1>2, <1>5 DEF LinesTrue, Line, Unsealed
  <1>7. (\E i \in 1..(n + 1) : Forged(journal'[i])) <=> \E i \in 1..n : Forged(journal[i])
    <2>1. ~Forged(l)
      BY DEF Adds
    <2> QED BY <1>2, <1>4, <2>1
  <1>8. ForgeryStays'
    BY <1>1, <1>2, <1>7 DEF ForgeryStays, JournalInv, Adds, Forged, Hash
  <1>9. Intact' => Intact /\ Decodes(l)
    BY <1>1, <1>2, <1>4 DEF Intact, Decodes
  <1> QED BY <1>2, <1>3, <1>6, <1>8, <1>9

\* A sink opens: it remembers the hash of the last line.
LEMMA OpenJournal == ASSUME JournalInv, Open(Self) PROVE JournalInv'
  <1>1. /\ UNCHANGED <<journal, written, damaged, forked>>
        /\ last' = [last EXCEPT ![Self] = TailHash(journal)]
        /\ open' = open \cup {Self}
    BY DEF Open, histories
  <1>2. DOMAIN last' = Sinks /\ last'[Self] = TailHash(journal)
    BY <1>1, KernelAssumption DEF JournalInv
  <1>3. LinesTrue' /\ ForgeryStays'
    BY <1>1, SameLines
  <1>4. ChainContinues'
    BY <1>1, <1>2 DEF JournalInv, ChainContinues, Intact
  <1> QED BY <1>1, <1>2, <1>3, <1>4 DEF JournalInv

\* The sink is dropped.
LEMMA CloseJournal == ASSUME JournalInv, Close(Self) PROVE JournalInv'
  <1>1. /\ UNCHANGED <<journal, written, damaged, forked>>
        /\ last' = [last EXCEPT ![Self] = None]
        /\ open' = open \ {Self}
    BY DEF Close
  <1>2. DOMAIN last' = Sinks /\ open' \subseteq {Self} /\ ~Up'
    BY <1>1 DEF JournalInv, Up
  <1>3. LinesTrue' /\ ForgeryStays'
    BY <1>1, SameLines
  <1>4. ChainContinues'
    BY <1>1, <1>2 DEF JournalInv, ChainContinues, Intact
  <1> QED BY <1>1, <1>2, <1>3, <1>4 DEF JournalInv

\* A write after a line that was cut short makes it unreadable for good.
LEMMA GarbleJournal ==
    ASSUME JournalInv, journal # <<>>, journal[Len(journal)] = Cut,
           journal' = [journal EXCEPT ![Len(journal)] = Garbled],
           UNCHANGED <<written, open, damaged>>, DOMAIN last' = Sinks
    PROVE  JournalInv' /\ ~Intact'
  <1>1. PICK n \in Nat : n = Len(journal) /\ n = Len(written) /\ n # 0
    BY SeqFacts DEF JournalInv
  <1>2. n \in 1..n
    BY <1>1
  <1>3. /\ IsSeq(journal') /\ Len(journal') = n /\ journal'[n] = Garbled
        /\ \A i \in 1..n : i # n => journal'[i] = journal[i]
    <2>1. Changed(journal, journal', n, Garbled)
      BY <1>1, <1>2, ExceptFacts DEF JournalInv
    <2> QED BY <1>1, <2>1 DEF Changed
  <1>4. LinesTrue'
    <2>1. ASSUME NEW i \in 1..n PROVE Line(journal'[i]) /\ journal'[i].event = written[i]
      <3>1. CASE i = n
        <4>1. written[n] = None
          BY <1>1, <1>2, CutFacts DEF JournalInv, LinesTrue
        <4> QED BY <1>3, <3>1, <4>1, CutFacts DEF Line
      <3>2. CASE i # n
        BY <1>1, <1>3, <3>2 DEF JournalInv, LinesTrue
      <3> QED BY <3>1, <3>2
    <2> QED BY <1>3, <2>1 DEF LinesTrue, Line, Unsealed
  <1>5. ForgeryStays'
    <2>1. ~Forged(Cut) /\ ~Forged(Garbled)
      BY CutFacts DEF Forged
    <2>2. (\E i \in 1..n : Forged(journal'[i])) <=> \E i \in 1..n : Forged(journal[i])
      BY <1>1, <1>2, <1>3, <2>1
    <2> QED BY <1>1, <1>3, <2>2 DEF JournalInv, ForgeryStays, Forged, Hash
  <1>6. ~Intact'
    BY <1>2, <1>3, CutFacts DEF Intact, Decodes
  <1>7. ChainContinues'
    BY <1>6 DEF ChainContinues
  <1> QED BY <1>1, <1>3, <1>4, <1>5, <1>6, <1>7 DEF JournalInv

\* A line that is written continues the chain, unless it is swallowed by one
\* that was cut or the sink has lost track of the file.
Continues(e) ==
    /\ Intact' => Intact /\ written' = Append(written, e)
    /\ written' = written \/ written' = Append(written, e)
    /\ UNCHANGED damaged

\* A whole line is written; afterwards the sink remembers it, or is astray.
LEMMA WrittenJournal ==
    ASSUME JournalInv, NEW e, Written(Self, e), DOMAIN last' = Sinks,
           Self \in stray' \/ last'[Self] = Hash(e, last[Self])
    PROVE  JournalInv' /\ Continues(e)
  <1>1. PICK l : l = Sealed(e, last[Self])
    OBVIOUS
  <1>2. IsSealed(l, e, last[Self])
    BY <1>1, SealedFacts
  <1>3. /\ journal' = AddLine(journal, l)
        /\ written' = IF Len(journal') = Len(journal) THEN written ELSE Append(written, e)
        /\ UNCHANGED <<open, damaged>> /\ Self \in open
        /\ ~forked' => ~forked /\ Self \notin stray
    BY <1>1 DEF Written
  <1>4. Self \in stray' \/ last'[Self] = l.hash
    BY <1>2 DEF IsSealed
  <1>5. PICK n \in Nat : n = Len(journal)
    BY SeqFacts DEF JournalInv
  <1>6. CASE journal # <<>> /\ journal[Len(journal)] = Cut
    <2>1. journal' = [journal EXCEPT ![Len(journal)] = Garbled]
      BY <1>3, <1>6 DEF AddLine
    <2>2. Len(journal') = Len(journal)
      <3>1. Len(journal) \in 1..Len(journal)
        BY <1>5, <1>6, SeqFacts DEF JournalInv
      <3>2. Changed(journal, journal', Len(journal), Garbled)
        BY <2>1, <3>1, ExceptFacts DEF JournalInv
      <3> QED BY <3>2 DEF Changed
    <2>3. written' = written
      BY <1>3, <2>2
    <2> QED BY <1>3, <1>6, <2>1, <2>3, GarbleJournal DEF Continues
  <1>7. CASE ~(journal # <<>> /\ journal[Len(journal)] = Cut)
    <2>1. journal' = Append(journal, l)
      BY <1>3, <1>7 DEF AddLine
    <2>2. Len(journal') = n + 1 /\ journal'[n + 1] = l
      BY <1>5, <2>1, AppendFacts DEF JournalInv
    <2>3. written' = Append(written, e)
      BY <1>3, <1>5, <2>2
    <2>4. Adds(l, e)
      BY <1>2, <1>3, <2>1, <2>3 DEF Adds, IsSealed
    <2>5. /\ IsSeq(journal') /\ IsSeq(written') /\ Len(journal') = Len(written')
          /\ LinesTrue' /\ ForgeryStays'
          /\ Intact' => Intact /\ Decodes(l)
      BY <2>4, AddsFacts
    <2>6. ChainContinues'
      <3>1. SUFFICES ASSUME Intact', ~damaged, ~forked'
                     PROVE  /\ ChainHolds(journal')
                            /\ Self \notin stray' => last'[Self] = TailHash(journal')
        BY <1>3 DEF ChainContinues
      <3>2. ChainHolds(journal) /\ last[Self] = TailHash(journal)
        BY <1>3, <2>5, <3>1 DEF JournalInv, ChainContinues, Up
      <3>3. ChainHolds(journal')
        BY <1>1, <2>1, <3>2, ChainAppend DEF JournalInv
      <3>4. journal' # <<>>
        BY <1>5, <2>2, <2>5, SeqFacts
      <3>5. TailHash(journal') = l.hash
        BY <2>2, <3>4 DEF TailHash
      <3> QED BY <1>4, <3>3, <3>5
    <2>7. JournalInv'
      BY <1>3, <2>5, <2>6 DEF JournalInv
    <2> QED BY <1>3, <2>3, <2>5, <2>7 DEF Continues
  <1> QED BY <1>6, <1>7

\* record succeeds.
LEMMA RecordOkJournal ==
    ASSUME JournalInv, NEW e, RecordOk(Self, e)
    PROVE  JournalInv' /\ Continues(e)
  <1>1. Written(Self, e) /\ last' = [last EXCEPT ![Self] = Hash(e, last[Self])]
    BY DEF RecordOk
  <1>2. DOMAIN last' = Sinks /\ last'[Self] = Hash(e, last[Self])
    BY <1>1, KernelAssumption DEF JournalInv
  <1> QED BY <1>1, <1>2, WrittenJournal

\* record fails: the file is as it was, ends with a line that cannot be
\* decoded, or has the whole line.
LEMMA RecordFailsJournal ==
    ASSUME JournalInv, NEW e, RecordFails(Self, e)
    PROVE  /\ JournalInv'
           /\ Intact' => Intact
           /\ \/ written' = written
              \/ written' = Append(written, None)
              \/ written' = Append(written, e)
           /\ UNCHANGED damaged
  <1>1. UNCHANGED last /\ Self \in open
    BY DEF RecordFails
  <1>2. CASE /\ journal' = Append(journal, Cut) /\ written' = Append(written, None)
             /\ UNCHANGED <<open, histories>>
    <2>0. UNCHANGED <<open, damaged>>
      BY <1>2 DEF histories
    <2>1. Line(Cut) /\ ~Forged(Cut) /\ Cut.event = None
      BY CutFacts DEF Line, Forged
    <2>2. Adds(Cut, None)
      BY <1>2, <2>0, <2>1 DEF Adds
    <2>3. /\ IsSeq(journal') /\ IsSeq(written') /\ Len(journal') = Len(written')
          /\ LinesTrue' /\ ForgeryStays'
          /\ Intact' => Intact /\ Decodes(Cut)
      BY <2>2, AddsFacts
    <2>4. ~Intact'
      BY <2>3, CutFacts
    <2> QED BY <1>1, <1>2, <2>0, <2>3, <2>4 DEF JournalInv, ChainContinues
  <1>3. CASE UNCHANGED <<journal, written, open, histories>>
    <2>0. UNCHANGED <<open, damaged, stray, forked>>
      BY <1>3 DEF histories
    <2>1. LinesTrue' /\ ForgeryStays'
      BY <1>3, <2>0, SameLines
    <2>2. ChainContinues' /\ (Intact' => Intact)
      BY <1>1, <1>3, <2>0 DEF JournalInv, ChainContinues, Intact, Up
    <2> QED BY <1>1, <1>3, <2>0, <2>1, <2>2 DEF JournalInv
  <1>4. CASE Written(Self, e) /\ stray' = stray \cup {Self}
    <2>1. DOMAIN last' = Sinks /\ Self \in stray'
      BY <1>1, <1>4 DEF JournalInv
    <2>2. JournalInv' /\ Continues(e)
      BY <1>4, <2>1, WrittenJournal
    <2> QED BY <2>2 DEF Continues
  <1>5. \/ /\ journal' = Append(journal, Cut) /\ written' = Append(written, None)
           /\ UNCHANGED <<open, histories>>
        \/ UNCHANGED <<journal, written, open, histories>>
        \/ Written(Self, e) /\ stray' = stray \cup {Self}
    <2>1. Len(Append(journal, Cut)) # Len(journal)
      BY AppendFacts DEF JournalInv
    <2> QED BY <2>1 DEF RecordFails
  <1> QED BY <1>2, <1>3, <1>4, <1>5

\* Repair accepts only a chain that holds, and what it writes holds as well.
LEMMA RepairJournalKeeps ==
    ASSUME JournalInv, Repair
    PROVE  JournalInv' /\ Intact /\ UNCHANGED <<written, damaged>>
  <1>1. /\ UNCHANGED <<last, open, written, damaged>> /\ open = {}
        /\ ChainHolds(journal) /\ journal' = Repaired(journal)
    BY DEF Repair, histories
  <1>2. PICK n \in Nat : n = Len(journal)
    BY SeqFacts DEF JournalInv
  <1>3. /\ IsSeq(journal') /\ Len(journal') = n
        /\ \A i \in 1..n : /\ Line(journal'[i]) /\ ~Forged(journal'[i])
                           /\ journal'[i].event = journal[i].event
        /\ ChainHolds(journal')
    BY <1>1, <1>2, RepairedFacts DEF JournalInv
  <1>4. ~damaged /\ Intact
    BY <1>1, ForgedBreaks DEF JournalInv, ChainHolds, Intact
  <1>5. LinesTrue'
    <2>1. \A i \in 1..n : Line(journal'[i]) /\ journal'[i].event = written[i]
      BY <1>2, <1>3 DEF JournalInv, LinesTrue
    <2> QED BY <1>1, <1>3, <2>1 DEF LinesTrue, Line, Unsealed
  <1>6. ForgeryStays'
    BY <1>1, <1>3, <1>4 DEF ForgeryStays, Forged, Hash
  <1>7. ChainContinues'
    BY <1>1, <1>3 DEF ChainContinues, Up
  <1> QED BY <1>1, <1>2, <1>3, <1>4, <1>5, <1>6, <1>7 DEF JournalInv

\* Only a sealed line can be changed from outside, and then it is forged.
LEMMA DamageJournalKeeps ==
    ASSUME JournalInv, NEW i \in 1..Len(journal), Damage(i, Legacy)
    PROVE  /\ JournalInv' /\ damaged'
           /\ written' = [written EXCEPT ![i] = Legacy]
  <1>1. /\ ~damaged /\ Decodes(journal[i]) /\ Legacy # journal[i].event
        /\ journal' = [journal EXCEPT ![i].event = Legacy]
        /\ written' = [written EXCEPT ![i] = Legacy]
        /\ damaged' = journal[i].sealed
        /\ UNCHANGED <<last, open>>
    BY DEF Damage
  <1>2. Line(journal[i]) /\ ~Forged(journal[i])
    BY <1>1 DEF JournalInv, LinesTrue, ForgeryStays
  <1>3. journal[i] \notin {Cut, Garbled, Unsealed(Legacy)}
    BY <1>1, CutFacts DEF Decodes
  <1>4. PICK e, p, h : journal[i] = [event |-> e, sealed |-> TRUE, prev |-> p, hash |-> h]
    BY <1>2, <1>3 DEF Line
  <1>5. h = Hash(e, p) /\ e # Legacy /\ journal[i].sealed = TRUE
    BY <1>1, <1>2, <1>4 DEF Forged
  <1>6. PICK l : l = [event |-> Legacy, sealed |-> TRUE, prev |-> p, hash |-> h]
    OBVIOUS
  <1>7. Line(l) /\ Forged(l) /\ l.event = Legacy
    <2>1. Hash(e, p) # Hash(Legacy, p)
      BY <1>5 DEF Hash
    <2> QED BY <1>5, <1>6, <2>1 DEF Line, Forged
  <1>8. [journal[i] EXCEPT !.event = Legacy] = l
    <2>1. PICK b : b = TRUE
      OBVIOUS
    <2>2. PICK r : r = journal[i]
      OBVIOUS
    <2>3. r = [event |-> e, sealed |-> b, prev |-> p, hash |-> h]
      BY <1>4, <2>1, <2>2
    <2>4. l = [event |-> Legacy, sealed |-> b, prev |-> p, hash |-> h]
      BY <1>6, <2>1
    <2>5. [r EXCEPT !.event = Legacy] = l
      BY <2>3, <2>4
    <2> QED BY <2>2, <2>5
  <1>9. journal' = [journal EXCEPT ![i] = l]
    BY <1>1, <1>8
  <1>10. /\ IsSeq(journal') /\ Len(journal') = Len(journal) /\ journal'[i] = l
         /\ \A k \in 1..Len(journal) : k # i => journal'[k] = journal[k]
    <2>1. Changed(journal, journal', i, l)
      BY <1>9, ExceptFacts DEF JournalInv
    <2> QED BY <2>1 DEF Changed
  <1>11. /\ IsSeq(written') /\ Len(written') = Len(written) /\ written'[i] = Legacy
         /\ \A k \in 1..Len(journal) : k # i => written'[k] = written[k]
    <2>1. Changed(written, written', i, Legacy) /\ Len(journal) = Len(written)
      BY <1>1, ExceptFacts DEF JournalInv
    <2> QED BY <2>1 DEF Changed
  <1>12. LinesTrue'
    <2>1. ASSUME NEW k \in 1..Len(journal)
          PROVE  Line(journal'[k]) /\ journal'[k].event = written'[k]
      <3>1. CASE k = i
        BY <1>7, <1>10, <1>11, <3>1
      <3>2. CASE k # i
        BY <1>10, <1>11, <3>2 DEF JournalInv, LinesTrue
      <3> QED BY <3>1, <3>2
    <2> QED BY <1>10, <2>1 DEF LinesTrue, Line, Unsealed
  <1>13. damaged' = TRUE
    BY <1>1, <1>5
  <1>14. ForgeryStays'
    BY <1>7, <1>10, <1>13 DEF ForgeryStays, Forged, Hash
  <1>15. ChainContinues'
    BY <1>13 DEF ChainContinues
  <1> QED BY <1>1, <1>10, <1>11, <1>12, <1>13, <1>14, <1>15 DEF JournalInv

\* A journal of unsealed lines satisfies the invariant.
LEMMA InitJournal == KernelInit => JournalInv
  <1> SUFFICES ASSUME KernelInit PROVE JournalInv
    OBVIOUS
  <1>1. PICK n \in 0..MaxLegacy : /\ journal = [i \in 1..n |-> Unsealed(Legacy)]
                                  /\ written = [i \in 1..n |-> Legacy]
    BY DEF KernelInit, JournalInit
  <1>2. n \in Nat
    BY JournalAssumption
  <1>3. /\ journal \in Seq({Unsealed(Legacy)}) /\ written \in Seq({Legacy})
        /\ Len(journal) = n /\ Len(written) = n
        /\ \A i \in 1..n : journal[i] = Unsealed(Legacy) /\ written[i] = Legacy
    <2>1. PICK l : l = Unsealed(Legacy)
      OBVIOUS
    <2>2. /\ journal \in Seq({l}) /\ Len(journal) = n
          /\ \A i \in 1..n : journal[i] = l
      BY <1>1, <1>2, <2>1
    <2>3. /\ written \in Seq({Legacy}) /\ Len(written) = n
          /\ \A i \in 1..n : written[i] = Legacy
      BY <1>1, <1>2
    <2> QED BY <2>1, <2>2, <2>3
  <1>4. IsSeq(journal) /\ IsSeq(written)
    BY <1>3 DEF IsSeq
  <1>5. LinesTrue
    BY <1>3, CutFacts DEF LinesTrue, Line
  <1>6. ~Forged(Unsealed(Legacy))
    BY CutFacts DEF Forged
  <1>7. damaged = FALSE /\ open = {} /\ last = [s \in Sinks |-> None]
    BY DEF KernelInit, JournalInit
  <1>8. ForgeryStays
    BY <1>3, <1>6, <1>7 DEF ForgeryStays
  <1>9. Decodes(Unsealed(Legacy))
    <2>1. Legacy # None
      BY JournalAssumption
    <2> QED BY <2>1, CutFacts DEF Decodes
  <1>10. ChainHolds(journal)
    <2>1. \A i \in 1..n : Decodes(journal[i]) /\ ~journal[i].sealed
      BY <1>3, <1>9, CutFacts
    <2>2. \A i \in 1..n : \A k \in 1..i : k \in 1..n
      BY <1>2
    <2> QED BY <1>3, <2>1, <2>2 DEF ChainHolds
  <1>11. ChainContinues
    BY <1>7, <1>10 DEF ChainContinues, Up
  <1> QED BY <1>3, <1>4, <1>5, <1>7, <1>8, <1>11 DEF JournalInv

\* A step that does not touch the journal.
LEMMA SameJournal == ASSUME JournalInv, UNCHANGED journalVars PROVE JournalInv'
  <1>1. UNCHANGED <<journal, last, open, written, damaged, stray, forked>>
    BY DEF journalVars, histories
  <1>2. LinesTrue' /\ ForgeryStays' /\ (Intact' <=> Intact)
    BY <1>1, SameLines
  <1>3. ChainContinues'
    BY <1>1, <1>2 DEF JournalInv, ChainContinues, Up
  <1> QED BY <1>1, <1>2, <1>3 DEF JournalInv

\* record, as the kernel uses it.
LEMMA AuditJournalKeeps == ASSUME JournalInv, NEW p \in Callers, Audit(p) PROVE JournalInv'
  <1>1. PICK e : e = Head(op[p].todo)
    OBVIOUS
  <1>2. RecordOk(Self, e) \/ RecordFails(Self, e)
    BY <1>1 DEF Audit
  <1> QED BY <1>2, RecordOkJournal, RecordFailsJournal

\* Every step keeps the invariant of the journal.
LEMMA StepJournal == JournalInv /\ [Next]_vars => JournalInv'
  <1> SUFFICES ASSUME JournalInv, [Next]_vars PROVE JournalInv'
    OBVIOUS
  <1>1. CASE UNCHANGED journalVars
    BY <1>1, SameJournal
  <1>2. CASE Boot
    BY <1>2, OpenJournal DEF Boot
  <1>3. CASE Halt
    BY <1>3, CloseJournal DEF Halt
  <1>4. CASE RepairJournal
    BY <1>4, RepairJournalKeeps DEF RepairJournal
  <1>5. ASSUME NEW i \in 1..Len(journal), DamageJournal(i) PROVE JournalInv'
    BY <1>5, DamageJournalKeeps DEF DamageJournal
  <1>6. ASSUME NEW p \in Callers, Audit(p) PROVE JournalInv'
    BY <1>6, AuditJournalKeeps
  <1>7. \/ UNCHANGED journalVars \/ Boot \/ Halt \/ RepairJournal
        \/ \E i \in 1..Len(journal) : DamageJournal(i)
        \/ \E p \in Callers : Audit(p)
    <2>1. CASE UNCHANGED vars
      BY <2>1 DEF vars
    <2>2. ASSUME NEW p \in Callers, NEW t, Issue(p, t) \/ Revoke(p, t)
          PROVE  UNCHANGED journalVars
      BY <2>2 DEF Issue, Revoke
    <2>3. ASSUME NEW p \in Callers, NEW below, RevokeGeneration(p, below)
          PROVE  UNCHANGED journalVars
      BY <2>3 DEF RevokeGeneration
    <2>4. ASSUME NEW p \in Callers, NEW t,
                 AuthorizeOperation(p, t) \/ ExecutePlane(p, t) \/ ExecuteConnector(p, t)
          PROVE  UNCHANGED journalVars
      BY <2>4 DEF AuthorizeOperation, ExecutePlane, ExecuteConnector, Request
    <2>5. ASSUME NEW p \in Callers, NEW t, NEW k, Supervise(p, t, k)
          PROVE  UNCHANGED journalVars
      BY <2>5 DEF Supervise
    <2>6. ASSUME NEW p \in Callers,
                 \/ Forward(p) \/ Refuse(p) \/ CheckToken(p) \/ CheckGeneration(p)
                 \/ Answer(p) \/ Abandon(p)
          PROVE  UNCHANGED journalVars
      BY <2>6, Zenon DEF Forward, Refuse, CheckToken, CheckGeneration, Answer, Abandon
    <2> QED BY <2>1, <2>2, <2>3, <2>4, <2>5, <2>6, Zenon DEF Next, Proceed
  <1> QED BY <1>1, <1>2, <1>3, <1>4, <1>5, <1>6, <1>7

\* The invariant of the journal holds throughout.
LEMMA AlwaysJournal == Spec => []JournalInv
  BY InitJournal, StepJournal, PTL DEF Spec

(* verify_jsonl_audit_journal fails on every journal with a line that       *)
(* cannot be decoded or a sealed event that was changed, and passes on      *)
(* every other one unless a sink went on after a failed unlock, however     *)
(* often the kernel restarts, writes fail and the journal is repaired, for  *)
(* any number of callers, tokens and tasks.                                 *)
THEOREM VerifyCorrect == Spec => []VerifyExact
  <1>1. JournalInv => VerifyExact
    <2>1. ASSUME JournalInv, ChainHolds(journal) PROVE Intact /\ ~damaged
      BY <2>1, ForgedBreaks DEF JournalInv, ChainHolds, Intact
    <2>2. ASSUME JournalInv, Intact, ~damaged, ~forked PROVE ChainHolds(journal)
      BY <2>2 DEF JournalInv, ChainContinues
    <2> QED BY <2>1, <2>2 DEF VerifyExact
  <1> QED BY <1>1, AlwaysJournal, PTL

-----------------------------------------------------------------------------
\* Tasks and their trail.

TaskStates == {"Runnable", "InReply", "Completed", "Faulted", "Gone"}

Dispatched(k) == Event("TaskDispatched", k)

EntriesOf(w, k) == {i \in 1..Len(w) : w[i] = Dispatched(k)}
Entries(k) == EntriesOf(written, k)

\* What an operation is about to record, when it is not a task that has run.
Plain(todo) == \A i \in DOMAIN todo, k \in Tasks : todo[i] # Dispatched(k)

Well(s, o) ==
    /\ s \in {"idle", "forward"} => o.task = None
    /\ o.task # None <=> o.kind = "task"
    /\ s = "audit" =>
          /\ o.todo # <<>>
          /\ o.kind = "task" /\ o.ok => o.todo = <<Dispatched(o.task)>>
          /\ ~(o.kind = "task" /\ o.ok) => Plain(o.todo)

\* The adapter of the operation's task has been called.
Ran(s, o) == s = "run" \/ (s = "audit" /\ o.ok)

\* A task is with at most one caller, which has not recorded it, and its
\* adapter was called if and only if that caller is that far.
Owned(k, p) ==
    op[p].task = k => /\ task[k] = "InReply"
                      /\ Entries(k) = {}
                      /\ runs[k] = IF Ran(pc[p], op[p]) THEN 1 ELSE 0

TaskTrue(k) ==
    /\ \A p, q \in Callers : op[p].task = k /\ op[q].task = k => p = q
    /\ \A p \in Callers : Owned(k, p)
    /\ task[k] = "Runnable" => runs[k] = 0
    /\ runs[k] = 0 => Entries(k) = {}
    /\ \A i, j \in Entries(k) : i = j
    /\ Intact /\ ~damaged /\ task[k] = "Completed" => Entries(k) # {}

TrailInv ==
    /\ runs \in [Tasks -> {0, 1}]
    /\ task \in [Tasks -> TaskStates]
    /\ \A p \in Callers : Well(pc[p], op[p])
    /\ \A k \in Tasks : TaskTrue(k)

\* An idle caller has no task.
LEMMA WellNoOp == Well("idle", NoOp) /\ NoOp.task = None
  BY DEF Well, NoOp

\* A step of a caller that adds no entry of a task to the trail.
CallerMoves(p, s, o) ==
    /\ s \in Steps /\ o \in Operation /\ Become(p, s, o) /\ Well(s, o)
    /\ runs' \in [Tasks -> {0, 1}] /\ task' \in [Tasks -> TaskStates]
    /\ \A k \in Tasks : Entries(k)' = Entries(k)
    /\ Intact' => Intact
    /\ UNCHANGED damaged
    /\ \A k \in Tasks : op[p].task # k /\ o.task # k => task'[k] = task[k] /\ runs'[k] = runs[k]
    /\ \A k \in Tasks : o.task = k =>
          /\ op[p].task = k \/ task[k] = "Runnable"
          /\ task'[k] = "InReply"
          /\ runs'[k] = IF Ran(s, o) THEN 1 ELSE 0
    /\ \A k \in Tasks : op[p].task = k /\ o.task # k =>
          /\ runs'[k] = runs[k]
          /\ \/ task'[k] \in {"InReply", "Faulted"}
             \/ task'[k] = "Completed" /\ ~Intact'

\* Such a step keeps the trail true.
LEMMA CallerStep ==
    ASSUME Types, TrailInv, NEW p \in Callers, NEW s, NEW o, CallerMoves(p, s, o)
    PROVE  TrailInv'
  <1>1. /\ pc'[p] = s /\ op'[p] = o
        /\ \A q \in Callers : q # p => pc'[q] = pc[q] /\ op'[q] = op[q]
    BY BecomeFacts DEF CallerMoves
  <1>2. ASSUME NEW q \in Callers PROVE Well(pc'[q], op'[q])
    <2>1. CASE q = p
      BY <1>1, <2>1 DEF CallerMoves
    <2>2. CASE q # p
      BY <1>1, <2>2 DEF TrailInv
    <2> QED BY <2>1, <2>2
  <1>3. ASSUME NEW k \in Tasks PROVE TaskTrue(k)'
    <2>1. /\ TaskTrue(k) /\ Entries(k)' = Entries(k)
          /\ runs[k] \in {0, 1} /\ runs'[k] \in {0, 1}
      BY DEF TrailInv, CallerMoves
    <2>2. CASE o.task = k
      <3>1. /\ op[p].task = k \/ task[k] = "Runnable"
            /\ task'[k] = "InReply" /\ runs'[k] = IF Ran(s, o) THEN 1 ELSE 0
        BY <2>2 DEF CallerMoves
      <3>2. \A q \in Callers : q # p => op[q].task # k
        BY <2>1, <3>1 DEF TaskTrue, Owned
      <3>3. \A q \in Callers : q # p => op'[q].task # k
        BY <1>1, <3>2
      <3>4. Entries(k) = {}
        BY <2>1, <3>1 DEF TaskTrue, Owned
      <3>5. \A q \in Callers : Owned(k, q)'
        BY <1>1, <2>1, <3>1, <3>3, <3>4 DEF Owned
      <3>6. \A q, r \in Callers : op'[q].task = k /\ op'[r].task = k => q = r
        BY <3>3
      <3> QED BY <2>1, <3>1, <3>4, <3>5, <3>6 DEF TaskTrue
    <2>3. CASE o.task # k /\ op[p].task = k
      <3>1. /\ runs'[k] = runs[k]
            /\ \/ task'[k] \in {"InReply", "Faulted"}
               \/ task'[k] = "Completed" /\ ~Intact'
        BY <2>3 DEF CallerMoves
      <3>2. \A q \in Callers : op'[q].task # k
        BY <1>1, <2>1, <2>3 DEF TaskTrue
      <3>3. Entries(k) = {}
        BY <2>1, <2>3 DEF TaskTrue, Owned
      <3>4. \A q \in Callers : Owned(k, q)'
        BY <3>2 DEF Owned
      <3>5. task'[k] # "Runnable"
        BY <3>1
      <3> QED BY <2>1, <3>1, <3>2, <3>3, <3>4, <3>5 DEF TaskTrue
    <2>4. CASE o.task # k /\ op[p].task # k
      <3>1. /\ task'[k] = task[k] /\ runs'[k] = runs[k]
            /\ Intact' => Intact
            /\ damaged' = damaged
        BY <2>4 DEF CallerMoves
      <3>2. \A q \in Callers : op'[q].task = k => q # p /\ op[q].task = k /\ pc'[q] = pc[q] /\ op'[q] = op[q]
        BY <1>1, <2>4
      <3>3. \A q \in Callers : Owned(k, q)'
        BY <2>1, <3>1, <3>2 DEF TaskTrue, Owned
      <3>4. \A q, r \in Callers : op'[q].task = k /\ op'[r].task = k => q = r
        BY <2>1, <3>2 DEF TaskTrue
      <3> QED BY <2>1, <3>1, <3>3, <3>4 DEF TaskTrue
    <2> QED BY <2>2, <2>3, <2>4
  <1> QED BY <1>2, <1>3 DEF TrailInv, CallerMoves

\* Steps that leave the journal alone.
LEMMA QuietStep ==
    ASSUME Types, TrailInv, UNCHANGED journalVars,
           NEW p \in Callers, NEW s \in Steps, NEW o \in Operation,
           Become(p, s, o), Well(s, o),
           runs' \in [Tasks -> {0, 1}], task' \in [Tasks -> TaskStates],
           \A k \in Tasks : op[p].task # k /\ o.task # k =>
               task'[k] = task[k] /\ runs'[k] = runs[k],
           \A k \in Tasks : o.task = k =>
               /\ op[p].task = k \/ task[k] = "Runnable"
               /\ task'[k] = "InReply"
               /\ runs'[k] = IF Ran(s, o) THEN 1 ELSE 0,
           \A k \in Tasks : op[p].task = k /\ o.task # k =>
               runs'[k] = runs[k] /\ task'[k] \in {"InReply", "Faulted"}
    PROVE  TrailInv'
  <1>1. UNCHANGED <<journal, written, damaged>>
    BY DEF journalVars, histories
  <1>2. (\A k \in Tasks : Entries(k)' = Entries(k)) /\ (Intact' => Intact)
    BY <1>1 DEF Entries, Intact
  <1>3. CallerMoves(p, s, o)
    BY <1>1, <1>2 DEF CallerMoves
  <1> QED BY <1>3, CallerStep

\* A caller whose operation has no task, before and after.
LEMMA NoTaskStep ==
    ASSUME Types, TrailInv, UNCHANGED <<journalVars, task, runs>>,
           NEW p \in Callers, NEW s \in Steps, NEW o \in Operation,
           Become(p, s, o), Well(s, o), op[p].task = None, o.task = None
    PROVE  TrailInv'
  <1>1. \A k \in Tasks : op[p].task # k /\ o.task # k
    BY KernelAssumption
  <1>2. runs' \in [Tasks -> {0, 1}] /\ task' \in [Tasks -> TaskStates]
    BY DEF TrailInv
  <1> QED BY <1>1, <1>2, QuietStep

\* A caller that keeps its operation's task, whose adapter it has called or
\* not as before.
LEMMA SameTaskStep ==
    ASSUME Types, TrailInv, UNCHANGED <<journalVars, task, runs>>,
           NEW p \in Callers, NEW s \in Steps, NEW o \in Operation,
           Become(p, s, o), Well(s, o), op[p].task = o.task,
           Ran(s, o) <=> Ran(pc[p], op[p])
    PROVE  TrailInv'
  <1>1. runs' \in [Tasks -> {0, 1}] /\ task' \in [Tasks -> TaskStates]
    BY DEF TrailInv
  <1>2. ASSUME NEW k \in Tasks, o.task = k
        PROVE  /\ op[p].task = k \/ task[k] = "Runnable"
               /\ task'[k] = "InReply"
               /\ runs'[k] = IF Ran(s, o) THEN 1 ELSE 0
    <2>1. Owned(k, p) /\ op[p].task = k
      BY <1>2 DEF TrailInv, TaskTrue
    <2> QED BY <2>1 DEF Owned
  <1> QED BY <1>1, <1>2, QuietStep

\* Operations that begin with a record of their own kind have no task, and
\* what they record is no entry of a task.
LEMMA PlainEvents ==
    ASSUME NEW kind, NEW x, kind # "TaskDispatched"
    PROVE  Plain(<<Event(kind, x)>>)
  BY DEF Plain, Event, Dispatched

\* A token is made or revoked: no task has part in it.
LEMMA IssueTrail ==
    ASSUME Types, TrailInv, NEW p \in Callers, NEW t \in Tokens, Issue(p, t) \/ Revoke(p, t)
    PROVE  TrailInv'
  <1>1. PICK kind \in {"issue", "revoke"}, name \in {"TokenIssued", "TokenRevoked"} :
            Become(p, "audit", [NoOp EXCEPT !.kind = kind, !.token = t, !.ok = TRUE,
                                            !.todo = <<Event(name, t)>>])
    BY DEF Issue, Revoke
  <1>2. PICK todo : todo = <<Event(name, t)>>
    OBVIOUS
  <1>3. PICK o : o = [NoOp EXCEPT !.kind = kind, !.token = t, !.ok = TRUE, !.todo = todo]
    OBVIOUS
  <1>4. /\ pc[p] = "idle" /\ UNCHANGED <<journalVars, task, runs>>
        /\ Become(p, "audit", o) /\ "audit" \in Steps
    BY <1>1, <1>2, <1>3 DEF Issue, Revoke, Steps
  <1>5. todo \in Seq(Entry) /\ todo # <<>> /\ Plain(todo)
    <2>1. Event(name, t) \in Entry
      BY KernelAssumption DEF Entry, EventKinds, Tokens
    <2>2. Plain(todo)
      BY <1>2, PlainEvents
    <2> HIDE DEF Entry
    <2> QED BY <1>2, <2>1, <2>2
  <1>6. o \in Operation /\ o.task = None /\ o.kind = kind /\ o.todo = todo
    <2>1. t \in Nat /\ kind \in OpKinds
      BY KernelAssumption DEF Tokens, OpKinds
    <2> QED BY <1>3, <1>5, <2>1, NoOpType DEF Operation, NoOp
  <1>7. Well("audit", o)
    BY <1>5, <1>6 DEF Well
  <1>8. op[p].task = None
    BY <1>4 DEF TrailInv, Well
  <1> QED BY <1>4, <1>6, <1>7, <1>8, NoTaskStep

\* A generation is revoked: no task has part in it.
LEMMA GenerationTrail ==
    ASSUME Types, TrailInv, NEW p \in Callers, NEW below \in Belows, RevokeGeneration(p, below)
    PROVE  TrailInv'
  <1>1. PICK o : o = [NoOp EXCEPT !.kind = "generation", !.below = below]
    OBVIOUS
  <1>2. /\ pc[p] = "idle" /\ UNCHANGED <<journalVars, task, runs>>
        /\ Become(p, "forward", o) /\ "forward" \in Steps
    BY <1>1 DEF RevokeGeneration, Steps
  <1>3. o \in Operation /\ o.task = None /\ o.kind = "generation"
    BY <1>1, NoOpType, KernelAssumption DEF NoOp, Operation, OpKinds
  <1>4. Well("forward", o)
    BY <1>3 DEF Well
  <1>5. op[p].task = None
    BY <1>2 DEF TrailInv, Well
  <1> QED BY <1>2, <1>3, <1>4, <1>5, NoTaskStep

\* The counter is moved: no task has part in it.
LEMMA ForwardTrail ==
    ASSUME Types, TrailInv, NEW p \in Callers, Forward(p)
    PROVE  TrailInv'
  <1>1. /\ pc[p] = "forward" /\ UNCHANGED <<journalVars, task, runs>>
        /\ Become(p, "idle", NoOp) /\ "idle" \in Steps
    BY DEF Forward, Steps
  <1>2. op[p].task = None
    BY <1>1 DEF TrailInv, Well
  <1> QED BY <1>1, <1>2, NoOpType, WellNoOp, NoTaskStep

\* An operation on a plane begins: it has no task.
LEMMA RequestTrail ==
    ASSUME Types, TrailInv, NEW p \in Callers, NEW t \in Tokens,
           NEW kind \in {"authorize", "plane", "connector"}, Request(p, kind, t)
    PROVE  TrailInv'
  <1>1. PICK live \in BOOLEAN : live = (t \notin dead)
    OBVIOUS
  <1>2. PICK o : o = [NoOp EXCEPT !.kind = kind, !.token = t, !.live = live]
    OBVIOUS
  <1>3. /\ pc[p] = "idle" /\ UNCHANGED <<journalVars, task, runs>>
        /\ Become(p, "revoked?", o) /\ "revoked?" \in Steps
    BY <1>1, <1>2 DEF Request, Steps
  <1>4. o \in Operation /\ o.task = None /\ o.kind = kind
    <2>1. t \in Nat /\ kind \in OpKinds
      BY KernelAssumption DEF Tokens, OpKinds
    <2> QED BY <1>1, <1>2, <2>1, NoOpType DEF Operation, NoOp
  <1>5. Well("revoked?", o)
    BY <1>4 DEF Well
  <1>6. op[p].task = None
    BY <1>3 DEF TrailInv, Well
  <1> QED BY <1>3, <1>4, <1>5, <1>6, NoTaskStep

\* A task that is Runnable, and so with nobody, gets its caller.
LEMMA SuperviseTrail ==
    ASSUME Types, TrailInv, NEW p \in Callers, NEW t \in Tokens, NEW k \in Tasks,
           Supervise(p, t, k)
    PROVE  TrailInv'
  <1>1. PICK live \in BOOLEAN : live = (t \notin dead)
    OBVIOUS
  <1>2. PICK o : o = [NoOp EXCEPT !.kind = "task", !.token = t, !.task = k, !.live = live]
    OBVIOUS
  <1>3. /\ pc[p] = "idle" /\ UNCHANGED <<journalVars, runs>>
        /\ Become(p, "revoked?", o) /\ "revoked?" \in Steps
        /\ task[k] = "Runnable" /\ task' = [task EXCEPT ![k] = "InReply"]
    BY <1>1, <1>2 DEF Supervise, Steps
  <1>4. o \in Operation /\ o.task = k /\ o.kind = "task"
    <2>1. t \in Nat /\ "task" \in OpKinds
      BY KernelAssumption DEF Tokens, OpKinds
    <2> QED BY <1>1, <1>2, <2>1, NoOpType DEF Operation, NoOp
  <1>5. Well("revoked?", o) /\ ~Ran("revoked?", o)
    BY <1>4, KernelAssumption DEF Well, Ran
  <1>6. op[p].task = None /\ None \notin Tasks
    BY <1>3, KernelAssumption DEF TrailInv, Well
  <1>7. /\ task' \in [Tasks -> TaskStates] /\ runs' \in [Tasks -> {0, 1}]
        /\ task'[k] = "InReply" /\ \A j \in Tasks : j # k => task'[j] = task[j]
    BY <1>3 DEF TrailInv, TaskStates
  <1>8. runs[k] = 0
    BY <1>3 DEF TrailInv, TaskTrue
  <1> QED BY <1>3, <1>4, <1>5, <1>6, <1>7, <1>8, QuietStep

\* A denial: the adapter has not been called and will not be.
LEMMA DenyTrail ==
    ASSUME Types, TrailInv, NEW p \in Callers, UNCHANGED <<journalVars, task, runs>>,
           Deny(p), ~Ran(pc[p], op[p])
    PROVE  TrailInv'
  <1>1. PICK todo : todo = <<Event("AuthorizationDenied", op[p].token)>>
    OBVIOUS
  <1>2. PICK o : o = [op[p] EXCEPT !.todo = todo, !.ok = FALSE]
    OBVIOUS
  <1>3. op[p] \in Operation
    BY DEF Types
  <1>4. todo \in Seq(Entry) /\ todo # <<>> /\ Plain(todo)
    <2>1. Event("AuthorizationDenied", op[p].token) \in Entry
      BY <1>3 DEF Operation, Entry, EventKinds
    <2>2. Plain(todo)
      BY <1>1, PlainEvents
    <2> HIDE DEF Entry
    <2> QED BY <1>1, <2>1, <2>2
  <1>5. /\ o \in Operation /\ ~o.ok /\ o.todo = todo
        /\ o.task = op[p].task /\ o.kind = op[p].kind
    BY <1>2, <1>3, <1>4 DEF Operation
  <1>6. Become(p, "audit", o) /\ "audit" \in Steps
    BY <1>1, <1>2 DEF Deny, Steps
  <1>7. Well("audit", o) /\ ~Ran("audit", o)
    BY <1>4, <1>5 DEF Well, Ran, TrailInv
  <1> QED BY <1>5, <1>6, <1>7, SameTaskStep

\* The first check of authorize.
LEMMA CheckTokenTrail ==
    ASSUME Types, TrailInv, NEW p \in Callers, CheckToken(p)
    PROVE  TrailInv'
  <1>1. pc[p] = "revoked?" /\ UNCHANGED <<journalVars, task, runs>> /\ op[p] \in Operation
    BY DEF CheckToken, Types
  <1>2. ~Ran(pc[p], op[p]) /\ ~Ran("generation?", op[p])
    BY <1>1 DEF Ran
  <1>3. CASE op[p].token \in revoked
    BY <1>1, <1>2, <1>3, DenyTrail DEF CheckToken
  <1>4. CASE op[p].token \notin revoked
    <2>1. Become(p, "generation?", op[p]) /\ "generation?" \in Steps
      BY <1>4 DEF CheckToken, Steps
    <2>2. Well("generation?", op[p])
      BY DEF TrailInv, Well
    <2> QED BY <1>1, <1>2, <2>1, <2>2, SameTaskStep
  <1> QED BY <1>3, <1>4

\* What an operation that went well is to record.
LEMMA TrailFacts ==
    ASSUME NEW o \in Operation, Well("run", o)
    PROVE  /\ Trail(o) # <<>>
           /\ o.kind = "task" => Trail(o) = <<Dispatched(o.task)>>
           /\ o.kind # "task" => Plain(Trail(o))
  <1>1. CASE o.kind = "task"
    BY <1>1 DEF Trail, Dispatched
  <1>2. CASE o.kind = "connector"
    <2>1. Trail(o) = <<Event("ConnectorInvoked", o.token), Event("PlaneInvoked", o.token)>>
      BY <1>2 DEF Trail
    <2>2. Plain(Trail(o))
      BY <2>1 DEF Plain, Event, Dispatched
    <2> QED BY <1>2, <2>1, <2>2
  <1>3. CASE o.kind \notin {"task", "connector"}
    <2>1. Trail(o) = <<Event("PlaneInvoked", o.token)>>
      BY <1>3 DEF Trail
    <2>2. Plain(Trail(o))
      BY <2>1, PlainEvents
    <2> QED BY <1>3, <2>1, <2>2
  <1> QED BY <1>1, <1>2, <1>3

\* An operation goes on to record with Ok in hand: its task has run, or it has
\* none.
LEMMA SucceedTrail ==
    ASSUME Types, TrailInv, NEW p \in Callers, UNCHANGED <<journalVars, task, runs>>,
           Become(p, "audit", [op[p] EXCEPT !.todo = Trail(op[p]), !.ok = TRUE]),
           Ran(pc[p], op[p]) \/ op[p].kind # "task"
    PROVE  TrailInv'
  <1>1. PICK todo : todo = Trail(op[p])
    OBVIOUS
  <1>2. PICK o : o = [op[p] EXCEPT !.todo = todo, !.ok = TRUE]
    OBVIOUS
  <1>3. op[p] \in Operation /\ Well(pc[p], op[p])
    BY DEF Types, TrailInv
  <1>4. todo \in Seq(Entry)
    BY <1>1, <1>3, TrailType
  <1>5. /\ o \in Operation /\ o.ok /\ o.todo = todo
        /\ o.task = op[p].task /\ o.kind = op[p].kind
    BY <1>2, <1>3, <1>4 DEF Operation
  <1>6. Become(p, "audit", o) /\ "audit" \in Steps
    BY <1>1, <1>2 DEF Steps
  <1>7. /\ todo # <<>>
        /\ op[p].kind = "task" => todo = <<Dispatched(op[p].task)>>
        /\ op[p].kind # "task" => Plain(todo)
    <2>1. Well("run", op[p])
      BY <1>3 DEF Well
    <2> QED BY <1>1, <1>3, <2>1, TrailFacts
  <1>8. Well("audit", o) /\ Ran("audit", o)
    BY <1>3, <1>5, <1>7 DEF Well, Ran
  <1>9. CASE Ran(pc[p], op[p])
    BY <1>5, <1>6, <1>8, <1>9, SameTaskStep
  <1>10. CASE op[p].kind # "task"
    <2>1. op[p].task = None /\ o.task = None
      BY <1>3, <1>5, <1>10 DEF Well
    <2> QED BY <1>5, <1>6, <1>8, <2>1, NoTaskStep
  <1> QED BY <1>9, <1>10

\* The second check: a task that passes is run, for the first time.
LEMMA CheckGenerationTrail ==
    ASSUME Types, TrailInv, NEW p \in Callers, CheckGeneration(p)
    PROVE  TrailInv'
  <1>1. pc[p] = "generation?" /\ UNCHANGED <<journalVars, task>> /\ op[p] \in Operation
    BY DEF CheckGeneration, Types
  <1>2. ~Ran(pc[p], op[p])
    BY <1>1 DEF Ran
  <1>3. CASE Deny(p) /\ UNCHANGED runs
    BY <1>1, <1>2, <1>3, DenyTrail
  <1>4. CASE /\ op[p].kind = "authorize" /\ UNCHANGED runs
             /\ Become(p, "audit", [op[p] EXCEPT !.todo = Trail(op[p]), !.ok = TRUE])
    BY <1>1, <1>4, SucceedTrail
  <1>5. CASE /\ Become(p, "run", op[p])
             /\ runs' = [k \in Tasks |-> IF k = op[p].task THEN runs[k] + 1 ELSE runs[k]]
    <2>1. Well("run", op[p]) /\ Ran("run", op[p]) /\ "run" \in Steps
      BY DEF TrailInv, Well, Ran, Steps
    <2>2. ASSUME NEW k \in Tasks, op[p].task = k
          PROVE  task[k] = "InReply" /\ runs[k] = 0 /\ runs'[k] = 1
      <3>1. Owned(k, p)
        BY DEF TrailInv, TaskTrue
      <3>2. task[k] = "InReply" /\ runs[k] = 0
        BY <1>2, <2>2, <3>1 DEF Owned
      <3> QED BY <1>5, <2>2, <3>2
    <2>3. \A k \in Tasks : op[p].task # k => runs'[k] = runs[k]
      BY <1>5
    <2>4. runs' \in [Tasks -> {0, 1}] /\ task' \in [Tasks -> TaskStates]
      <3>1. \A k \in Tasks : runs'[k] \in {0, 1}
        BY <2>2, <2>3 DEF TrailInv
      <3>2. runs' = [k \in Tasks |-> runs'[k]]
        BY <1>5
      <3> QED BY <1>1, <3>1, <3>2 DEF TrailInv
    <2> QED BY <1>1, <1>5, <2>1, <2>2, <2>3, <2>4, QuietStep
  <1>6. \/ Deny(p) /\ UNCHANGED runs
        \/ /\ op[p].kind = "authorize" /\ UNCHANGED runs
           /\ Become(p, "audit", [op[p] EXCEPT !.todo = Trail(op[p]), !.ok = TRUE])
        \/ /\ Become(p, "run", op[p])
           /\ runs' = [k \in Tasks |-> IF k = op[p].task THEN runs[k] + 1 ELSE runs[k]]
    BY Zenon DEF CheckGeneration
  <1> QED BY <1>3, <1>4, <1>5, <1>6

\* A caller leaves its operation without an entry of its task.
LEMMA LeaveTrail ==
    ASSUME Types, TrailInv, NEW p \in Callers, Become(p, "idle", NoOp),
           \A k \in Tasks : Entries(k)' = Entries(k),
           Intact' => Intact, UNCHANGED <<damaged, runs>>,
           task' \in [Tasks -> TaskStates],
           \A k \in Tasks : op[p].task # k => task'[k] = task[k],
           \A k \in Tasks : op[p].task = k =>
               \/ task'[k] \in {"InReply", "Faulted"}
               \/ task'[k] = "Completed" /\ ~Intact'
    PROVE  TrailInv'
  <1>1. \A k \in Tasks : NoOp.task # k
    BY WellNoOp, KernelAssumption
  <1>2. "idle" \in Steps /\ NoOp \in Operation /\ Well("idle", NoOp)
    BY NoOpType, WellNoOp DEF Steps
  <1>3. runs' \in [Tasks -> {0, 1}]
    BY DEF TrailInv
  <1>4. CallerMoves(p, "idle", NoOp)
    BY <1>1, <1>2, <1>3 DEF CallerMoves
  <1> QED BY <1>4, CallerStep

\* What Finish does to the task.
LEMMA FinishFacts ==
    ASSUME TrailInv, NEW p \in Callers, NEW ok, Finish(p, ok)
    PROVE  /\ Become(p, "idle", NoOp)
           /\ task' \in [Tasks -> TaskStates]
           /\ \A k \in Tasks : op[p].task # k => task'[k] = task[k]
           /\ \A k \in Tasks : op[p].task = k =>
                 task'[k] = IF ok THEN "Completed" ELSE "Faulted"
  <1>1. task' = [k \in Tasks |-> IF k # op[p].task THEN task[k]
                                 ELSE IF ok THEN "Completed" ELSE "Faulted"]
    BY DEF Finish
  <1>2. \A k \in Tasks : task[k] \in TaskStates
    BY DEF TrailInv
  <1>3. task' \in [Tasks -> TaskStates]
    BY <1>1, <1>2 DEF TaskStates
  <1>4. Become(p, "idle", NoOp)
    BY DEF Finish
  <1> QED BY <1>1, <1>3, <1>4

\* The pack forbids the operation.
LEMMA RefuseTrail ==
    ASSUME Types, TrailInv, NEW p \in Callers, Refuse(p)
    PROVE  TrailInv'
  <1>1. UNCHANGED <<journalVars, runs>> /\ Finish(p, FALSE)
    BY DEF Refuse
  <1>2. /\ UNCHANGED damaged
        /\ \A k \in Tasks : Entries(k)' = Entries(k)
        /\ Intact' => Intact
    BY <1>1 DEF journalVars, histories, Entries, Intact
  <1>3. /\ Become(p, "idle", NoOp)
        /\ task' \in [Tasks -> TaskStates]
        /\ \A k \in Tasks : op[p].task # k => task'[k] = task[k]
        /\ \A k \in Tasks : op[p].task = k =>
              task'[k] = IF FALSE THEN "Completed" ELSE "Faulted"
    BY <1>1, FinishFacts
  <1> QED BY <1>1, <1>2, <1>3, LeaveTrail

\* The adapter answers, fails, or is abandoned.
LEMMA AnswerTrail ==
    ASSUME Types, TrailInv, NEW p \in Callers, Answer(p) \/ Abandon(p)
    PROVE  TrailInv'
  <1>1. pc[p] = "run" /\ UNCHANGED <<journalVars, runs>>
    BY DEF Answer, Abandon
  <1>2. /\ UNCHANGED damaged
        /\ \A k \in Tasks : Entries(k)' = Entries(k)
        /\ Intact' => Intact
    BY <1>1 DEF journalVars, histories, Entries, Intact
  <1>3. CASE /\ Become(p, "audit", [op[p] EXCEPT !.todo = Trail(op[p]), !.ok = TRUE])
             /\ UNCHANGED <<held, task>>
    <2>1. Ran(pc[p], op[p])
      BY <1>1 DEF Ran
    <2> QED BY <1>1, <1>3, <2>1, SucceedTrail
  <1>4. CASE Finish(p, FALSE)
    <2>1. /\ Become(p, "idle", NoOp)
          /\ task' \in [Tasks -> TaskStates]
          /\ \A k \in Tasks : op[p].task # k => task'[k] = task[k]
          /\ \A k \in Tasks : op[p].task = k =>
                task'[k] = IF FALSE THEN "Completed" ELSE "Faulted"
      BY <1>4, FinishFacts
    <2> QED BY <1>1, <1>2, <2>1, LeaveTrail
  <1>5. CASE Abandon(p)
    <2>1. Become(p, "idle", NoOp) /\ UNCHANGED task
      BY <1>5 DEF Abandon
    <2>2. task' \in [Tasks -> TaskStates] /\ \A k \in Tasks : op[p].task = k => task'[k] = "InReply"
      BY <2>1 DEF TrailInv, TaskTrue, Owned
    <2> QED BY <1>1, <1>2, <2>1, <2>2, LeaveTrail
  <1> QED BY <1>3, <1>4, <1>5 DEF Answer

\* The entries of a task after one more line.
LEMMA EntriesAppend ==
    ASSUME NEW w, IsSeq(w), NEW e, NEW k
    PROVE  /\ e # Dispatched(k) => EntriesOf(Append(w, e), k) = EntriesOf(w, k)
           /\ e = Dispatched(k) => EntriesOf(Append(w, e), k) = EntriesOf(w, k) \cup {Len(w) + 1}
  <1>1. PICK n \in Nat : n = Len(w)
    BY SeqFacts
  <1>2. PICK t : t = Append(w, e)
    OBVIOUS
  <1>3. /\ Len(t) = n + 1 /\ t[n + 1] = e
        /\ \A i \in 1..n : t[i] = w[i]
        /\ \A i \in 1..(n + 1) : i \in 1..n \/ i = n + 1
    BY <1>1, <1>2, AppendFacts
  <1>4. n + 1 \in 1..(n + 1) /\ \A i \in 1..n : i \in 1..(n + 1)
    BY <1>1
  <1> QED BY <1>1, <1>2, <1>3, <1>4 DEF EntriesOf

\* A line of anything else leaves the entries of every task alone.
LEMMA OtherEntries ==
    ASSUME JournalInv, NEW e,
           written' = written \/ written' = Append(written, e),
           \A k \in Tasks : e # Dispatched(k)
    PROVE  \A k \in Tasks : Entries(k)' = Entries(k)
  <1> SUFFICES ASSUME NEW k \in Tasks PROVE Entries(k)' = Entries(k)
    OBVIOUS
  <1>1. CASE written' = written
    BY <1>1 DEF Entries
  <1>2. CASE written' = Append(written, e)
    <2>1. IsSeq(written) /\ e # Dispatched(k)
      BY DEF JournalInv
    <2>2. EntriesOf(Append(written, e), k) = EntriesOf(written, k)
      BY <2>1, EntriesAppend
    <2> QED BY <1>2, <2>2 DEF Entries
  <1> QED BY <1>1, <1>2

\* Neither a cut line nor one of an older release is an entry of a task.
LEMMA NoneNoEntry == \A k \in Tasks : None # Dispatched(k) /\ Legacy # Dispatched(k)
  BY KernelAssumption, JournalAssumption DEF Dispatched, KernelEvents

\* What record does to the trail, whether or not it succeeds.
LEMMA RecordEntries ==
    ASSUME JournalInv, NEW e, RecordOk(Self, e) \/ RecordFails(Self, e),
           \A k \in Tasks : e # Dispatched(k)
    PROVE  /\ \A k \in Tasks : Entries(k)' = Entries(k)
           /\ Intact' => Intact
           /\ UNCHANGED damaged
  <1>1. CASE RecordOk(Self, e)
    <2>1. /\ Intact' => Intact
          /\ written' = written \/ written' = Append(written, e)
          /\ UNCHANGED damaged
      BY <1>1, RecordOkJournal DEF Continues
    <2> QED BY <2>1, OtherEntries
  <1>2. CASE RecordFails(Self, e)
    <2>1. /\ Intact' => Intact
          /\ \/ written' = written
             \/ written' = Append(written, None)
             \/ written' = Append(written, e)
          /\ UNCHANGED damaged
      BY <1>2, RecordFailsJournal
    <2> QED BY <2>1, OtherEntries, NoneNoEntry
  <1> QED BY <1>1, <1>2

\* An operation records something that is no entry of a task.
LEMMA PlainAuditTrail ==
    ASSUME Types, JournalInv, TrailInv, NEW p \in Callers, Audit(p),
           ~(op[p].kind = "task" /\ op[p].ok)
    PROVE  TrailInv'
  <1>1. pc[p] = "audit" /\ UNCHANGED runs
    BY DEF Audit
  <1>2. op[p] \in Operation /\ Well("audit", op[p])
    BY <1>1 DEF Types, TrailInv
  <1>3. op[p].todo \in Seq(Entry) /\ op[p].todo # <<>> /\ Plain(op[p].todo)
    BY <1>2 DEF Operation, Well
  <1>4. PICK todo : todo = op[p].todo
    OBVIOUS
  <1>5. todo \in Seq(Entry) /\ todo # <<>> /\ Plain(todo)
    BY <1>3, <1>4
  <1>6. \A k \in Tasks : Head(todo) # Dispatched(k)
    <2>1. 1 \in DOMAIN todo /\ Head(todo) = todo[1]
      <3> HIDE DEF Entry
      <3> QED BY <1>5
    <2> QED BY <1>5, <2>1 DEF Plain
  <1>7. /\ \A k \in Tasks : Entries(k)' = Entries(k)
        /\ Intact' => Intact
        /\ UNCHANGED damaged
    <2>1. RecordOk(Self, Head(todo)) \/ RecordFails(Self, Head(todo))
      BY <1>4, Zenon DEF Audit
    <2> QED BY <1>6, <2>1, RecordEntries
  <1>8. CASE /\ Len(todo) > 1 /\ UNCHANGED task
             /\ Become(p, "audit", [op[p] EXCEPT !.todo = Tail(todo)])
    <2>1. PICK rest : rest = Tail(todo)
      OBVIOUS
    <2>2. rest \in Seq(Entry) /\ rest # <<>> /\ Plain(rest)
      <3>1. /\ rest \in Seq(Entry) /\ rest # <<>>
            /\ \A i \in DOMAIN rest : i + 1 \in DOMAIN todo /\ rest[i] = todo[i + 1]
        <4> HIDE DEF Entry
        <4> QED BY <1>5, <1>8, <2>1
      <3> QED BY <1>5, <3>1 DEF Plain
    <2>3. PICK o : o = [op[p] EXCEPT !.todo = rest]
      OBVIOUS
    <2>4. /\ o \in Operation /\ o.todo = rest /\ o.ok = op[p].ok
          /\ o.task = op[p].task /\ o.kind = op[p].kind
      BY <1>2, <2>2, <2>3 DEF Operation
    <2>5. Become(p, "audit", o) /\ "audit" \in Steps
      BY <1>8, <2>1, <2>3 DEF Steps
    <2>6. Well("audit", o) /\ (Ran("audit", o) <=> Ran(pc[p], op[p]))
      BY <1>1, <1>2, <2>2, <2>4 DEF Well, Ran
    <2>7. ASSUME NEW k \in Tasks, o.task = k
          PROVE  /\ op[p].task = k /\ task'[k] = "InReply"
                 /\ runs'[k] = IF Ran("audit", o) THEN 1 ELSE 0
      <3>1. Owned(k, p)
        BY DEF TrailInv, TaskTrue
      <3> QED BY <1>1, <1>8, <2>4, <2>6, <2>7, <3>1 DEF Owned
    <2>8. runs' \in [Tasks -> {0, 1}] /\ task' \in [Tasks -> TaskStates]
      BY <1>1, <1>8 DEF TrailInv
    <2>9. CallerMoves(p, "audit", o)
      BY <1>1, <1>7, <1>8, <2>4, <2>5, <2>6, <2>7, <2>8 DEF CallerMoves
    <2> QED BY <2>9, CallerStep
  <1>9. ASSUME NEW ok, Finish(p, ok), ok => op[p].ok PROVE TrailInv'
    <2>1. /\ Become(p, "idle", NoOp)
          /\ task' \in [Tasks -> TaskStates]
          /\ \A k \in Tasks : op[p].task # k => task'[k] = task[k]
          /\ \A k \in Tasks : op[p].task = k =>
                task'[k] = IF ok THEN "Completed" ELSE "Faulted"
      BY <1>9, FinishFacts
    <2>2. \A k \in Tasks : op[p].task = k => task'[k] = "Faulted"
      <3>1. \A k \in Tasks : op[p].task = k => op[p].kind = "task"
        BY <1>2, KernelAssumption DEF Well
      <3> QED BY <1>9, <2>1, <3>1
    <2> QED BY <1>1, <1>7, <2>1, <2>2, LeaveTrail
  <1>10. \/ /\ Len(todo) > 1 /\ UNCHANGED task
            /\ Become(p, "audit", [op[p] EXCEPT !.todo = Tail(todo)])
         \/ Finish(p, op[p].ok)
         \/ Finish(p, FALSE)
    BY <1>4, Zenon DEF Audit
  <1> QED BY <1>8, <1>9, <1>10

\* A task that has run is recorded, or its record is lost with its result.
LEMMA TaskAuditTrail ==
    ASSUME Types, JournalInv, TrailInv, NEW p \in Callers, Audit(p),
           op[p].kind = "task", op[p].ok
    PROVE  TrailInv'
  <1>1. pc[p] = "audit" /\ UNCHANGED runs /\ op[p] \in Operation /\ Well("audit", op[p])
    BY DEF Audit, Types, TrailInv
  <1>2. PICK c \in Tasks : c = op[p].task
    BY <1>1 DEF Well, Operation
  <1>3. op[p].todo = <<Dispatched(c)>>
    BY <1>1, <1>2 DEF Well
  <1>4. ~(Len(op[p].todo) > 1) /\ Head(op[p].todo) = Dispatched(c)
    BY <1>3
  <1>5. /\ runs[c] = 1 /\ Entries(c) = {}
        /\ \A q \in Callers : q # p => op[q].task # c
    <2>1. TaskTrue(c) /\ Owned(c, p) /\ Ran(pc[p], op[p])
      BY <1>1 DEF TrailInv, TaskTrue, Ran
    <2>2. runs[c] = 1 /\ Entries(c) = {}
      BY <1>2, <2>1 DEF Owned
    <2> QED BY <1>2, <2>1, <2>2 DEF TaskTrue
  <1>6. ASSUME /\ written' = Append(written, Dispatched(c)) /\ (Intact' => Intact)
               /\ UNCHANGED damaged /\ Become(p, "idle", NoOp)
               /\ task' \in [Tasks -> TaskStates]
               /\ \A k \in Tasks : op[p].task # k => task'[k] = task[k]
               /\ \A k \in Tasks : op[p].task = k => task'[k] \in {"Completed", "Faulted"}
        PROVE  TrailInv'
    <2>1. /\ \A k \in Tasks : k # c => Entries(k)' = Entries(k)
          /\ Entries(c)' = Entries(c) \cup {Len(written) + 1}
      <3>1. \A k \in Tasks : k # c => Dispatched(c) # Dispatched(k)
        BY <1>2 DEF Dispatched, Event
      <3> QED BY <1>6, <3>1, EntriesAppend DEF JournalInv, Entries
    <2>2. /\ pc'[p] = "idle" /\ op'[p] = NoOp
          /\ \A q \in Callers : q # p => pc'[q] = pc[q] /\ op'[q] = op[q]
      BY <1>6, NoOpType, BecomeFacts DEF Steps
    <2>3. ASSUME NEW q \in Callers PROVE Well(pc'[q], op'[q])
      <3>1. CASE q = p
        BY <2>2, <3>1, WellNoOp
      <3>2. CASE q # p
        BY <2>2, <3>2 DEF TrailInv
      <3> QED BY <3>1, <3>2
    <2>4. NoOp.task = None /\ None \notin Tasks
      BY WellNoOp, KernelAssumption
    <2>5. ASSUME NEW k \in Tasks, k # c PROVE TaskTrue(k)'
      <3>1. /\ TaskTrue(k) /\ Entries(k)' = Entries(k)
            /\ task'[k] = task[k] /\ runs'[k] = runs[k]
        BY <1>1, <1>2, <1>6, <2>1, <2>5 DEF TrailInv
      <3>2. \A q \in Callers : op'[q].task = k =>
               op[q].task = k /\ pc'[q] = pc[q] /\ op'[q] = op[q]
        BY <2>2, <2>4, <2>5
      <3>3. \A q \in Callers : Owned(k, q)'
        BY <3>1, <3>2 DEF TaskTrue, Owned
      <3>4. \A q, r \in Callers : op'[q].task = k /\ op'[r].task = k => q = r
        BY <3>1, <3>2 DEF TaskTrue
      <3> QED BY <1>6, <3>1, <3>3, <3>4 DEF TaskTrue
    <2>6. TaskTrue(c)'
      <3>1. Entries(c)' = {Len(written) + 1} /\ runs'[c] = 1 /\ task'[c] \in {"Completed", "Faulted"}
        BY <1>1, <1>2, <1>5, <1>6, <2>1
      <3>2. \A q \in Callers : op'[q].task # c
        BY <1>5, <2>2, <2>4
      <3>3. \A q \in Callers : Owned(c, q)'
        BY <3>2 DEF Owned
      <3> QED BY <3>1, <3>2, <3>3 DEF TaskTrue
    <2>7. runs' \in [Tasks -> {0, 1}]
      BY <1>1 DEF TrailInv
    <2> QED BY <1>6, <2>3, <2>5, <2>6, <2>7 DEF TrailInv
  <1>7. CASE RecordFails(Self, Dispatched(c)) /\ Finish(p, FALSE)
    <2>1. /\ Intact' => Intact
          /\ \/ written' = written \/ written' = Append(written, None)
             \/ written' = Append(written, Dispatched(c))
          /\ UNCHANGED damaged
      BY <1>7, RecordFailsJournal
    <2>2. /\ Become(p, "idle", NoOp)
          /\ task' \in [Tasks -> TaskStates]
          /\ \A k \in Tasks : op[p].task # k => task'[k] = task[k]
          /\ \A k \in Tasks : op[p].task = k =>
                task'[k] = IF FALSE THEN "Completed" ELSE "Faulted"
      BY <1>7, FinishFacts
    <2>3. CASE written' = written \/ written' = Append(written, None)
      <3>1. \A k \in Tasks : Entries(k)' = Entries(k)
        BY <2>3, OtherEntries, NoneNoEntry
      <3> QED BY <1>1, <2>1, <2>2, <3>1, LeaveTrail
    <2>4. CASE written' = Append(written, Dispatched(c))
      BY <1>6, <2>1, <2>2, <2>4
    <2> QED BY <2>1, <2>3, <2>4
  <1>8. CASE RecordOk(Self, Dispatched(c)) /\ Finish(p, op[p].ok)
    <2>1. /\ Intact' => Intact /\ written' = Append(written, Dispatched(c))
          /\ written' = written \/ written' = Append(written, Dispatched(c))
          /\ UNCHANGED damaged
      BY <1>8, RecordOkJournal DEF Continues
    <2>2. /\ Become(p, "idle", NoOp)
          /\ task' \in [Tasks -> TaskStates]
          /\ \A k \in Tasks : op[p].task # k => task'[k] = task[k]
          /\ \A k \in Tasks : op[p].task = k =>
                task'[k] = IF op[p].ok THEN "Completed" ELSE "Faulted"
      BY <1>8, FinishFacts
    <2>3. CASE written' = written
      <3>1. \A k \in Tasks : Entries(k)' = Entries(k)
        BY <2>3 DEF Entries
      <3>2. ~Intact'
        <4>1. Len(Append(written, Dispatched(c))) # Len(written)
          BY AppendFacts DEF JournalInv
        <4> QED BY <2>1, <2>3, <4>1
      <3>3. \A k \in Tasks : op[p].task = k => task'[k] = "Completed"
        BY <2>2
      <3> QED BY <1>1, <2>1, <2>2, <3>1, <3>2, <3>3, LeaveTrail
    <2>4. CASE written' = Append(written, Dispatched(c))
      BY <1>6, <2>1, <2>2, <2>4
    <2> QED BY <2>1, <2>3, <2>4
  <1>9. \/ RecordFails(Self, Dispatched(c)) /\ Finish(p, FALSE)
        \/ RecordOk(Self, Dispatched(c)) /\ Finish(p, op[p].ok)
    BY <1>4, Zenon DEF Audit
  <1> QED BY <1>7, <1>8, <1>9

\* The journal may lose entries, but not while it is intact.
NoNewEntry ==
    /\ \A k \in Tasks : Entries(k)' \subseteq Entries(k)
    /\ Intact' /\ ~damaged' =>
          Intact /\ ~damaged /\ \A k \in Tasks : Entries(k)' = Entries(k)

\* A step of the journal alone.
LEMMA JournalTrail ==
    ASSUME TrailInv, NoNewEntry, UNCHANGED <<pc, op, task, runs>>
    PROVE  TrailInv'
  <1>1. ASSUME NEW k \in Tasks PROVE TaskTrue(k)'
    <2>1. /\ TaskTrue(k) /\ Entries(k)' \subseteq Entries(k)
          /\ Intact' /\ ~damaged' => Intact /\ ~damaged /\ Entries(k)' = Entries(k)
      BY DEF TrailInv, NoNewEntry
    <2>2. \A p \in Callers : Owned(k, p)'
      <3>1. \A p \in Callers : Owned(k, p)
        BY <2>1 DEF TaskTrue
      <3> QED BY <2>1, <3>1 DEF Owned
    <2> QED BY <2>1, <2>2 DEF TaskTrue
  <1> QED BY <1>1 DEF TrailInv

\* The process ends: no caller is left, and a task it was in is gone.
LEMMA HaltTrail == ASSUME TrailInv, Halt PROVE TrailInv'
  <1>1. /\ UNCHANGED <<journal, written, damaged, runs>>
        /\ task' = [k \in Tasks |-> IF task[k] = "InReply" THEN "Gone" ELSE task[k]]
        /\ pc' = [p \in Callers |-> "idle"]
        /\ op' = [p \in Callers |-> NoOp]
    BY DEF Halt, Close
  <1>2. /\ \A k \in Tasks : Entries(k)' = Entries(k)
        /\ Intact' <=> Intact
    BY <1>1 DEF Entries, Intact
  <1>3. \A p \in Callers : Well(pc'[p], op'[p])
    BY <1>1, WellNoOp
  <1>4. \A p \in Callers, k \in Tasks : op'[p].task # k
    BY <1>1, WellNoOp, KernelAssumption
  <1>5. ASSUME NEW k \in Tasks PROVE TaskTrue(k)'
    <2>1. TaskTrue(k) /\ Entries(k)' = Entries(k)
      BY <1>2 DEF TrailInv
    <2>2. \A p \in Callers : Owned(k, p)'
      BY <1>4 DEF Owned
    <2>3. task'[k] \in {"Runnable", "Completed"} => task[k] = task'[k]
      BY <1>1
    <2> QED BY <1>1, <1>2, <1>4, <2>1, <2>2, <2>3 DEF TaskTrue
  <1>6. runs' \in [Tasks -> {0, 1}] /\ task' \in [Tasks -> TaskStates]
    BY <1>1 DEF TrailInv, TaskStates
  <1> QED BY <1>3, <1>5, <1>6 DEF TrailInv

\* A change from outside can only take an entry away.
LEMMA DamageTrail ==
    ASSUME JournalInv, TrailInv, NEW i \in 1..Len(journal), DamageJournal(i)
    PROVE  TrailInv'
  <1>1. damaged' /\ written' = [written EXCEPT ![i] = Legacy]
    BY DamageJournalKeeps DEF DamageJournal
  <1>2. IsSeq(written) /\ i \in 1..Len(written)
    BY DEF JournalInv
  <1>3. Changed(written, written', i, Legacy)
    BY <1>1, <1>2, ExceptFacts
  <1>4. \A k \in Tasks : Entries(k)' \subseteq Entries(k)
    BY <1>3, NoneNoEntry DEF Changed, Entries, EntriesOf
  <1> QED BY <1>1, <1>4, JournalTrail DEF NoNewEntry, DamageJournal, kernelVars

\* Tasks that are Runnable and a journal without entries.
LEMMA InitTrail == KernelInit => TrailInv
  <1> SUFFICES ASSUME KernelInit PROVE TrailInv
    OBVIOUS
  <1>1. /\ task = [k \in Tasks |-> "Runnable"] /\ runs = [k \in Tasks |-> 0]
        /\ pc = [p \in Callers |-> "idle"] /\ op = [p \in Callers |-> NoOp]
    BY DEF KernelInit
  <1>2. PICK n \in 0..MaxLegacy : written = [i \in 1..n |-> Legacy]
    BY DEF KernelInit, JournalInit
  <1>3. ASSUME NEW k \in Tasks PROVE Entries(k) = {}
    <2>1. n \in Nat
      BY JournalAssumption
    <2>2. Len(written) = n /\ \A i \in 1..n : written[i] = Legacy
      BY <1>2, <2>1
    <2> QED BY <2>2, NoneNoEntry DEF Entries, EntriesOf
  <1>4. \A p \in Callers : Well(pc[p], op[p])
    BY <1>1, WellNoOp
  <1>5. \A p \in Callers, k \in Tasks : op[p].task # k
    BY <1>1, WellNoOp, KernelAssumption
  <1>6. \A k \in Tasks : TaskTrue(k)
    BY <1>1, <1>3, <1>5 DEF TaskTrue, Owned
  <1> QED BY <1>1, <1>4, <1>6 DEF TrailInv, TaskStates

\* Every step keeps the trail true.
LEMMA StepTrail == Types /\ JournalInv /\ TrailInv /\ [Next]_vars => TrailInv'
  <1> SUFFICES ASSUME Types, JournalInv, TrailInv, [Next]_vars PROVE TrailInv'
    OBVIOUS
  <1>1. ASSUME NEW p \in Callers, NEW t \in Tokens, Issue(p, t) \/ Revoke(p, t) PROVE TrailInv'
    BY <1>1, IssueTrail
  <1>2. ASSUME NEW p \in Callers, NEW below \in Belows, RevokeGeneration(p, below) PROVE TrailInv'
    BY <1>2, GenerationTrail
  <1>3. ASSUME NEW p \in Callers, NEW t \in Tokens,
               AuthorizeOperation(p, t) \/ ExecutePlane(p, t) \/ ExecuteConnector(p, t)
        PROVE  TrailInv'
    BY <1>3, RequestTrail DEF AuthorizeOperation, ExecutePlane, ExecuteConnector
  <1>4. ASSUME NEW p \in Callers, NEW t \in Tokens, NEW k \in Tasks, Supervise(p, t, k)
        PROVE  TrailInv'
    BY <1>4, SuperviseTrail
  <1>5. ASSUME NEW p \in Callers, Proceed(p) \/ Abandon(p) PROVE TrailInv'
    BY <1>5, ForwardTrail, RefuseTrail, CheckTokenTrail, CheckGenerationTrail, AnswerTrail,
       PlainAuditTrail, TaskAuditTrail DEF Proceed
  <1>6. ASSUME UNCHANGED <<written, damaged, kernelVars>>, Intact' => Intact PROVE TrailInv'
    <2>1. NoNewEntry
      BY <1>6 DEF NoNewEntry, Entries
    <2> QED BY <1>6, <2>1, JournalTrail DEF kernelVars
  <1>7. CASE Boot \/ UNCHANGED vars
    <2>1. UNCHANGED <<journal, written, damaged, kernelVars>>
      BY <1>7 DEF Boot, Open, vars, journalVars, histories
    <2>2. Intact' => Intact
      BY <2>1 DEF Intact
    <2> QED BY <1>6, <2>1, <2>2
  <1>8. CASE RepairJournal
    <2>1. UNCHANGED <<written, damaged>> /\ Intact /\ UNCHANGED kernelVars
      BY <1>8, RepairJournalKeeps DEF RepairJournal
    <2> QED BY <1>6, <2>1
  <1> QED BY <1>1, <1>2, <1>3, <1>4, <1>5, <1>7, <1>8, HaltTrail, DamageTrail, Zenon DEF Next

\* The trail is true throughout.
LEMMA AlwaysTrail == Spec => [](JournalInv /\ TrailInv)
  <1>1. IInv => Types
    BY DEF IInv
  <1> QED BY <1>1, InitTrail, StepTrail, AlwaysIInv, AlwaysJournal, PTL DEF Spec

(* The trail of the tasks: an adapter is called at most once for a task, a  *)
(* task that is recorded has run, it is recorded once, and a completed one  *)
(* is in every journal nothing has happened to, whatever the other callers  *)
(* do, wherever the process ends and whichever write fails.                 *)
THEOREM TrailCorrect == Spec => []TrailTrue
  <1>1. ASSUME JournalInv, TrailInv PROVE TrailTrue
    <2>1. \A i \in 1..Len(journal) : journal[i].event = written[i]
      BY <1>1 DEF JournalInv, LinesTrue
    <2>2. ASSUME NEW k \in Tasks
          PROVE  /\ runs[k] <= 1
                 /\ Cardinality(Entries(k)) <= runs[k]
                 /\ Intact /\ ~damaged /\ task[k] = "Completed" => Entries(k) # {}
      <3>1. TaskTrue(k) /\ runs[k] \in {0, 1}
        BY <1>1 DEF TrailInv
      <3>2. CASE Entries(k) = {}
        BY <3>1, <3>2, FS_EmptySet DEF TaskTrue
      <3>3. CASE Entries(k) # {}
        <4>1. PICK i : Entries(k) = {i}
          BY <3>1, <3>3 DEF TaskTrue
        <4>2. Cardinality(Entries(k)) = 1
          BY <4>1, FS_Singleton
        <4>3. runs[k] = 1
          BY <3>1, <3>3 DEF TaskTrue
        <4> QED BY <3>3, <4>2, <4>3
      <3> QED BY <3>2, <3>3
    <2>3. \A k \in Tasks :
            Entries(k) = {i \in 1..Len(journal) : written[i] = Event("TaskDispatched", k)}
      BY <1>1 DEF JournalInv, Entries, EntriesOf, Dispatched
    <2> QED BY <2>1, <2>2, <2>3 DEF TrailTrue
  <1> QED BY <1>1, AlwaysTrail, PTL
=============================================================================
