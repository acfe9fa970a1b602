------------------------------- MODULE Kernel -------------------------------
(***************************************************************************)
(* The kernel: capability tokens, authorized operations and their audit    *)
(* trail.  crates/kernel/src/kernel.rs with policy.rs (StaticPolicyEngine),*)
(* policy_ext.rs and task_supervisor.rs, over the journal of AuditJournal. *)
(*                                                                         *)
(* Callers of one kernel run on several threads.  A step ends where an     *)
(* operation touches an atomic, takes a lock or awaits an adapter.  When   *)
(* the process ends its tokens and tasks are gone; only the journal stays. *)
(*                                                                         *)
(* What authorize decides from the request alone (pack, expiry, required   *)
(* capabilities) and what policy extensions decide is one nondeterministic *)
(* denial, what the pack manifest forbids a nondeterministic refusal: none *)
(* of it is shared state.  Generations do not reach 2^64.                  *)
(***************************************************************************)
EXTENDS AuditJournal

CONSTANTS
    Callers,
    Self,        \* the sink of this kernel
    MaxTokens,   \* bound: tokens that can be issued by one process
    Tasks,       \* tasks, each with its TaskSupervisor
    Belows       \* arguments of revoke_generation

Tokens == 1..MaxTokens

Event(kind, subject) == <<kind, subject>>

KernelEvents ==
    {Event(k, t) : k \in {"TokenIssued", "TokenRevoked", "AuthorizationDenied",
                          "PlaneInvoked", "ConnectorInvoked"}, t \in Tokens}
    \cup {Event("TaskDispatched", t) : t \in Tasks}

\* The lines an older release has left are not this kernel's.
ASSUME KernelAssumption ==
    /\ Self \in Sinks
    /\ MaxTokens \in Nat
    /\ Belows \subseteq Nat
    /\ None \notin Tasks
    /\ KernelEvents \subseteq Events \ {Legacy}

VARIABLES
    generation,  \* the engine's generation counter
    threshold,   \* revoked_below_generation
    revoked,     \* revoked_tokens
    issued,      \* token -> its generation, 0 when not issued
    held,        \* tokens that issue_token has returned
    task,        \* task -> state of its TaskSupervisor
    runs,        \* history: task -> times an adapter was called for it
    pc, op,      \* where each caller is, and in which operation
    dead         \* history: tokens that a revocation which is done covers

engine == <<generation, threshold, revoked>>
tokens == <<issued, held, dead>>
kernelVars == <<engine, tokens, task, runs, pc, op>>
vars == <<journalVars, kernelVars>>

\* An operation: its kind, token, task (or None), the events it has still to
\* record, whether it will return Ok, and whether its token was not yet
\* covered by a revocation when it began.
NoOp == [kind |-> "none", token |-> 0, task |-> None, todo |-> <<>>, ok |-> FALSE,
         live |-> FALSE, below |-> 0]

Up == Self \in open

Larger(x, y) == IF x < y THEN y ELSE x

Become(p, step, o) ==
    /\ pc' = [pc EXCEPT ![p] = step]
    /\ op' = [op EXCEPT ![p] = o]

KernelInit ==
    /\ JournalInit
    /\ generation = 0 /\ threshold = 0 /\ revoked = {}
    /\ issued = [t \in Tokens |-> 0]
    /\ held = {} /\ dead = {}
    /\ task = [t \in Tasks |-> "Runnable"]
    /\ runs = [t \in Tasks |-> 0]
    /\ pc = [p \in Callers |-> "idle"]
    /\ op = [p \in Callers |-> NoOp]

-----------------------------------------------------------------------------
(* Tokens.                                                                  *)

\* issue_token, issue_scoped_token: the engine makes the token, the kernel
\* records it and only then returns it.
Issue(p, t) ==
    /\ Up /\ pc[p] = "idle"
    /\ issued[t] = 0 /\ \A u \in Tokens : u < t => issued[u] # 0
    /\ generation' = generation + 1
    /\ issued' = [issued EXCEPT ![t] = generation + 1]
    /\ Become(p, "audit", [NoOp EXCEPT !.kind = "issue", !.token = t, !.ok = TRUE,
                                       !.todo = <<Event("TokenIssued", t)>>])
    /\ UNCHANGED <<journalVars, threshold, revoked, held, dead, task, runs>>

\* revoke_token: effective at once, whether or not it can be recorded.
Revoke(p, t) ==
    /\ Up /\ pc[p] = "idle" /\ t \in held
    /\ revoked' = revoked \cup {t}
    /\ dead' = dead \cup {t}
    /\ Become(p, "audit", [NoOp EXCEPT !.kind = "revoke", !.token = t, !.ok = TRUE,
                                       !.todo = <<Event("TokenRevoked", t)>>])
    /\ UNCHANGED <<journalVars, generation, threshold, issued, held, task, runs>>

\* revoke_generation: the threshold first ...
RevokeGeneration(p, below) ==
    /\ Up /\ pc[p] = "idle"
    /\ threshold' = Larger(threshold, below)
    /\ Become(p, "forward", [NoOp EXCEPT !.kind = "generation", !.below = below])
    /\ UNCHANGED <<journalVars, generation, revoked, tokens, task, runs>>

\* Mutant: the counter is only moved where it is ahead already.
ForwardMin(p) ==
    /\ pc[p] = "forward"
    /\ generation' = IF generation < op[p].below THEN generation ELSE op[p].below
    /\ dead' = dead \cup {t \in Tokens : issued[t] \in 1..op[p].below}
    /\ Become(p, "idle", NoOp)
    /\ UNCHANGED <<journalVars, threshold, revoked, issued, held, task, runs>>

\* ... and then the counter, so that tokens yet to be issued are above it.
Forward(p) ==
    /\ pc[p] = "forward"
    /\ generation' = Larger(generation, op[p].below)
    /\ dead' = dead \cup {t \in Tokens : issued[t] \in 1..op[p].below}
    /\ Become(p, "idle", NoOp)
    /\ UNCHANGED <<journalVars, threshold, revoked, issued, held, task, runs>>

-----------------------------------------------------------------------------
(* Operations on the planes.                                                *)

\* An operation of this kind begins.
Request(p, kind, t) ==
    /\ Up /\ pc[p] = "idle" /\ t \in held
    /\ Become(p, "revoked?", [NoOp EXCEPT !.kind = kind, !.token = t, !.live = t \notin dead])
    /\ UNCHANGED <<journalVars, engine, tokens, task, runs>>

AuthorizeOperation(p, t) == Request(p, "authorize", t)

\* execute_{runtime,tool,memory}_{core,extension}.
ExecutePlane(p, t) == Request(p, "plane", t)

\* execute_connector_core and execute_connector_extension.
ExecuteConnector(p, t) == Request(p, "connector", t)

\* Mutant: only a terminal task is refused.
SuperviseUnlessTerminal(p, t, k) ==
    /\ Up /\ pc[p] = "idle" /\ t \in held
    /\ task[k] \notin {"Completed", "Faulted", "Gone"}
    /\ \A q \in Callers : op[q].task # k
    /\ task' = [task EXCEPT ![k] = "InReply"]
    /\ Become(p, "revoked?", [NoOp EXCEPT !.kind = "task", !.token = t, !.task = k,
                                          !.live = t \notin dead])
    /\ UNCHANGED <<journalVars, engine, tokens, runs>>

\* TaskSupervisor::execute up to the kernel call: Runnable, InSend, InReply.
Supervise(p, t, k) ==
    /\ Up /\ pc[p] = "idle" /\ t \in held
    /\ task[k] = "Runnable"
    /\ task' = [task EXCEPT ![k] = "InReply"]
    /\ Become(p, "revoked?", [NoOp EXCEPT !.kind = "task", !.token = t, !.task = k,
                                          !.live = t \notin dead])
    /\ UNCHANGED <<journalVars, engine, tokens, runs>>

\* The operation returns.
Finish(p, ok) ==
    /\ Become(p, "idle", NoOp)
    /\ held' = IF op[p].kind = "issue" /\ ok THEN held \cup {op[p].token} ELSE held
    /\ task' = [k \in Tasks |-> IF k # op[p].task THEN task[k]
                                ELSE IF ok THEN "Completed" ELSE "Faulted"]

Deny(p) ==
    Become(p, "audit", [op[p] EXCEPT !.todo = <<Event("AuthorizationDenied", op[p].token)>>,
                                     !.ok = FALSE])

\* The pack is unknown, does not allow the connector or does not grant the
\* capabilities: an error before authorize, which is not recorded.
Refuse(p) ==
    /\ pc[p] = "revoked?"
    /\ Finish(p, FALSE)
    /\ UNCHANGED <<journalVars, engine, issued, dead, runs>>

\* authorize, under the lock of revoked_tokens.
CheckToken(p) ==
    /\ pc[p] = "revoked?"
    /\ IF op[p].token \in revoked THEN Deny(p) ELSE Become(p, "generation?", op[p])
    /\ UNCHANGED <<journalVars, engine, tokens, task, runs>>

\* The events an operation that went well records.
Trail(o) ==
    IF o.kind = "task" THEN <<Event("TaskDispatched", o.task)>>
    ELSE IF o.kind = "connector"
    THEN <<Event("ConnectorInvoked", o.token), Event("PlaneInvoked", o.token)>>
    ELSE <<Event("PlaneInvoked", o.token)>>

\* Mutant: "below" taken literally, so that the generation itself is spared.
CheckGenerationBelow(p) ==
    /\ pc[p] = "generation?"
    /\ \/ Deny(p) /\ UNCHANGED runs
       \/ /\ issued[op[p].token] >= threshold
          /\ Become(p, "run", op[p])
          /\ runs' = [k \in Tasks |-> IF k = op[p].task THEN runs[k] + 1 ELSE runs[k]]
    /\ UNCHANGED <<journalVars, engine, tokens, task>>

\* The rest of authorize and the policy extensions.  authorize_operation only
\* records; the others call their adapter.
CheckGeneration(p) ==
    /\ pc[p] = "generation?"
    /\ \/ Deny(p) /\ UNCHANGED runs
       \/ /\ issued[op[p].token] > threshold
          /\ IF op[p].kind = "authorize"
             THEN /\ Become(p, "audit", [op[p] EXCEPT !.todo = Trail(op[p]), !.ok = TRUE])
                  /\ UNCHANGED runs
             ELSE /\ Become(p, "run", op[p])
                  /\ runs' = [k \in Tasks |-> IF k = op[p].task THEN runs[k] + 1 ELSE runs[k]]
    /\ UNCHANGED <<journalVars, engine, tokens, task>>

\* The adapter answers.  A failure is returned as it is and not recorded.
Answer(p) ==
    /\ pc[p] = "run"
    /\ \/ /\ Become(p, "audit", [op[p] EXCEPT !.todo = Trail(op[p]), !.ok = TRUE])
          /\ UNCHANGED <<held, task>>
       \/ Finish(p, FALSE)
    /\ UNCHANGED <<journalVars, engine, issued, dead, runs>>

\* The caller drops the future while the adapter works.
Abandon(p) ==
    /\ pc[p] = "run"
    /\ Become(p, "idle", NoOp)
    /\ UNCHANGED <<journalVars, engine, tokens, task, runs>>

\* self.audit.record(...)?: an event that cannot be recorded fails the operation.
Audit(p) ==
    /\ pc[p] = "audit"
    /\ \/ /\ RecordOk(Self, Head(op[p].todo))
          /\ IF Len(op[p].todo) > 1
             THEN /\ Become(p, "audit", [op[p] EXCEPT !.todo = Tail(@)])
                  /\ UNCHANGED <<held, task>>
             ELSE Finish(p, op[p].ok)
       \/ RecordFails(Self, Head(op[p].todo)) /\ Finish(p, FALSE)
    /\ UNCHANGED <<engine, issued, dead, runs>>

-----------------------------------------------------------------------------
\* A new process, with a new engine.
Boot ==
    /\ Open(Self)
    /\ UNCHANGED kernelVars

\* The process ends, in the middle of whatever it does.
Halt ==
    /\ Close(Self)
    /\ generation' = 0 /\ threshold' = 0 /\ revoked' = {}
    /\ held' = {} /\ dead' = {}
    /\ issued' = [t \in Tokens |-> 0]
    /\ task' = [k \in Tasks |-> IF task[k] = "InReply" THEN "Gone" ELSE task[k]]
    /\ pc' = [p \in Callers |-> "idle"]
    /\ op' = [p \in Callers |-> NoOp]
    /\ UNCHANGED runs

\* What happens to the journal without this kernel: the repair command, damage.
\* A second kernel context on the same path is left to AuditJournal.
RepairJournal == Repair /\ UNCHANGED kernelVars

DamageJournal(i) == Damage(i, Legacy) /\ UNCHANGED kernelVars

Proceed(p) ==
    Forward(p) \/ Refuse(p) \/ CheckToken(p) \/ CheckGeneration(p) \/ Answer(p) \/ Audit(p)

Next ==
    \/ \E p \in Callers :
          \/ \E t \in Tokens : Issue(p, t) \/ Revoke(p, t)
          \/ \E below \in Belows : RevokeGeneration(p, below)
          \/ \E t \in Tokens :
                AuthorizeOperation(p, t) \/ ExecutePlane(p, t) \/ ExecuteConnector(p, t)
          \/ \E t \in Tokens, k \in Tasks : Supervise(p, t, k)
          \/ Proceed(p)
          \/ Abandon(p)
    \/ Boot
    \/ Halt
    \/ RepairJournal
    \/ \E i \in 1..Len(journal) : DamageJournal(i)

Spec == KernelInit /\ [][Next]_vars

-----------------------------------------------------------------------------
Authorized(p) ==
    \/ pc[p] = "run"
    \/ pc[p] = "audit" /\ op[p].ok /\ op[p].kind \notin {"issue", "revoke"}

(* An operation that begins after a revocation of its token is done never   *)
(* reaches an adapter and is never recorded as authorized, whatever other   *)
(* issues and revocations are in progress, and also when the revocation     *)
(* could not be recorded.                                                   *)
RevokedNeverRuns == \A p \in Callers : Authorized(p) => op[p].live

(* revoke_generation leaves no tokens stillborn once it has returned: the   *)
(* next token is above the threshold, unless a revocation stands between    *)
(* its two steps ("Fast-forward generation so newly issued tokens won't be  *)
(* immediately revoked").                                                   *)
NextTokenValid ==
    threshold <= generation \/ \E p \in Callers : pc[p] = "forward"

(* The trail tells the truth.  Recording and repair never change what a     *)
(* line says; a task reaches an adapter at most once, also when its future  *)
(* was dropped or the process restarted; a completed one is in the journal, *)
(* and what is in the journal has run.                                      *)
TrailTrue ==
    /\ \A i \in 1..Len(journal) : journal[i].event = written[i]
    /\ \A k \in Tasks :
          LET entries == {i \in 1..Len(journal) : written[i] = Event("TaskDispatched", k)}
          IN  /\ runs[k] <= 1
              /\ Cardinality(entries) <= runs[k]
              /\ Intact /\ ~damaged /\ task[k] = "Completed" => entries # {}
=============================================================================
