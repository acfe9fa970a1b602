-------------------------- MODULE GatewayRunProofs --------------------------
(***************************************************************************)
(* Proofs about GatewayRun: who owns the slot, whom a stop request stops   *)
(* and what the last snapshot says, for any number of starts and troubles  *)
(* and any surfaces.                                                       *)
(*                                                                         *)
(* The argument.  Until a foreign file was removed or a living gateway's   *)
(* file went stale, the path names the file of whoever holds it: a start   *)
(* removes only a file that is stale or says stopped, these are files of   *)
(* gateways that are gone or have finished, and such a gateway does not    *)
(* come back.  For the last snapshot: in the loop, the surfaces that are   *)
(* not joined are those without a final phase, the shutdown is forwarded   *)
(* as soon as there is a reason, and the supervisor says Failed exactly    *)
(* when something failed other than the CLI host, for which the run is     *)
(* finalized with an error.                                                *)
(***************************************************************************)
EXTENDS GatewayRun, TLAPS

Early == {"off", "create", "look", "remove", "fill", "publish", "setup", "launch"}
Late == {"last", "clear", "check", "erase", "end", "dead"}
Places == Early \cup Late \cup {"truncate", "write", "loop", "joining", "halt"}
OwnerPhases == {"Starting", "Running", "Stopping", "Stopped", "Failed"}
Files == Tokens \cup {NoFile, Previous}

Own ==
    [pc : Places, next : OwnerPhases \cup {"launch", "loop", "halt", None},
     attempts : Nat, seen : Files]

Reasons ==
    {NoReason} \cup ({"requested"} \X {"stop", "signal", "cli"}) \cup ({"failed"} \X Surfaces)

Sup == [phase : OwnerPhases, surface : [Surfaces -> OwnerPhases], reason : Reasons]

Run ==
    [mode : Modes \cup {None}, sup : Sup, up : SUBSET Surfaces,
     cli : {"none", "idle", "up", "failed"}, told : BOOLEAN]

OwnerTypes ==
    /\ own \in [Tokens -> Own]
    /\ beat \in [Tokens -> {"off", "sleep", "awake", "write", "status", "lost"}]
    /\ copy \in [Tokens -> OwnerPhases \cup {"Active"}]
    /\ slot \in Files /\ stopfile \in Files
    /\ inode \in [Tokens \cup {Previous} -> {"empty", "fresh", "stale", "stopped"}]
    /\ raced \in BOOLEAN /\ lapsed \in BOOLEAN

-----------------------------------------------------------------------------
(* The slot.                                                                *)

Gone(t) == pc(t) \in {"dead", "end"} \/ Finished(t)

\* t's file is at the path, or it should be.
Holds(t) == Owns(t) \/ pc(t) = "fill"

Held == raced \/ lapsed \/ \A t \in Tokens : Holds(t) => slot = t \/ Finished(t)

\* A gateway that has not created its file has no contents and no heartbeat.
Blank ==
    \A t \in Tokens :
        /\ pc(t) \in {"off", "create", "look", "remove", "fill"} => inode[t] = "empty"
        /\ pc(t) \in {"off", "create", "look", "remove", "fill", "publish"} => beat[t] = "off"

StaleGone == lapsed \/ \A t \in Tokens : inode[t] \in {"stale", "stopped"} => Gone(t)

SeenGone ==
    lapsed \/ \A t, u \in Tokens : pc(t) = "remove" /\ own[t].seen = u => Gone(u)

SlotInv == OwnerTypes /\ Held /\ Blank /\ StaleGone /\ SeenGone

-----------------------------------------------------------------------------
(* The stop request.                                                        *)

StopInv ==
    /\ stopfile \in {NoFile, Previous} \cup wanted
    /\ StopHitsTarget

-----------------------------------------------------------------------------
(* The last snapshot.                                                       *)

Syncs(o, next) == o.pc \in {"truncate", "write"} /\ o.next = next

Verdict(bad) == IF bad THEN "Failed" ELSE "Stopped"

\* What the loop knows of the run; the shutdown is forwarded last.
Heard(r, bad) ==
    /\ r.up = {x \in Surfaces : r.sup.surface[x] \notin {"Stopped", "Failed"}}
    /\ r.told => r.sup.reason # NoReason
    /\ r.sup.reason = NoReason => ~bad
    /\ r.cli = "failed" => bad
    /\ r.cli # "failed" => (bad <=> r.sup.phase = "Failed")

Sound(r, bad) == Heard(r, bad) /\ (r.sup.reason # NoReason => r.told)

\* A gateway with the place o, the run r, and with a failure or not.
Fits(o, r, bad) ==
    /\ o.pc \in {"truncate", "write"} => o.next \in {"launch", "loop", "halt"}
    /\ o.pc \in Early \/ Syncs(o, "launch") => r = NotRunning /\ ~bad
    /\ o.pc \in {"loop", "joining"} \/ Syncs(o, "loop") => Sound(r, bad)
    /\ o.pc = "joining" => r.cli = "up"
    /\ o.pc = "halt" \/ Syncs(o, "halt") =>
          (r.mode # None /\ r.cli # "failed" => r.sup.phase = Verdict(bad))
    /\ o.pc = "last" => o.next = Verdict(bad)
    /\ o.pc \in Late => r = NotRunning

AllFit == \A t \in Tokens : Fits(own[t], run[t], t \in failed)

\* Nothing fails after the last snapshot.
LastKept ==
    status # None /\ status.phase # "Active" =>
        /\ status.token \in Tokens /\ pc(status.token) \in Late
        /\ status.phase = Verdict(status.token \in failed)

\* A heartbeat has the last phase only when that is said.
CopyKept ==
    \A t \in Tokens :
        copy[t] # "Active" => pc(t) \in Late /\ copy[t] = Verdict(t \in failed)

RunInv == run \in [Tokens -> Run] /\ AllFit /\ LastKept /\ CopyKept

-----------------------------------------------------------------------------
(* Steps of a gateway that leave its run alone, and those that do not.      *)

FileStep(t) ==
    \/ Start(t) \/ CreateAgain(t) \/ Look(t) \/ Remove(t)
    \/ Fill(t) \/ FillFails(t) \/ Publish(t) \/ PublishFails(t)
    \/ Truncate(t) \/ Write(t)
    \/ BeatTruncates(t) \/ BeatWrites(t) \/ BeatPublishes(t) \/ BeatFails(t)
    \/ LastStatus(t) \/ LastStatusFails(t) \/ ClearStop(t) \/ CheckOwned(t) \/ Erase(t)
    \/ Lapse(t)

LoopStep(t) ==
    \/ SeeStop(t) \/ Interrupt(t) \/ CliEnds(t) \/ \E x \in Surfaces : Join(t, x)

RunStep(t) ==
    \/ SetUp(t) \/ Launch(t) \/ LoopStep(t) \/ PollCli(t) \/ LeaveLoop(t)
    \/ LoseControl(t) \/ Halt(t) \/ Broken(t)

(* Every step is one of these, of one gateway, or a step of "gateway stop". *)
LEMMA NextSplit ==
  ASSUME Next
  PROVE  \/ \E t \in Tokens : FileStep(t) /\ UNCHANGED <<run, failed>>
         \/ \E t \in Tokens : RunStep(t)
         \/ Ask /\ UNCHANGED <<run, failed>>
  BY Zenon DEF Next, Proceed, Acquire, Tracked, Finalized, Elsewhere, Beats, FileStep, RunStep,
         LoopStep

(* Places and names of files that are told apart.                           *)
LEMMA FileNames ==
  /\ NoFile \notin Tokens /\ Previous \notin Tokens /\ NoFile # Previous
  /\ \A step \in Places : At(step) \in Own /\ At(step).pc = step
  BY OwnerAssumption DEF Tokens, NoFile, Previous, At, Own, Files

(* The record of a gateway whose place or next place is set.                *)
LEMMA OwnUpdates ==
  ASSUME NEW o \in Own, NEW step \in Places,
         NEW next \in OwnerPhases \cup {"launch", "loop", "halt"}, NEW f \in Files
  PROVE  /\ [o EXCEPT !.pc = step] \in Own
         /\ [o EXCEPT !.pc = step, !.seen = f] \in Own
         /\ [o EXCEPT !.attempts = @ + 1, !.pc = step] \in Own
         /\ [o EXCEPT !.pc = step, !.next = next] \in Own
  <1>1. [o EXCEPT !.pc = step] \in Own
    BY DEF Own
  <1>2. [o EXCEPT !.pc = step, !.seen = f] \in Own
    BY DEF Own
  <1>3. [o EXCEPT !.attempts = @ + 1, !.pc = step] \in Own
    <2> DEFINE n == o.attempts + 1
    <2>1. n \in Nat
      BY DEF Own
    <2> HIDE DEF n
    <2>2. [o EXCEPT !.attempts = n, !.pc = step] \in Own
      BY <2>1 DEF Own
    <2> QED BY <2>2 DEF n
  <1>4. [o EXCEPT !.pc = step, !.next = next] \in Own
    BY DEF Own
  <1> QED BY <1>1, <1>2, <1>3, <1>4

-----------------------------------------------------------------------------
(* The types of the owner's files and of the gateways' places.              *)

\* A step on the files keeps the types.
LEMMA FileStepTypes ==
  ASSUME OwnerTypes, NEW t \in Tokens, FileStep(t), Fits(own[t], run[t], t \in failed)
  PROVE  OwnerTypes'
  <1> USE FileNames DEF OwnerTypes, pc, history, heartbeat
  <1>1. CASE Start(t) \/ CreateAgain(t)
    <2>1. TryCreate(t)
      BY <1>1 DEF Start, CreateAgain
    <2> DEFINE step == IF slot = NoFile THEN "fill" ELSE "look"
    <2>2. [own[t] EXCEPT !.attempts = @ + 1, !.pc = step] \in Own
      BY OwnUpdates DEF Places, Early
    <2>3. own' = [own EXCEPT ![t] = [own[t] EXCEPT !.attempts = @ + 1, !.pc = step]]
      BY <2>1 DEF TryCreate
    <2> QED BY <2>1, <2>2, <2>3 DEF TryCreate, Files
  <1>2. CASE Look(t)
    <2>1. [own[t] EXCEPT !.pc = "remove", !.seen = slot] \in Own /\ At("end") \in Own
      BY OwnUpdates DEF Places, Early, Late
    <2>2. \/ own' = [own EXCEPT ![t] = [own[t] EXCEPT !.pc = "remove", !.seen = slot]]
          \/ own' = [own EXCEPT ![t] = At("end")]
      BY <1>2 DEF Look, End
    <2> QED BY <1>2, <2>1, <2>2 DEF Look
  <1>3. CASE Remove(t)
    BY <1>3, OwnUpdates DEF Remove, RemoveSlot, Files, Places, Early
  <1>4. CASE Fill(t)
    BY <1>4, OwnUpdates DEF Fill, Go, Places, Early
  <1>5. CASE FillFails(t)
    BY <1>5 DEF FillFails, RemoveSlot, End, Files, Places, Late
  <1>6. CASE Publish(t)
    BY <1>6 DEF Publish, Places, Early
  <1>7. CASE PublishFails(t)
    BY <1>7 DEF PublishFails, Fault, End, Places, Late
  <1>8. CASE Truncate(t)
    BY <1>8, OwnUpdates DEF Truncate, Go, Places
  <1>9. CASE Write(t)
    BY <1>9 DEF Write, Fits, Places, Early
  <1>10. CASE BeatTruncates(t) \/ BeatWrites(t) \/ BeatPublishes(t) \/ BeatFails(t)
    BY <1>10 DEF BeatTruncates, BeatWrites, BeatPublishes, BeatFails, Fault
  <1>11. CASE LastStatus(t) \/ LastStatusFails(t)
    BY <1>11 DEF LastStatus, LastStatusFails, Fault, End, Places, Late
  <1>12. CASE ClearStop(t)
    BY <1>12, OwnUpdates DEF ClearStop, Go, Files, Places, Late
  <1>13. CASE CheckOwned(t)
    <2>1. [own[t] EXCEPT !.pc = "erase"] \in Own /\ At("end") \in Own
      BY OwnUpdates DEF Places, Late
    <2> QED BY <1>13, <2>1 DEF CheckOwned, Go, End
  <1>14. CASE Erase(t)
    BY <1>14 DEF Erase, RemoveSlot, End, Files, Places, Late
  <1>15. CASE Lapse(t)
    BY <1>15 DEF Lapse
  <1> QED
    BY Zenon, <1>1, <1>2, <1>3, <1>4, <1>5, <1>6, <1>7, <1>8, <1>9, <1>10, <1>11, <1>12, <1>13,
       <1>14, <1>15 DEF FileStep

Owning == Places \ (Dead \cup {"create", "look", "remove", "fill", "publish"})
Serving == Owning \ Late

(* What a step of a run does to the files and to the gateway's place.       *)
RunMoves(t) ==
    /\ \E o \in Own :
          /\ (pc(t) \in Serving /\ o.pc \in Owning) \/ o.pc = "dead"
          /\ own' = [own EXCEPT ![t] = o]
    /\ \/ UNCHANGED copy
       \/ \E phase \in OwnerPhases : pc(t) \in Serving /\ copy' = [copy EXCEPT ![t] = phase]
    /\ \E b \in {"off", "sleep", "awake", "write", "status", "lost"} :
          beat' = [beat EXCEPT ![t] = b]
    /\ inode' \in {inode, [inode EXCEPT ![t] = "fresh"]}
    /\ UNCHANGED <<slot, status, stopfile, wanted, raced, lapsed>>

(* A step that only moves the gateway.                                      *)
LEMMA PlainMove ==
  ASSUME OwnerTypes, NEW t \in Tokens, pc(t) \in Serving, NEW o \in Own,
         o.pc \in Owning, own' = [own EXCEPT ![t] = o],
         UNCHANGED <<owner, heartbeat>>
  PROVE  RunMoves(t)
  <1>1. beat' = [beat EXCEPT ![t] = beat[t]]
    BY DEF OwnerTypes, heartbeat
  <1> QED BY <1>1 DEF OwnerTypes, RunMoves, owner, history, heartbeat

\* A gateway that writes its state owns the slot.
LEMMA SyncPlace ==
  ASSUME NEW next \in {"launch", "loop", "halt"}
  PROVE  LET o == [At("truncate") EXCEPT !.next = next]
         IN  o \in Own /\ o.pc \in Owning
  BY OwnUpdates, FileNames DEF Places, Owning, Dead, Early, Late, Own, At

\* What a step of the run does to the files: at most begin a write.
LEMMA RunStepMoves ==
  ASSUME OwnerTypes, run \in [Tokens -> Run], NEW t \in Tokens, RunStep(t)
  PROVE  RunMoves(t)
  <1>0. At("halt") \in Own /\ At("joining") \in Own /\ At("dead") \in Own
    BY FileNames DEF Places, Late
  <1>1. CASE \/ SeeStop(t) \/ Interrupt(t) \/ CliEnds(t) \/ LeaveLoop(t)
             \/ \E x \in Surfaces : Join(t, x)
    <2>1. /\ pc(t) \in Serving /\ UNCHANGED <<owner, heartbeat>>
          /\ \E next \in {"loop", "halt"} : Sync(t, next)
      BY <1>1 DEF SeeStop, Interrupt, CliEnds, Join, LeaveLoop, Waiting, Handled, Serving, Owning,
         Places, Dead, Early, Late
    <2> QED BY <2>1, SyncPlace, PlainMove DEF Sync
  <1>2. CASE SetUp(t) \/ Launch(t) \/ PollCli(t) \/ LoseControl(t)
    <2>1. /\ pc(t) \in Serving /\ UNCHANGED <<owner, heartbeat>>
          /\ \/ \E next \in {"launch", "loop"} : Sync(t, next)
             \/ \E step \in {"halt", "joining"} : own' = [own EXCEPT ![t] = At(step)]
      BY <1>2 DEF SetUp, Launch, PollCli, LoseControl, Waiting, Leave, Serving, Owning, Places,
         Dead, Early, Late
    <2>2. CASE \E next \in {"launch", "loop"} : Sync(t, next)
      BY <2>1, <2>2, SyncPlace, PlainMove DEF Sync
    <2>3. CASE \E step \in {"halt", "joining"} : own' = [own EXCEPT ![t] = At(step)]
      BY <1>0, <2>1, <2>3, PlainMove DEF Owning, Places, Dead, Early, Late, At
    <2> QED BY <2>1, <2>2, <2>3
  <1>3. CASE Halt(t)
    <2>1. PICK phase \in OwnerPhases : HaltBeat(t, phase)
      <3>1. run[t].sup.phase \in OwnerPhases
        BY DEF Run, Sup
      <3> QED BY <1>3, <3>1 DEF Halt, OwnerPhases
    <2>2. [own[t] EXCEPT !.pc = "last", !.next = phase] \in Own
      BY OwnUpdates DEF OwnerTypes, Places, Late
    <2>3. /\ own' = [own EXCEPT ![t] = [own[t] EXCEPT !.pc = "last", !.next = phase]]
          /\ [own[t] EXCEPT !.pc = "last", !.next = phase].pc = "last"
      BY <2>1 DEF HaltBeat, OwnerTypes, Own
    <2>4. pc(t) \in Serving /\ "last" \in Owning
      BY <2>1 DEF HaltBeat, Serving, Owning, Places, Dead, Early, Late
    <2>5. \E b \in {"off", "sleep", "awake", "write", "status", "lost"} :
             beat' = [beat EXCEPT ![t] = b]
      BY <2>1 DEF HaltBeat, OwnerTypes, heartbeat
    <2>6. UNCHANGED copy \/ copy' = [copy EXCEPT ![t] = phase]
      BY <2>1 DEF HaltBeat, OwnerTypes, heartbeat
    <2> QED BY <2>1, <2>2, <2>3, <2>4, <2>5, <2>6 DEF HaltBeat, RunMoves, history
  <1>4. CASE Broken(t)
    <2>1. CASE SyncFails(t)
      <3>1. beat' = [beat EXCEPT ![t] = beat[t]]
        BY <2>1 DEF SyncFails, OwnerTypes, heartbeat
      <3> QED BY <1>0, <2>1, <3>1 DEF SyncFails, Fault, RunMoves, OwnerTypes, pc, Serving, Owning,
                 Places, Dead, Early, Late, At, heartbeat
    <2>2. CASE Die(t)
      BY <1>0, <2>2 DEF Die, Fault, RunMoves, OwnerTypes, pc, Owning, Places, Dead, Early, Late, At
    <2> QED BY <1>4, <2>1, <2>2 DEF Broken
  <1> QED BY <1>1, <1>2, <1>3, <1>4 DEF RunStep, LoopStep

\* What a heartbeat has copied changes only where the gateway halts.
LEMMA CopyMoves ==
  ASSUME OwnerTypes, run \in [Tokens -> Run], NEW t \in Tokens, RunStep(t), ~UNCHANGED copy
  PROVE  \E phase \in OwnerPhases :
            /\ copy' \in {copy, [copy EXCEPT ![t] = phase]}
            /\ own'[t].pc = "last" /\ own'[t].next = phase
  <1>1. Halt(t)
    BY DEF RunStep, LoopStep, SetUp, Launch, SeeStop, Interrupt, CliEnds, Join, PollCli, LeaveLoop,
       LoseControl, Broken, SyncFails, Die, heartbeat
  <1>2. PICK phase \in OwnerPhases : HaltBeat(t, phase)
    <2>1. run[t].sup.phase \in OwnerPhases
      BY DEF Run, Sup
    <2> QED BY <1>1, <2>1 DEF Halt, OwnerPhases
  <1>3. own'[t].pc = "last" /\ own'[t].next = phase
    BY <1>2 DEF HaltBeat, OwnerTypes, Own
  <1>4. copy' \in {copy, [copy EXCEPT ![t] = phase]}
    BY <1>2 DEF HaltBeat, OwnerTypes, heartbeat
  <1> QED BY <1>3, <1>4

-----------------------------------------------------------------------------
(* The slot: what each step does to Held, Blank, StaleGone and SeenGone.    *)

\* Nobody runs at the beginning.
LEMMA InitSlotInv == Init => SlotInv
  <1> SUFFICES ASSUME Init PROVE SlotInv
    OBVIOUS
  <1>1. OwnerTypes
    BY FileNames DEF Init, OwnerInit, OwnerTypes, Files, Places, Early
  <1> QED BY <1>1, FileNames DEF Init, OwnerInit, SlotInv, Held, Blank, StaleGone, SeenGone, Holds,
             Owns, Finished, pc, Dead, At

\* A gateway moves to step and no other does.
Moved(t, step) ==
    /\ own'[t].pc = step
    /\ \A u \in Tokens : u # t => own'[u] = own[u]

\* The ways in which an action says where the gateway goes.
LEMMA MovedFacts ==
  ASSUME OwnerTypes, NEW t \in Tokens, NEW step
  PROVE  /\ Go(t, step) => Moved(t, step)
         /\ own' = [own EXCEPT ![t] = At(step)] => Moved(t, step)
         /\ End(t) => Moved(t, "end")
         /\ TryCreate(t) => Moved(t, IF slot = NoFile THEN "fill" ELSE "look")
  BY DEF Go, TryCreate, OwnerTypes, Own, End, At, Moved

SlotParts == Held /\ Blank /\ StaleGone /\ SeenGone

\* The file at the path is the same, and none is inactive that was not.
SlotSame ==
    /\ UNCHANGED <<slot, raced, lapsed, copy>>
    /\ \A u \in Tokens : inode'[u] \in {"stale", "stopped"} => inode[u] \in {"stale", "stopped"}

(* A gateway that owns the slot goes on, and perhaps ends: SlotParts holds. *)
LEMMA OwnerGoesOn ==
  ASSUME SlotInv, NEW t \in Tokens, NEW step \in Owning \cup {"end"}, Moved(t, step), SlotSame,
         pc(t) \in Owning \cup {"publish"}, pc(t) \in Late => step \in Late,
         \A u \in Tokens : u # t => inode'[u] = inode[u] /\ beat'[u] = beat[u]
  PROVE  SlotParts'
  <1> USE DEF SlotInv, SlotSame, Moved, Owning, Places, Early, Late, Dead, pc
  <1>0. \A u \in Tokens : Gone(u) => Gone(u)'
    BY DEF Gone, Finished
  <1>1. Held'
    BY DEF Held, Holds, Owns, Finished
  <1>2. Blank'
    BY DEF Blank
  <1>3. StaleGone'
    BY <1>0 DEF StaleGone
  <1>4. SeenGone'
    BY <1>0 DEF SeenGone
  <1> QED BY <1>1, <1>2, <1>3, <1>4 DEF SlotParts

\* A step on the files keeps the slot exclusive.
LEMMA FileStepSlot ==
  ASSUME SlotInv, NEW t \in Tokens, FileStep(t), Fits(own[t], run[t], t \in failed), CopyKept
  PROVE  SlotParts'
  <1> USE DEF history, heartbeat
  <1>0. OwnerTypes
    BY DEF SlotInv
  <1>1. CASE Start(t) \/ CreateAgain(t)
    <2>1. TryCreate(t) /\ pc(t) \in {"off", "create"}
      BY <1>1 DEF Start, CreateAgain
    <2>2. Moved(t, IF slot = NoFile THEN "fill" ELSE "look")
      BY <1>0, <2>1, MovedFacts
    <2>3. /\ slot' = IF slot = NoFile THEN t ELSE slot
          /\ UNCHANGED <<inode, beat, copy, raced, lapsed>>
      BY <2>1 DEF TryCreate
    <2>4. Held'
      BY <2>1, <2>2, <2>3, FileNames DEF SlotInv, Held, Holds, Finished, Owns, Moved, pc, Dead
    <2>5. Blank' /\ StaleGone' /\ SeenGone'
      BY <2>1, <2>2, <2>3 DEF SlotInv, Blank, StaleGone, SeenGone, Gone, Finished, Moved, pc
    <2> QED BY <2>4, <2>5 DEF SlotParts
  <1>2. CASE Look(t)
    <2>0. UNCHANGED <<slot, inode, beat, copy, raced, lapsed>> /\ pc(t) = "look"
      BY <1>2 DEF Look
    <2>1. CASE Inactive(slot) /\ own[t].attempts < 3
      <3>1. /\ own'[t].pc = "remove" /\ own'[t].seen = slot
            /\ \A u \in Tokens : u # t => own'[u] = own[u]
        BY <1>2, <2>1 DEF Look, SlotInv, OwnerTypes, Own
      <3>2. Held' /\ Blank' /\ StaleGone'
        BY <2>0, <3>1 DEF SlotInv, Held, Blank, StaleGone, Holds, Gone, Finished, Owns, pc, Dead
      <3>3. SeenGone'
        BY <2>0, <2>1, <3>1 DEF SlotInv, StaleGone, SeenGone, Gone, Finished, pc, Inactive
      <3> QED BY <3>2, <3>3 DEF SlotParts
    <2>2. CASE ~(Inactive(slot) /\ own[t].attempts < 3)
      <3>1. Moved(t, "end")
        BY <1>0, <1>2, <2>2, MovedFacts DEF Look
      <3> QED BY <2>0, <3>1 DEF SlotInv, SlotParts, Held, Blank, StaleGone, SeenGone, Holds,
                 Gone, Finished, Owns, pc, Dead, Moved
    <2> QED BY <2>1, <2>2
  <1>3. CASE Remove(t)
    <2>1. Moved(t, "create")
      BY <1>3 DEF Remove, SlotInv, OwnerTypes, Own, Moved
    <2>2. /\ pc(t) = "remove" /\ RemoveSlot(own[t].seen)
          /\ UNCHANGED <<inode, beat, copy, lapsed>>
      BY <1>3 DEF Remove
    <2>3. Held'
      <3>1. SUFFICES ASSUME ~raced', ~lapsed', NEW u \in Tokens, Holds(u)'
                     PROVE  Finished(u)'
        BY DEF Held
      <3>2. u # t /\ Holds(u)
        BY <2>1, <3>1 DEF Holds, Owns, Moved, pc, Dead
      <3>3. Finished(u) \/ (slot = u /\ own[t].seen = u)
        BY <2>2, <3>1, <3>2, FileNames DEF RemoveSlot, SlotInv, Held
      <3> QED BY <2>1, <2>2, <3>1, <3>2, <3>3
              DEF SlotInv, SeenGone, Gone, Finished, Holds, Owns, Moved, pc, Dead
    <2>4. Blank' /\ StaleGone' /\ SeenGone'
      BY <2>1, <2>2 DEF SlotInv, Blank, StaleGone, SeenGone, Gone, Finished, Moved, pc
    <2> QED BY <2>3, <2>4 DEF SlotParts
  <1>4. CASE Fill(t)
    <2>1. Moved(t, "publish")
      BY <1>0, <1>4, MovedFacts DEF Fill
    <2> QED BY <1>4, <2>1 DEF Fill, Moved, SlotInv, SlotParts, OwnerTypes, Held, Blank, StaleGone,
               SeenGone, Holds, Gone, Finished, Owns, pc, Dead
  <1>5. CASE FillFails(t) \/ Erase(t)
    <2>1. /\ Moved(t, "end") /\ RemoveSlot(t) /\ UNCHANGED <<inode, beat, copy, lapsed>>
          /\ pc(t) \in {"fill", "erase"}
      BY <1>0, <1>5, MovedFacts DEF FillFails, Erase
    <2>2. Held'
      BY <2>1, FileNames DEF SlotInv, Held, Holds, Finished, Owns, Moved, RemoveSlot, pc, Dead
    <2>3. Blank' /\ StaleGone' /\ SeenGone'
      BY <2>1 DEF SlotInv, Blank, StaleGone, SeenGone, Gone, Finished, Moved, pc
    <2> QED BY <2>2, <2>3 DEF SlotParts
  <1>6. CASE \/ Publish(t) \/ PublishFails(t) \/ Truncate(t) \/ LastStatus(t)
             \/ LastStatusFails(t) \/ ClearStop(t) \/ CheckOwned(t)
    <2>1. \E step \in {"setup", "end", "write", "clear", "check", "erase"} :
             Moved(t, step) /\ (pc(t) \in Late => step \in Late)
      BY <1>0, <1>6, MovedFacts DEF Publish, PublishFails, Truncate, LastStatus, LastStatusFails,
         ClearStop, CheckOwned, Late
    <2>2. /\ SlotSame /\ pc(t) \in Owning \cup {"publish"}
          /\ \A u \in Tokens : u # t => inode'[u] = inode[u] /\ beat'[u] = beat[u]
      BY <1>0, <1>6 DEF Publish, PublishFails, Truncate, LastStatus, LastStatusFails, ClearStop,
         CheckOwned, Fault, SlotSame, OwnerTypes, Owning, Places, Early, Late, Dead
    <2> QED BY <2>1, <2>2, OwnerGoesOn DEF Owning, Places, Early, Late, Dead
  <1>7. CASE Write(t)
    <2>1. Moved(t, own[t].next) /\ own[t].next \in {"launch", "loop", "halt"}
      BY <1>0, <1>7, MovedFacts DEF Write, Fits, pc
    <2>2. /\ SlotSame /\ pc(t) \in Owning \ Late
          /\ \A u \in Tokens : u # t => inode'[u] = inode[u] /\ beat'[u] = beat[u]
      BY <1>0, <1>7 DEF Write, SlotSame, OwnerTypes, Owning, Places, Dead, Late
    <2> QED BY <2>1, <2>2, OwnerGoesOn DEF Owning, Places, Early, Late, Dead
  <1>8. CASE BeatTruncates(t) \/ BeatWrites(t) \/ BeatPublishes(t) \/ BeatFails(t)
    <2>1. /\ UNCHANGED <<own, copy, slot, raced, lapsed>> /\ beat[t] # "off"
          /\ \A u \in Tokens : u # t => inode'[u] = inode[u] /\ beat'[u] = beat[u]
          /\ inode'[t] \in {"empty", "fresh", inode[t]} \/ (BeatWrites(t) /\ copy[t] # "Active")
      BY <1>0, <1>8 DEF BeatTruncates, BeatWrites, BeatPublishes, BeatFails, Fault, OwnerTypes
    <2>2. \A u \in Tokens :
             inode'[u] \in {"stale", "stopped"} => inode[u] \in {"stale", "stopped"} \/ Gone(u)
      BY <1>0, <2>1 DEF CopyKept, Gone, Finished, Late, OwnerTypes
    <2>3. \A u \in Tokens : Gone(u)' = Gone(u) /\ Holds(u)' = Holds(u) /\ Finished(u)' = Finished(u)
      BY <2>1 DEF Gone, Holds, Owns, Finished, pc
    <2>4. Held'
      BY <2>1, <2>3 DEF SlotInv, Held
    <2>5. Blank'
      BY <2>1 DEF SlotInv, Blank, pc
    <2>6. StaleGone' /\ SeenGone'
      BY <2>1, <2>2, <2>3 DEF SlotInv, StaleGone, SeenGone, pc
    <2> QED BY <2>4, <2>5, <2>6 DEF SlotParts
  <1>9. CASE Lapse(t)
    BY <1>9 DEF Lapse, OwnerTypes, SlotInv, SlotParts, Held, Blank, StaleGone, SeenGone, Holds,
       Gone, Finished, Owns, pc, Dead
  <1> QED
    BY Zenon, <1>1, <1>2, <1>3, <1>4, <1>5, <1>6, <1>7, <1>8, <1>9 DEF FileStep

(* A run does not touch the slot, and its gateway stays alive or dies.      *)
LEMMA RunStepSlot ==
  ASSUME SlotInv, NEW t \in Tokens, RunMoves(t), CopyKept
  PROVE  SlotInv'
  <1>1. OwnerTypes'
    BY DEF SlotInv, OwnerTypes, RunMoves
  <1> USE DEF SlotInv, OwnerTypes, RunMoves, Serving, Owning, pc, Dead
  <1>0. \A u \in Tokens : Gone(u) => Gone(u)'
    BY DEF Gone, Finished, Late
  <1>2. Held'
    BY DEF Held, Holds, Owns, Finished, Late
  <1>3. Blank'
    BY DEF Blank
  <1>4. StaleGone' /\ SeenGone'
    BY <1>0 DEF StaleGone, SeenGone
  <1> QED BY <1>1, <1>2, <1>3, <1>4

\* Every step keeps the slot exclusive.
LEMMA SlotInvStep ==
  ASSUME SlotInv, run \in [Tokens -> Run], AllFit, CopyKept, [Next]_vars
  PROVE  SlotInv'
  <1>1. CASE UNCHANGED vars
    BY <1>1 DEF SlotInv, OwnerTypes, Held, Blank, StaleGone, SeenGone, Holds, Gone, Owns, pc, vars,
       owner, history, Finished, heartbeat
  <1>2. ASSUME NEW t \in Tokens, FileStep(t)
        PROVE  SlotInv'
    BY <1>2, FileStepTypes, FileStepSlot DEF SlotInv, SlotParts, AllFit
  <1>3. ASSUME NEW t \in Tokens, RunStep(t)
        PROVE  SlotInv'
    BY <1>3, RunStepMoves, RunStepSlot DEF SlotInv
  <1>4. CASE Ask
    BY <1>4 DEF Ask, ReadOwner, WriteRequest, SlotInv, OwnerTypes, Held, Blank, StaleGone, SeenGone,
       Holds, Gone, Finished, Owns, pc, Files, NoFile, history, heartbeat
  <1> QED BY <1>1, <1>2, <1>3, <1>4, NextSplit

-----------------------------------------------------------------------------
(* The supervisor's operations keep its type.                               *)

\* The state of a supervisor before its first step.
LEMMA NewType == New \in Sup /\ NotRunning \in Run
  <1>1. New \in Sup
    BY DEF New, Sup, OwnerPhases, Reasons
  <1> HIDE DEF New
  <1> QED BY <1>1 DEF NotRunning, Run

\* The operators of SupervisorState keep its type.
LEMMA SupTypes ==
  ASSUME NEW s \in Sup
  PROVE  /\ Launched(s) \in Sup
         /\ \A why \in {"stop", "signal", "cli"} : RequestShutdown(s, why) \in Sup
         /\ \A x \in Surfaces : RecordSurfaceFailure(s, x) \in Sup
         /\ \A x \in Surfaces : MarkSurfaceStopped(s, x) \in Sup
         /\ ForwardRootShutdown(s) \in Sup /\ FinalizeAfterRuntimeExit(s) \in Sup
  <1>0. WoundDown(s.surface) \in [Surfaces -> OwnerPhases]
    BY DEF WoundDown, Sup, OwnerPhases
  <1>1. Launched(s) \in Sup
    BY DEF Launched, Sup, OwnerPhases
  <1>2. ASSUME NEW why \in {"stop", "signal", "cli"}
        PROVE  RequestShutdown(s, why) \in Sup
    <2>1. <<"requested", why>> \in Reasons
      BY DEF Reasons
    <2> HIDE DEF Reasons
    <2> QED BY <1>0, <2>1 DEF RequestShutdown, Sup, OwnerPhases
  <1>3. ASSUME NEW x \in Surfaces
        PROVE  RecordSurfaceFailure(s, x) \in Sup
    <2>1. <<"failed", x>> \in Reasons
      BY DEF Reasons
    <2>2. [WoundDown(s.surface) EXCEPT ![x] = "Failed"] \in [Surfaces -> OwnerPhases]
      BY <1>0 DEF OwnerPhases
    <2> HIDE DEF Reasons
    <2> QED BY <2>1, <2>2 DEF RecordSurfaceFailure, Sup, OwnerPhases
  <1>4. ASSUME NEW x \in Surfaces
        PROVE  MarkSurfaceStopped(s, x) \in Sup
    <2> DEFINE surface == [s.surface EXCEPT ![x] = "Stopped"]
               phase == IF AllTerminal(surface) /\ s.phase # "Failed" THEN "Stopped" ELSE s.phase
    <2>1. surface \in [Surfaces -> OwnerPhases] /\ phase \in OwnerPhases
      BY DEF Sup, OwnerPhases
    <2>2. MarkSurfaceStopped(s, x) \in
             {s, RecordSurfaceFailure(s, x), [s EXCEPT !.surface = surface, !.phase = phase]}
      BY DEF MarkSurfaceStopped
    <2> HIDE DEF surface, phase
    <2>3. [s EXCEPT !.surface = surface, !.phase = phase] \in Sup
      BY <2>1 DEF Sup
    <2> QED BY <1>3, <2>2, <2>3
  <1>5. ForwardRootShutdown(s) \in Sup
    BY DEF ForwardRootShutdown, Sup, OwnerPhases
  <1>6. FinalizeAfterRuntimeExit(s) \in Sup
    BY DEF FinalizeAfterRuntimeExit, Sup, OwnerPhases
  <1> QED BY <1>1, <1>2, <1>3, <1>4, <1>5, <1>6

-----------------------------------------------------------------------------
(* What the supervisor's operations do to its phase, its reason and to the  *)
(* surfaces whose phase is final.                                           *)

Final(s) == {x \in Surfaces : s.surface[x] \in {"Stopped", "Failed"}}

\* A request to shut down counts when it is the first reason.
LEMMA RequestFacts ==
  ASSUME NEW s \in Sup, NEW why \in {"stop", "signal", "cli"}
  PROVE  LET n == RequestShutdown(s, why)
         IN  /\ Final(n) = Final(s)
             /\ s.reason = NoReason => n.reason = <<"requested", why>> /\ n.phase = "Stopping"
             /\ s.reason # NoReason => n = s
  BY DEF RequestShutdown, WoundDown, Final, Sup

\* A failure makes the phase Failed for good.
LEMMA FailureFacts ==
  ASSUME NEW s \in Sup, NEW x \in Surfaces, x \notin Final(s)
  PROVE  LET n == RecordSurfaceFailure(s, x)
         IN  /\ Final(n) = Final(s) \cup {x}
             /\ n.phase = "Failed" /\ n.reason \in {s.reason} \cup ({"failed"} \X {x})
             /\ n.reason # NoReason
  <1> DEFINE n == RecordSurfaceFailure(s, x)
  <1>1. n = [phase   |-> "Failed",
             surface |-> [WoundDown(s.surface) EXCEPT ![x] = "Failed"],
             reason  |-> IF s.reason[1] = "failed" THEN s.reason ELSE <<"failed", x>>]
    BY DEF RecordSurfaceFailure, Final
  <1>2. \A y \in Surfaces : n.surface[y] = IF y = x THEN "Failed" ELSE WoundDown(s.surface)[y]
    BY <1>1 DEF WoundDown
  <1>3. Final(n) = Final(s) \cup {x}
    BY <1>2 DEF Final, WoundDown
  <1>4. n.reason = IF s.reason[1] = "failed" THEN s.reason ELSE <<"failed", x>>
    BY <1>1
  <1>5. n.reason # NoReason
    BY <1>4 DEF NoReason
  <1> QED BY <1>1, <1>3, <1>4, <1>5

\* A surface that stops unasked has failed.
LEMMA StoppedFacts ==
  ASSUME NEW s \in Sup, NEW x \in Surfaces, x \notin Final(s)
  PROVE  LET n == MarkSurfaceStopped(s, x)
         IN  /\ s.reason = NoReason => n = RecordSurfaceFailure(s, x)
             /\ s.reason # NoReason =>
                   /\ Final(n) = Final(s) \cup {x} /\ n.reason = s.reason
                   /\ n.phase = "Failed" <=> s.phase = "Failed"
  <1> DEFINE surface == [s.surface EXCEPT ![x] = "Stopped"]
             phase == IF AllTerminal(surface) /\ s.phase # "Failed" THEN "Stopped" ELSE s.phase
             n == MarkSurfaceStopped(s, x)
  <1>1. CASE s.reason = NoReason
    BY <1>1 DEF MarkSurfaceStopped, Final
  <1>2. CASE s.reason # NoReason
    <2>1. n = [s EXCEPT !.surface = surface, !.phase = phase]
      BY <1>2 DEF MarkSurfaceStopped, Final
    <2>2. phase = "Failed" <=> s.phase = "Failed"
      OBVIOUS
    <2> HIDE DEF phase
    <2>3. \A y \in Surfaces : n.surface[y] = IF y = x THEN "Stopped" ELSE s.surface[y]
      BY <2>1 DEF Sup
    <2>4. n.reason = s.reason /\ n.phase = phase
      BY <2>1 DEF Sup
    <2>5. Final(n) = Final(s) \cup {x}
      BY <2>3 DEF Final
    <2> QED BY <1>2, <2>2, <2>4, <2>5
  <1> QED BY <1>1, <1>2

\* Passing the shutdown on to the surfaces changes no outcome.
LEMMA ForwardFacts ==
  ASSUME NEW s \in Sup
  PROVE  LET n == ForwardRootShutdown(s)
         IN  /\ Final(n) = Final(s) /\ n.reason = s.reason
             /\ n.phase = "Failed" <=> s.phase = "Failed"
  BY DEF ForwardRootShutdown, Final, Sup

(* After the loop every surface is final, so the phase is.                  *)
LEMMA FinalizeFacts ==
  ASSUME NEW s \in Sup, Final(s) = Surfaces, s.reason # NoReason
  PROVE  LET n == FinalizeAfterRuntimeExit(s)
         IN  /\ n.phase = Verdict(s.phase = "Failed")
             /\ n.reason = s.reason
  <1>1. AllTerminal(s.surface)
    BY DEF Final, AllTerminal
  <1> HIDE DEF AllTerminal
  <1> QED BY <1>1 DEF FinalizeAfterRuntimeExit, Sup, Verdict

-----------------------------------------------------------------------------
(* The loop: a branch leaves what is heard, and forwarding makes it sound.  *)

Forwarded(r) ==
    [r EXCEPT !.sup = IF r.sup.reason # NoReason THEN ForwardRootShutdown(@) ELSE @,
              !.told = @ \/ r.sup.reason # NoReason]

\* Whatever the loop hears, it passes the shutdown on before its next turn.
LEMMA HandledSound ==
  ASSUME NEW r \in Run, NEW bad \in BOOLEAN, Heard(r, bad)
  PROVE  LET n == Forwarded(r)
         IN  n \in Run /\ Sound(n, bad) /\ n.sup.reason = r.sup.reason
  <1> DEFINE stop == r.sup.reason # NoReason
             s == IF stop THEN ForwardRootShutdown(r.sup) ELSE r.sup
             told == r.told \/ stop
             n == Forwarded(r)
  <1>1. r.sup \in Sup
    BY DEF Run
  <1>2. /\ s \in Sup /\ Final(s) = Final(r.sup) /\ s.reason = r.sup.reason
        /\ s.phase = "Failed" <=> r.sup.phase = "Failed"
    BY <1>1, SupTypes, ForwardFacts
  <1>3. told \in BOOLEAN /\ (told <=> stop)
    BY DEF Heard, Run
  <1>4. n = [r EXCEPT !.sup = s, !.told = told]
    BY DEF Forwarded
  <1> HIDE DEF s, told, n
  <1>5. n \in Run /\ n.sup = s /\ n.told = told /\ n.cli = r.cli /\ n.up = r.up
    BY <1>2, <1>3, <1>4 DEF Run
  <1>6. n.up = {x \in Surfaces : n.sup.surface[x] \notin {"Stopped", "Failed"}}
    BY <1>2, <1>5 DEF Heard, Final
  <1>7. Sound(n, bad)
    BY <1>2, <1>3, <1>5, <1>6 DEF Sound, Heard
  <1> QED BY <1>2, <1>5, <1>7 DEF n

\* A step of t's run that leaves it as n, and the others as they are.
Becomes(t, n) ==
    /\ run' = [run EXCEPT ![t] = n] /\ n \in Run
    /\ Moved(t, own'[t].pc)
    /\ failed' \in {failed, failed \cup {t}}
    /\ Fits(own'[t], n, t \in failed')
    /\ n.sup.reason = <<"requested", "stop">> =>
          run[t].sup.reason = <<"requested", "stop">> \/ stopfile = t
    /\ pc(t) \in Late => own'[t].pc = "dead" /\ failed' = failed

(* The shared end of the branches of the loop.                              *)
LEMMA HandledBecomes ==
  ASSUME OwnerTypes, run \in [Tokens -> Run], NEW t \in Tokens, NEW r \in Run,
         pc(t) \in {"loop", "joining"}, failed' \in {failed, failed \cup {t}},
         Handled(t, r), Heard(r, t \in failed'),
         r.sup.reason = <<"requested", "stop">> =>
            run[t].sup.reason = <<"requested", "stop">> \/ stopfile = t
  PROVE  Becomes(t, Forwarded(r))
  <1>1. run' = [run EXCEPT ![t] = Forwarded(r)] /\ Sync(t, "loop")
    BY DEF Handled, Forwarded
  <1>2. Syncs(own'[t], "loop") /\ Moved(t, "truncate")
    BY <1>1 DEF Sync, Syncs, Moved, At, OwnerTypes
  <1> DEFINE n == Forwarded(r)
             bad == t \in failed'
  <1>3. n \in Run /\ Sound(n, bad) /\ n.sup.reason = r.sup.reason
    <2>1. bad \in BOOLEAN /\ Heard(r, bad)
      OBVIOUS
    <2> HIDE DEF bad, n
    <2>2. LET m == Forwarded(r) IN m \in Run /\ Sound(m, bad) /\ m.sup.reason = r.sup.reason
      BY <2>1, HandledSound
    <2> QED BY <2>2 DEF n
  <1> HIDE DEF n
  <1>4. Fits(own'[t], n, t \in failed')
    BY <1>2, <1>3 DEF Fits, Syncs, Early, Late
  <1> QED BY <1>1, <1>2, <1>3, <1>4 DEF Becomes, n, Moved, Late

(* A shutdown is requested: of a sound run, what is heard stays true.       *)
LEMMA RequestedHeard ==
  ASSUME run \in [Tokens -> Run], NEW t \in Tokens, NEW bad \in BOOLEAN, Sound(run[t], bad),
         NEW why \in {"stop", "signal", "cli"}
  PROVE  /\ Requested(t, why) \in Run /\ Heard(Requested(t, why), bad)
         /\ Requested(t, why).sup.reason # NoReason
         /\ Requested(t, why).cli = run[t].cli
         /\ Requested(t, why).sup.reason \in {run[t].sup.reason, <<"requested", why>>}
  <1> DEFINE r == run[t]
             s == RequestShutdown(r.sup, why)
             n == Requested(t, why)
  <1>1. r \in Run /\ r.sup \in Sup
    BY DEF Run
  <1>2. /\ s \in Sup /\ Final(s) = Final(r.sup)
        /\ r.sup.reason = NoReason => s.reason = <<"requested", why>> /\ s.phase = "Stopping"
        /\ r.sup.reason # NoReason => s = r.sup
    BY <1>1, SupTypes, RequestFacts
  <1>3. s.reason # NoReason
    BY <1>2 DEF NoReason
  <1>4. n = [r EXCEPT !.sup = s]
    BY DEF Requested
  <1> HIDE DEF r, s, n
  <1>5. n \in Run /\ n.sup = s /\ n.told = r.told /\ n.cli = r.cli /\ n.up = r.up
    BY <1>1, <1>2, <1>4 DEF Run
  <1>6. n.up = {x \in Surfaces : n.sup.surface[x] \notin {"Stopped", "Failed"}}
    BY <1>2, <1>5 DEF Sound, Heard, Final, r
  <1>7. Heard(n, bad)
    BY <1>2, <1>3, <1>5, <1>6 DEF Sound, Heard, r
  <1> QED BY <1>2, <1>3, <1>5, <1>7 DEF n, r

\* Join's record, of a surface that ended well or not.
Joined(r, x, ok) ==
    [r EXCEPT !.up = @ \ {x},
              !.sup = IF ok THEN MarkSurfaceStopped(@, x) ELSE RecordSurfaceFailure(@, x)]

(* A surface is joined: it has failed unless it ended well and was told to. *)
LEMMA JoinedHeard ==
  ASSUME NEW r \in Run, NEW bad \in BOOLEAN, Sound(r, bad), NEW x \in r.up, NEW ok \in BOOLEAN
  PROVE  /\ Joined(r, x, ok) \in Run
         /\ Heard(Joined(r, x, ok), bad \/ ~(ok /\ r.told))
         /\ Joined(r, x, ok).sup.reason = r.sup.reason
               \/ Joined(r, x, ok).sup.reason = <<"failed", x>>
  <1> DEFINE s == IF ok THEN MarkSurfaceStopped(r.sup, x) ELSE RecordSurfaceFailure(r.sup, x)
             up == r.up \ {x}
             n == Joined(r, x, ok)
             worse == bad \/ ~(ok /\ r.told)
  <1>1. r.sup \in Sup /\ x \in Surfaces /\ x \notin Final(r.sup) /\ up \in SUBSET Surfaces
    BY DEF Run, Sound, Heard, Final
  <1>2. s \in Sup
    BY <1>1, SupTypes
  <1>3. /\ Final(s) = Final(r.sup) \cup {x} /\ s.reason # NoReason
        /\ s.reason = r.sup.reason \/ s.reason = <<"failed", x>>
        /\ s.phase = "Failed" <=> r.sup.phase = "Failed" \/ ~(ok /\ r.told)
    <2>1. CASE ok /\ r.told
      BY <1>1, <2>1, StoppedFacts DEF Sound, Heard
    <2>2. CASE ~(ok /\ r.told)
      <3>1. s = RecordSurfaceFailure(r.sup, x)
        BY <1>1, <2>2, StoppedFacts DEF Sound, Heard
      <3> QED BY <1>1, <2>2, <3>1, FailureFacts
    <2> QED BY <2>1, <2>2
  <1>4. n = [r EXCEPT !.up = up, !.sup = s]
    BY DEF Joined
  <1> HIDE DEF s, n, up
  <1>5. n \in Run /\ n.sup = s /\ n.told = r.told /\ n.cli = r.cli /\ n.up = up
    BY <1>1, <1>2, <1>4 DEF Run
  <1>6. n.up = {y \in Surfaces : n.sup.surface[y] \notin {"Stopped", "Failed"}}
    BY <1>3, <1>5 DEF Sound, Heard, Final, up
  <1>7. Heard(n, worse)
    BY <1>3, <1>5, <1>6 DEF Sound, Heard
  <1> QED BY <1>3, <1>5, <1>7 DEF n

-----------------------------------------------------------------------------
(* Every step of a run, and of the files, keeps each gateway in its place.  *)

(* An error on the way.                                                     *)
LEMMA LeaveBecomes ==
  ASSUME OwnerTypes, run \in [Tokens -> Run], NEW t \in Tokens, Leave(t), pc(t) \notin Late
  PROVE  Becomes(t, NotRunning)
  <1>1. own'[t] = At("halt") /\ Moved(t, "halt")
    BY DEF Leave, OwnerTypes, Moved, At
  <1>2. NotRunning.mode = None /\ NotRunning.sup.reason = NoReason
    BY DEF NotRunning, New
  <1>3. Fits(own'[t], NotRunning, t \in failed')
    BY <1>1, <1>2 DEF Fits, Syncs, At, Early, Late
  <1>4. Moved(t, own'[t].pc)
    BY <1>1 DEF Moved
  <1> QED BY <1>2, <1>3, <1>4, NewType DEF Leave, Becomes, NoReason

\* What a turn of the select! loop makes of a run.
LEMMA LoopStepBecomes ==
  ASSUME OwnerTypes, run \in [Tokens -> Run], NEW t \in Tokens, LoopStep(t),
         Fits(own[t], run[t], t \in failed)
  PROVE  \E n : Becomes(t, n)
  <1> DEFINE r == run[t]
             bad == t \in failed
  <1>0. r \in Run /\ bad \in BOOLEAN
    OBVIOUS
  <1>1. CASE SeeStop(t) \/ Interrupt(t)
    <2>1. PICK why \in {"stop", "signal"} :
             /\ Waiting(t) /\ Handled(t, Requested(t, why)) /\ UNCHANGED failed
             /\ why = "stop" => stopfile = t
      BY <1>1 DEF SeeStop, Interrupt
    <2>2. Sound(r, bad)
      BY <2>1 DEF Waiting, Fits, pc
    <2>3. /\ Requested(t, why) \in Run /\ Heard(Requested(t, why), bad)
          /\ Requested(t, why).sup.reason \in {r.sup.reason, <<"requested", why>>}
      BY <1>0, <2>2, RequestedHeard
    <2>4. Becomes(t, Forwarded(Requested(t, why)))
      BY <2>1, <2>3, HandledBecomes DEF Waiting
    <2> QED BY <2>4
  <1>2. CASE CliEnds(t)
    <2>1. PICK end \in {"none", "failed"} :
             /\ pc(t) = "joining"
             /\ failed' = IF end = "failed" THEN failed \cup {t} ELSE failed
             /\ Handled(t, [Requested(t, "cli") EXCEPT !.cli = end])
      BY <1>2 DEF CliEnds
    <2>2. Sound(r, bad) /\ r.cli = "up"
      BY <2>1 DEF Fits, pc
    <2> DEFINE q == Requested(t, "cli")
               n == [q EXCEPT !.cli = end]
    <2>3. /\ q \in Run /\ Heard(q, bad) /\ q.sup.reason # NoReason /\ q.cli = "up"
          /\ q.sup.reason \in {r.sup.reason, <<"requested", "cli">>}
      BY <1>0, <2>2, RequestedHeard
    <2> HIDE DEF q
    <2>4. n \in Run /\ n.sup = q.sup /\ n.told = q.told /\ n.cli = end /\ n.up = q.up
      BY <2>3 DEF Run
    <2>5. Heard(n, t \in failed')
      BY <2>1, <2>3, <2>4 DEF Heard
    <2>6. Handled(t, n)
      BY <2>1 DEF q
    <2> HIDE DEF n
    <2>7. Becomes(t, Forwarded(n))
      BY <2>1, <2>3, <2>4, <2>5, <2>6, HandledBecomes
    <2> QED BY <2>7
  <1>3. ASSUME NEW x \in Surfaces, Join(t, x)
        PROVE  \E n : Becomes(t, n)
    <2>1. PICK ok \in BOOLEAN :
             /\ pc(t) = "loop" /\ x \in r.up
             /\ failed' = IF ok /\ r.told THEN failed ELSE failed \cup {t}
             /\ Handled(t, Joined(r, x, ok))
      BY <1>3 DEF Join, Joined
    <2>2. Sound(r, bad)
      BY <2>1 DEF Fits, pc
    <2> DEFINE n == Joined(r, x, ok)
    <2>3. /\ n \in Run /\ Heard(n, bad \/ ~(ok /\ r.told))
          /\ n.sup.reason = r.sup.reason \/ n.sup.reason = <<"failed", x>>
      BY <1>0, <2>1, <2>2, JoinedHeard
    <2> HIDE DEF n
    <2>4. Heard(n, t \in failed')
      <3>1. (t \in failed') <=> (bad \/ ~(ok /\ r.told))
        BY <2>1
      <3> QED BY <2>3, <3>1 DEF Heard
    <2>5. Becomes(t, Forwarded(n))
      BY <2>1, <2>3, <2>4, HandledBecomes DEF n
    <2> QED BY <2>5
  <1> QED BY <1>1, <1>2, <1>3 DEF LoopStep

\* What any step makes of a run.
LEMMA RunStepBecomes ==
  ASSUME OwnerTypes, run \in [Tokens -> Run], NEW t \in Tokens, RunStep(t),
         Fits(own[t], run[t], t \in failed)
  PROVE  \E n : Becomes(t, n)
  <1>1. CASE LoopStep(t)
    BY <1>1, LoopStepBecomes
  <1>2. CASE Leave(t) /\ pc(t) \notin Late
    BY <1>2, LeaveBecomes
  <1>3. CASE SetUp(t) /\ ~Leave(t)
    <2>1. pc(t) = "setup" /\ Sync(t, "launch") /\ UNCHANGED <<run, failed>>
      BY <1>3 DEF SetUp
    <2>2. Syncs(own'[t], "launch") /\ Moved(t, "truncate")
      BY <2>1 DEF Sync, Syncs, Moved, At, OwnerTypes
    <2>3. Fits(own'[t], run[t], t \in failed')
      BY <2>1, <2>2 DEF Fits, Syncs, pc, Early, Late
    <2>4. run' = [run EXCEPT ![t] = run[t]] /\ Moved(t, own'[t].pc) /\ pc(t) \notin Late
      BY <2>1, <2>2 DEF Moved, Late
    <2> QED BY <2>1, <2>3, <2>4 DEF Becomes
  <1>4. CASE Launch(t) /\ ~Leave(t)
    <2>1. PICK m \in Modes :
             run' = [run EXCEPT ![t] =
                        [mode |-> m, sup |-> Launched(run[t].sup), up |-> Surfaces,
                         cli |-> IF m = "attached" THEN "idle" ELSE "none", told |-> FALSE]]
      BY <1>4 DEF Launch
    <2>2. pc(t) = "launch" /\ Sync(t, "loop") /\ UNCHANGED failed
      BY <1>4 DEF Launch
    <2>3. Syncs(own'[t], "loop") /\ Moved(t, "truncate")
      BY <2>2 DEF Sync, Syncs, Moved, At, OwnerTypes
    <2> DEFINE s == Launched(run[t].sup)
               cli == IF m = "attached" THEN "idle" ELSE "none"
               n == [mode |-> m, sup |-> s, up |-> Surfaces, cli |-> cli, told |-> FALSE]
    <2>4. run[t] = NotRunning /\ t \notin failed
      BY <2>2 DEF Fits, pc, Early
    <2>5. /\ s \in Sup /\ s.phase = "Running" /\ s.reason = NoReason
          /\ \A x \in Surfaces : s.surface[x] = "Running"
      <3>1. run[t].sup = New /\ New \in Sup /\ New.reason = NoReason
        BY <2>4, NewType DEF NotRunning, New
      <3> QED BY <3>1, SupTypes DEF Launched, Sup
    <2> HIDE DEF s
    <2>6. n \in Run
      BY <2>5 DEF Run
    <2>7. Sound(n, t \in failed')
      BY <2>2, <2>4, <2>5 DEF Sound, Heard
    <2>8. run' = [run EXCEPT ![t] = n] /\ n.sup.reason = NoReason
      BY <2>1, <2>5 DEF s
    <2> HIDE DEF n
    <2>9. Fits(own'[t], n, t \in failed')
      BY <2>3, <2>7 DEF Fits, Syncs, Early, Late
    <2>10. Moved(t, own'[t].pc) /\ pc(t) \notin Late
      BY <2>2, <2>3 DEF Moved, Late
    <2>11. Becomes(t, n)
      BY <2>2, <2>6, <2>8, <2>9, <2>10 DEF Becomes, NoReason
    <2> QED BY <2>11
  <1>5. CASE PollCli(t)
    <2> DEFINE n == [run[t] EXCEPT !.cli = "up"]
    <2>1. /\ pc(t) = "loop" /\ run[t].cli = "idle" /\ UNCHANGED failed
          /\ own' = [own EXCEPT ![t] = At("joining")]
      BY <1>5 DEF PollCli
    <2>2. run' = [run EXCEPT ![t] = n]
      BY <1>5 DEF PollCli
    <2>3. /\ n \in Run /\ n.sup = run[t].sup /\ n.up = run[t].up /\ n.told = run[t].told
          /\ n.cli = "up"
      BY DEF Run
    <2> HIDE DEF n
    <2>4. Sound(run[t], t \in failed)
      BY <2>1 DEF Fits, pc
    <2>5. Sound(n, t \in failed')
      BY <2>1, <2>3, <2>4 DEF Sound, Heard
    <2>6. own'[t].pc = "joining" /\ Moved(t, own'[t].pc) /\ pc(t) \notin Late
      BY <2>1 DEF OwnerTypes, Moved, At, Late
    <2>7. Fits(own'[t], n, t \in failed')
      BY <2>3, <2>5, <2>6 DEF Fits, Syncs, Early, Late
    <2> QED BY <2>1, <2>2, <2>3, <2>6, <2>7 DEF Becomes
  <1>6. CASE LeaveLoop(t)
    <2> DEFINE s == FinalizeAfterRuntimeExit(run[t].sup)
               n == [run[t] EXCEPT !.sup = s]
    <2>1. /\ pc(t) = "loop" /\ run[t].told /\ run[t].up = {} /\ UNCHANGED failed
          /\ Sync(t, "halt")
      BY <1>6 DEF LeaveLoop
    <2>2. run' = [run EXCEPT ![t] = n]
      BY <1>6 DEF LeaveLoop
    <2>3. Sound(run[t], t \in failed) /\ run[t].sup \in Sup
      BY <2>1 DEF Fits, pc, Run
    <2>4. Final(run[t].sup) = Surfaces /\ run[t].sup.reason # NoReason
      BY <2>1, <2>3 DEF Sound, Heard, Final
    <2>5. /\ s \in Sup /\ s.reason = run[t].sup.reason
          /\ s.phase = Verdict(run[t].sup.phase = "Failed")
      BY <2>3, <2>4, SupTypes, FinalizeFacts
    <2> HIDE DEF s
    <2>6. n \in Run /\ n.sup = s /\ n.cli = run[t].cli
      BY <2>5 DEF Run
    <2> HIDE DEF n
    <2>7. n.cli # "failed" => n.sup.phase = Verdict(t \in failed')
      BY <2>1, <2>3, <2>5, <2>6 DEF Sound, Heard, Verdict
    <2>8. Syncs(own'[t], "halt") /\ Moved(t, own'[t].pc) /\ pc(t) \notin Late
      BY <2>1 DEF Sync, Syncs, Moved, At, OwnerTypes, Late
    <2>9. Fits(own'[t], n, t \in failed')
      BY <2>7, <2>8 DEF Fits, Syncs, Early, Late
    <2> QED BY <2>1, <2>2, <2>5, <2>6, <2>8, <2>9 DEF Becomes
  <1>7. CASE Halt(t)
    <2>1. PICK phase \in OwnerPhases :
             /\ HaltBeat(t, phase) /\ failed' \in {failed, failed \cup {t}}
             /\ phase = Verdict(t \in failed')
      <3>1. /\ run[t].sup.phase \in OwnerPhases
            /\ pc(t) = "halt" /\ run[t].mode # None /\ run[t].cli # "failed" =>
                  run[t].sup.phase = Verdict(t \in failed)
        BY DEF Run, Sup, Fits, pc
      <3> QED BY <1>7, <3>1 DEF Halt, HaltBeat, OwnerPhases, Verdict
    <2>2. /\ own'[t].pc = "last" /\ own'[t].next = phase /\ pc(t) = "halt"
          /\ Moved(t, own'[t].pc)
      BY <2>1 DEF HaltBeat, OwnerTypes, Own, Moved
    <2>3. run' = [run EXCEPT ![t] = NotRunning]
      BY <1>7 DEF Halt
    <2>4. Fits(own'[t], NotRunning, t \in failed')
      BY <2>1, <2>2 DEF Fits, Syncs, Early
    <2>5. NotRunning.sup.reason = NoReason /\ pc(t) \notin Late
      BY <2>2 DEF NotRunning, New, Late
    <2>6. Becomes(t, NotRunning)
      BY <2>1, <2>2, <2>3, <2>4, <2>5, NewType DEF Becomes, NoReason
    <2> QED BY <2>6
  <1>8. CASE Broken(t)
    <2>1. CASE SyncFails(t) /\ failed' = failed \cup {t}
      <3>1. Leave(t) /\ pc(t) \notin Late
        BY <1>8, <2>1 DEF Broken, SyncFails, Leave, Late
      <3> QED BY <3>1, LeaveBecomes
    <2>2. CASE Die(t) /\ UNCHANGED failed
      <3>1. own'[t].pc = "dead" /\ Moved(t, own'[t].pc)
        BY <2>2 DEF Die, OwnerTypes, Moved, At
      <3>2. run' = [run EXCEPT ![t] = NotRunning]
        BY <1>8 DEF Broken
      <3>3. Fits(own'[t], NotRunning, t \in failed')
        BY <3>1 DEF Fits, Syncs, Early
      <3>4. NotRunning.sup.reason = NoReason
        BY DEF NotRunning, New
      <3>5. Becomes(t, NotRunning)
        BY <2>2, <3>1, <3>2, <3>3, <3>4, NewType DEF Becomes, NoReason
      <3> QED BY <3>5
    <2> QED BY <1>8, <2>1, <2>2 DEF Broken
  <1> QED
    BY <1>1, <1>2, <1>3, <1>4, <1>5, <1>6, <1>7, <1>8
    DEF RunStep, LoseControl, Waiting, SetUp, Launch, Late

(* A step that leaves the runs alone keeps its gateway in its place.        *)
LEMMA FileStepFits ==
  ASSUME OwnerTypes, NEW t \in Tokens, FileStep(t), Fits(own[t], run[t], t \in failed),
         UNCHANGED <<run, failed>>
  PROVE  /\ Moved(t, own'[t].pc) /\ Fits(own'[t], run'[t], t \in failed')
         /\ pc(t) \in Late => own'[t].pc \in Late
         /\ UNCHANGED copy
  <1>0. UNCHANGED copy
    BY DEF FileStep, Start, CreateAgain, TryCreate, Look, Remove, Fill, FillFails, Publish,
       PublishFails, Truncate, Write, BeatTruncates, BeatWrites, BeatPublishes, BeatFails,
       LastStatus, LastStatusFails, ClearStop, CheckOwned, Erase, Lapse, heartbeat
  <1>1. CASE Start(t) \/ CreateAgain(t) \/ Look(t) \/ Remove(t) \/ Fill(t) \/ Publish(t)
    <2>1. pc(t) \in Early
      BY <1>1 DEF Start, CreateAgain, Look, Remove, Fill, Publish, Early
    <2>2. CASE Remove(t)
      BY <1>0, <2>1, <2>2 DEF Remove, Moved, OwnerTypes, Own, Fits, Syncs, pc, Early, Late
    <2>3. CASE Look(t) /\ ~End(t)
      <3>1. own'[t].pc = "remove" /\ Moved(t, own'[t].pc)
        BY <2>3 DEF Look, Moved, OwnerTypes, Own
      <3> QED BY <1>0, <2>1, <3>1 DEF Fits, Syncs, pc, Early, Late
    <2>4. CASE ~Remove(t) /\ (Look(t) => End(t))
      <3>1. PICK step \in {"fill", "look", "end", "publish", "setup"} : Moved(t, step)
        BY <1>1, <2>4, MovedFacts DEF Start, CreateAgain, Fill, Publish
      <3> QED BY <1>0, <2>1, <3>1 DEF Moved, Fits, Syncs, pc, Early, Late
    <2> QED BY <1>0, <2>2, <2>3, <2>4
  <1>2. CASE FillFails(t) \/ PublishFails(t)
    <2>1. Moved(t, "end") /\ pc(t) \in Early
      BY <1>2, MovedFacts DEF FillFails, PublishFails, Early
    <2> QED BY <1>0, <2>1 DEF Moved, Fits, Syncs, pc, Early, Late
  <1>3. CASE Truncate(t)
    <2>1. own'[t].pc = "write" /\ own'[t].next = own[t].next /\ Moved(t, own'[t].pc)
      BY <1>3 DEF Truncate, Go, OwnerTypes, Own, Moved
    <2> QED BY <1>0, <1>3, <2>1 DEF Truncate, Fits, Syncs, pc, Early, Late
  <1>4. CASE Write(t)
    <2>1. pc(t) = "write" /\ own'[t].pc = own[t].next /\ Moved(t, own'[t].pc)
      BY <1>4 DEF Write, OwnerTypes, At, Moved
    <2> QED BY <1>0, <2>1 DEF Fits, Syncs, pc, Early, Late
  <1>5. CASE \/ BeatTruncates(t) \/ BeatWrites(t) \/ BeatPublishes(t) \/ BeatFails(t)
             \/ Lapse(t)
    BY <1>0, <1>5 DEF BeatTruncates, BeatWrites, BeatPublishes, BeatFails, Lapse, Moved, pc
  <1>6. CASE LastStatus(t) \/ LastStatusFails(t) \/ ClearStop(t) \/ CheckOwned(t) \/ Erase(t)
    <2>1. PICK step \in {"clear", "end", "check", "erase"} : Moved(t, step)
      BY <1>6, MovedFacts DEF LastStatus, LastStatusFails, ClearStop, CheckOwned, Erase
    <2>2. pc(t) \in Late
      BY <1>6 DEF LastStatus, LastStatusFails, ClearStop, CheckOwned, Erase, Late
    <2> QED BY <1>0, <2>1, <2>2 DEF Moved, Fits, Syncs, pc, Early, Late
  <1> QED BY Zenon, <1>0, <1>1, <1>2, <1>3, <1>4, <1>5, <1>6 DEF FileStep

(* The status snapshot is written by a heartbeat, by a gateway under way,   *)
(* or at last.                                                              *)
LEMMA FileStepStatus ==
  ASSUME OwnerTypes, NEW t \in Tokens, FileStep(t), Fits(own[t], run[t], t \in failed), CopyKept
  PROVE  \/ UNCHANGED status
         \/ status' = Active(t)
         \/ /\ status' = [token |-> t, phase |-> Verdict(t \in failed)]
            /\ own'[t].pc \in Late
  <1>1. CASE LastStatus(t)
    BY <1>1 DEF LastStatus, Fits, pc, OwnerTypes, At, Late
  <1>2. CASE BeatPublishes(t)
    BY <1>2 DEF BeatPublishes, CopyKept, Active, pc
  <1>3. CASE ~LastStatus(t) /\ ~BeatPublishes(t)
    BY <1>3 DEF FileStep, Start, CreateAgain, TryCreate, Look, Remove, Fill, FillFails, Publish,
       PublishFails, Truncate, Write, BeatTruncates, BeatWrites, BeatFails,
       LastStatusFails, ClearStop, CheckOwned, Erase, Lapse
  <1> QED BY <1>1, <1>2, <1>3

-----------------------------------------------------------------------------
(* The invariants together.                                                 *)

IInv == SlotInv /\ StopInv /\ RunInv

\* The initial states satisfy the invariant.
LEMMA InitIInv == Init => IInv
  <1> SUFFICES ASSUME Init PROVE IInv
    OBVIOUS
  <1>1. run \in [Tokens -> Run] /\ LastKept /\ CopyKept
    BY NewType DEF Init, OwnerInit, LastKept, CopyKept
  <1>2. AllFit
    BY DEF Init, OwnerInit, AllFit, Fits, Syncs, At, Early, Late
  <1>3. StopInv
    <2>1. NotRunning.sup.reason = NoReason
      BY DEF NotRunning, New
    <2> QED BY <2>1 DEF Init, OwnerInit, StopInv, StopHitsTarget, NoReason
  <1> QED BY <1>1, <1>2, <1>3, InitSlotInv DEF IInv, RunInv

\* Every step keeps the supervisor sound and the snapshots true.
LEMMA RunInvStep ==
  ASSUME IInv, [Next]_vars
  PROVE  RunInv'
  <1>0. OwnerTypes /\ run \in [Tokens -> Run] /\ AllFit /\ LastKept /\ CopyKept
    BY DEF IInv, SlotInv, RunInv
  <1>1. CASE UNCHANGED vars
    BY <1>0, <1>1 DEF RunInv, AllFit, LastKept, CopyKept, pc, vars, owner, heartbeat
  <1>2. ASSUME NEW t \in Tokens, FileStep(t), UNCHANGED <<run, failed>>
        PROVE  RunInv'
    <2>1. /\ Moved(t, own'[t].pc) /\ Fits(own'[t], run'[t], t \in failed')
          /\ pc(t) \in Late => own'[t].pc \in Late
          /\ UNCHANGED copy
      BY <1>0, <1>2, FileStepFits DEF AllFit
    <2>2. AllFit'
      BY <1>0, <1>2, <2>1 DEF AllFit, Moved
    <2>3. LastKept'
      <3>1. CASE UNCHANGED status
        BY <1>0, <1>2, <2>1, <3>1 DEF LastKept, Moved, pc
      <3>2. CASE status' = Active(t)
        BY <3>2 DEF LastKept, Active
      <3>3. CASE /\ status' = [token |-> t, phase |-> Verdict(t \in failed)]
                 /\ own'[t].pc \in Late
        BY <1>2, <3>3 DEF LastKept, pc, Late
      <3> QED BY <1>0, <1>2, <3>1, <3>2, <3>3, FileStepStatus DEF AllFit
    <2>4. CopyKept'
      BY <1>0, <1>2, <2>1 DEF CopyKept, Moved, pc
    <2> QED BY <1>0, <1>2, <2>2, <2>3, <2>4 DEF RunInv
  <1>3. ASSUME NEW t \in Tokens, RunStep(t)
        PROVE  RunInv'
    <2>1. PICK n : Becomes(t, n)
      BY <1>0, <1>3, RunStepBecomes DEF AllFit
    <2>2. UNCHANGED status
      BY <1>0, <1>3, RunStepMoves DEF RunMoves
    <2>3. run' \in [Tokens -> Run]
      BY <1>0, <2>1 DEF Becomes
    <2>4. AllFit'
      BY <1>0, <2>1 DEF AllFit, Becomes, Moved
    <2>5. LastKept'
      BY <1>0, <2>1, <2>2 DEF LastKept, Becomes, Moved, pc, Late
    <2>6. CopyKept'
      <3>1. CASE UNCHANGED copy
        BY <1>0, <2>1, <3>1 DEF CopyKept, Becomes, Moved, pc, Late
      <3>2. CASE ~UNCHANGED copy
        <4>1. PICK phase \in OwnerPhases :
                 /\ copy' \in {copy, [copy EXCEPT ![t] = phase]}
                 /\ own'[t].pc = "last" /\ own'[t].next = phase
          BY <1>0, <1>3, <3>2, CopyMoves
        <4>2. own'[t].next = Verdict(t \in failed')
          BY <2>1, <4>1 DEF Becomes, Fits
        <4>3. \A u \in Tokens : u # t => copy'[u] = copy[u]
          BY <1>0, <4>1 DEF OwnerTypes
        <4>4. copy'[t] = phase
          BY <1>0, <3>2, <4>1 DEF OwnerTypes
        <4> QED BY <1>0, <2>1, <4>1, <4>2, <4>3, <4>4 DEF CopyKept, Becomes, Moved, pc, Late
      <3> QED BY <3>1, <3>2
    <2> QED BY <2>3, <2>4, <2>5, <2>6 DEF RunInv
  <1>4. CASE Ask /\ UNCHANGED <<run, failed>>
    BY <1>0, <1>4 DEF Ask, ReadOwner, WriteRequest, RunInv, AllFit, LastKept, CopyKept, pc,
       heartbeat
  <1> QED BY <1>1, <1>2, <1>3, <1>4, NextSplit

\* Every step keeps stop requests with the gateway they were meant for.
LEMMA StopInvStep ==
  ASSUME IInv, [Next]_vars
  PROVE  StopInv'
  <1>0. OwnerTypes /\ run \in [Tokens -> Run] /\ AllFit /\ StopInv
    BY DEF IInv, SlotInv, RunInv
  <1>1. CASE UNCHANGED vars
    BY <1>0, <1>1 DEF StopInv, StopHitsTarget, vars, owner
  <1>2. ASSUME NEW t \in Tokens, FileStep(t), UNCHANGED <<run, failed>>
        PROVE  StopInv'
    <2>1. stopfile' \in {stopfile, NoFile} /\ UNCHANGED wanted
      BY <1>2 DEF FileStep, Start, CreateAgain, TryCreate, Look, Remove, Fill, FillFails, Publish,
         PublishFails, Truncate, Write, BeatTruncates, BeatWrites, BeatPublishes, BeatFails,
         LastStatus, LastStatusFails, ClearStop, CheckOwned, Erase, Lapse
    <2> QED BY <1>0, <1>2, <2>1 DEF StopInv, StopHitsTarget
  <1>3. ASSUME NEW t \in Tokens, RunStep(t)
        PROVE  StopInv'
    <2>1. PICK n : Becomes(t, n)
      BY <1>0, <1>3, RunStepBecomes DEF AllFit
    <2>2. UNCHANGED <<stopfile, wanted>>
      BY <1>0, <1>3, RunStepMoves DEF RunMoves
    <2> QED BY <1>0, <2>1, <2>2, FileNames DEF StopInv, StopHitsTarget, Becomes
  <1>4. CASE Ask /\ UNCHANGED <<run, failed>>
    BY <1>0, <1>4 DEF Ask, ReadOwner, WriteRequest, StopInv, StopHitsTarget
  <1> QED BY <1>1, <1>2, <1>3, <1>4, NextSplit

(* IInv is inductive, so it holds in every state that a gateway reaches.    *)
THEOREM Inductive == Spec => []IInv
  <1>1. IInv /\ [Next]_vars => IInv'
    <2>1. SUFFICES ASSUME IInv, [Next]_vars PROVE IInv'
      OBVIOUS
    <2>2. SlotInv'
      BY <2>1, SlotInvStep DEF IInv, RunInv
    <2> QED BY <2>1, <2>2, RunInvStep, StopInvStep DEF IInv
  <1> QED BY <1>1, InitIInv, PTL DEF Spec

(* Two gateways own the slot at once only after a file was removed that is  *)
(* not the one looked at, or a living gateway's file has become stale, or   *)
(* while one of them, which no longer serves, puts its files away (acquire, *)
(* the heartbeat task and remove_active_owner_if_owned).                    *)
THEOREM SlotCorrect == Spec => []SlotExclusive
  <1>1. IInv => SlotExclusive
    BY DEF IInv, SlotInv, Held, Holds, SlotExclusive
  <1> QED BY <1>1, Inductive, PTL

(* A gateway stops on request only if it was the one asked                  *)
(* (request_gateway_stop and wait_for_gateway_stop_request).                *)
THEOREM StopCorrect == Spec => []StopHitsTarget
  <1>1. IInv => StopHitsTarget
    BY DEF IInv, StopInv
  <1> QED BY <1>1, Inductive, PTL

(* The last snapshot says Failed of a run in which something failed, and    *)
(* Stopped of every other (finalize_from_supervisor, finalize_with_error).  *)
THEOREM LastPhaseCorrect == Spec => []LastPhaseTrue
  <1>1. IInv => LastPhaseTrue
    BY DEF IInv, RunInv, LastKept, LastPhaseTrue, Verdict
  <1> QED BY <1>1, Inductive, PTL
=============================================================================
