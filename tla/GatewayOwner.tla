---------------------------- MODULE GatewayOwner ----------------------------
(***************************************************************************)
(* Who owns the gateway: crates/daemon/src/gateway/state.rs.  Gateways are *)
(* processes that share a directory with an owner file, a status snapshot  *)
(* and a stop request; there is no lock but the exclusive creation of the  *)
(* owner file.  A step ends with a call to the file system or a lock.      *)
(*                                                                         *)
(* Every start of a gateway has its own owner token, and the file it       *)
(* creates is named after it: slot is the file that the path names, and    *)
(* inode[t] the contents of t's file, which t can write also when the path *)
(* names another one or none.  The owner file is unreadable ("empty":      *)
(* truncated, not yet written), says running with a heartbeat that is      *)
(* "fresh" or "stale" (none for 15 s), or says not running ("stopped").    *)
(* Of the status snapshot only the token and the last phase are kept: all  *)
(* that is written before says "Active".                                   *)
(* Writes of the snapshot and of the request are one step: whoever reads   *)
(* half of one reads it again.                                             *)
(***************************************************************************)
EXTENDS Naturals

CONSTANTS
    MaxStarts,   \* bound: gateways that are started
    MaxTrouble,  \* bound: crashes, failed writes and suspensions
    None

ASSUME OwnerAssumption == MaxStarts \in Nat \ {0} /\ MaxTrouble \in Nat

Tokens == 1..MaxStarts
NoFile == 0
Previous == MaxStarts + 1   \* a gateway that crashed before all others

VARIABLES
    slot, inode,    \* owner-active.json
    status,         \* status.json
    stopfile,       \* stop-request.json: the token it targets
    own,            \* gateway -> where it is, and what acquire remembers
    beat,           \* gateway -> its heartbeat task
    copy,           \* gateway -> the phase in the state that the heartbeat copied
    wanted,         \* the owners that a call of request_gateway_stop has read
    raced,          \* history: a file was removed that is not the one looked at
    lapsed,         \* history: the file of a living gateway became stale
    trouble         \* history: troubles so far

heartbeat == <<beat, copy>>
history == <<raced, lapsed, trouble>>

\* A gateway at a step: after its writes it goes on to next; attempts and the
\* file it has looked at belong to acquire.
At(step) == [pc |-> step, next |-> None, attempts |-> 0, seen |-> NoFile]

pc(t) == own[t].pc
Dead == {"off", "dead", "end"}

\* The directory is new, or a crashed gateway has left its files there.
OwnerInit ==
    /\ inode = [t \in Tokens \cup {Previous} |-> IF t = Previous THEN "stale" ELSE "empty"]
    /\ slot \in {NoFile, Previous} /\ stopfile \in {NoFile, Previous}
    /\ status = None
    /\ own = [t \in Tokens |-> At("off")]
    /\ beat = [t \in Tokens |-> "off"]
    /\ copy = [t \in Tokens |-> "Active"]
    /\ wanted = {}
    /\ raced = FALSE /\ lapsed = FALSE /\ trouble = 0

Go(t, step) == own' = [own EXCEPT ![t].pc = step]
End(t) == own' = [own EXCEPT ![t] = At("end")]

Trouble == trouble < MaxTrouble /\ trouble' = trouble + 1
Fault == Trouble /\ UNCHANGED <<raced, lapsed>>

\* fs::remove_file of the owner path, by someone who means the file f.
RemoveSlot(f) ==
    /\ slot' = NoFile
    /\ raced' = (raced \/ slot \notin {NoFile, f})

-----------------------------------------------------------------------------
(* acquire.                                                                 *)

\* OpenOptions::create_new, first or again.
TryCreate(t) ==
    /\ own' = [own EXCEPT ![t].attempts = @ + 1,
                          ![t].pc = IF slot = NoFile THEN "fill" ELSE "look"]
    /\ slot' = IF slot = NoFile THEN t ELSE slot
    /\ UNCHANGED <<inode, status, stopfile, heartbeat, wanted, history>>

Start(t) ==
    /\ pc(t) = "off"
    /\ \A u \in Tokens : u < t => pc(u) # "off"
    /\ TryCreate(t)

CreateAgain(t) == pc(t) = "create" /\ TryCreate(t)

\* Mutant: a file that cannot be read belongs to nobody.
InactiveOrUnreadable(f) == f # NoFile /\ inode[f] # "fresh"

\* persisted_gateway_owner_is_inactive, of a file that can be read.
Inactive(f) == f # NoFile /\ inode[f] \in {"stale", "stopped"}

\* The file exists: an inactive one is removed, and otherwise the start refused.
Look(t) ==
    /\ pc(t) = "look"
    /\ IF Inactive(slot) /\ own[t].attempts < 3
       THEN own' = [own EXCEPT ![t].pc = "remove", ![t].seen = slot]
       ELSE End(t)
    /\ UNCHANGED <<slot, inode, status, stopfile, heartbeat, wanted, history>>

Remove(t) ==
    /\ pc(t) = "remove"
    /\ RemoveSlot(own[t].seen)
    /\ own' = [own EXCEPT ![t].pc = "create", ![t].seen = NoFile]
    /\ UNCHANGED <<inode, status, stopfile, heartbeat, wanted, lapsed, trouble>>

\* The first write of the new file.
Fill(t) ==
    /\ pc(t) = "fill"
    /\ inode' = [inode EXCEPT ![t] = "fresh"]
    /\ Go(t, "publish")
    /\ UNCHANGED <<slot, status, stopfile, heartbeat, wanted, history>>

\* It fails: what is at the path by now is removed.
FillFails(t) ==
    /\ pc(t) = "fill"
    /\ Trouble
    /\ RemoveSlot(t)
    /\ End(t)
    /\ UNCHANGED <<inode, status, stopfile, heartbeat, wanted, lapsed>>

Active(t) == [token |-> t, phase |-> "Active"]

\* The first status snapshot; then the heartbeat task is spawned.
Publish(t) ==
    /\ pc(t) = "publish"
    /\ status' = Active(t)
    /\ beat' = [beat EXCEPT ![t] = "sleep"]
    /\ own' = [own EXCEPT ![t] = At("setup")]
    /\ UNCHANGED <<slot, inode, stopfile, copy, wanted, history>>

\* acquire returns an error and leaves its owner file behind.
PublishFails(t) ==
    /\ pc(t) = "publish"
    /\ Fault
    /\ End(t)
    /\ UNCHANGED <<slot, inode, status, stopfile, heartbeat, wanted>>

-----------------------------------------------------------------------------
(* set_control_surface_binding and sync_from_supervisor: the owner file,    *)
(* under its mutex, and then the status snapshot.                           *)

\* To be written, on the way to what comes next.
Sync(t, next) == own' = [own EXCEPT ![t] = [At("truncate") EXCEPT !.next = next]]

Truncate(t) ==
    /\ pc(t) = "truncate" /\ beat[t] # "write"
    /\ inode' = [inode EXCEPT ![t] = "empty"]
    /\ Go(t, "write")
    /\ UNCHANGED <<slot, status, stopfile, heartbeat, wanted, history>>

Write(t) ==
    /\ pc(t) = "write"
    /\ inode' = [inode EXCEPT ![t] = "fresh"]
    /\ status' = Active(t)
    /\ own' = [own EXCEPT ![t] = At(own[t].next)]
    /\ UNCHANGED <<slot, stopfile, heartbeat, wanted, history>>

\* A write fails: of the owner file before or after it was truncated, or of
\* the snapshot.
SyncFails(t) ==
    /\ pc(t) \in {"truncate", "write"}
    /\ Fault
    /\ inode' \in IF pc(t) = "write" THEN {inode, [inode EXCEPT ![t] = "fresh"]} ELSE {inode}
    /\ own' = [own EXCEPT ![t] = At("halt")]
    /\ UNCHANGED <<slot, status, stopfile, heartbeat, wanted>>

-----------------------------------------------------------------------------
(* The heartbeat task.  It copies the state and writes it, without an await *)
(* in between: abort() does not reach it there.                             *)

\* When it copies the state matters only to one that is "awake" while the
\* gateway halts: HaltBeat decides what that one has copied.
BeatTruncates(t) ==
    /\ beat[t] \in {"sleep", "awake"} /\ pc(t) # "write"
    /\ inode' = [inode EXCEPT ![t] = "empty"]
    /\ beat' = [beat EXCEPT ![t] = "write"]
    /\ UNCHANGED <<own, slot, status, stopfile, copy, wanted, history>>

BeatWrites(t) ==
    /\ beat[t] = "write"
    /\ inode' = [inode EXCEPT ![t] = IF copy[t] = "Active" THEN "fresh" ELSE "stopped"]
    /\ beat' = [beat EXCEPT ![t] = "status"]
    /\ UNCHANGED <<own, slot, status, stopfile, copy, wanted, history>>

Halted(t) == pc(t) \in {"last", "clear", "check", "erase", "end"}

BeatPublishes(t) ==
    /\ beat[t] = "status"
    /\ status' = [token |-> t, phase |-> copy[t]]
    /\ beat' = [beat EXCEPT ![t] = IF Halted(t) THEN "off" ELSE "sleep"]
    /\ UNCHANGED <<own, slot, inode, stopfile, copy, wanted, history>>

\* A write fails: the task ends, and the gateway goes on without it.
BeatFails(t) ==
    /\ beat[t] \in {"awake", "write", "status"}
    /\ Fault
    /\ beat' = [beat EXCEPT ![t] = "lost"]
    /\ UNCHANGED <<own, slot, inode, status, stopfile, copy, wanted>>

Beats(t) == BeatWrites(t) \/ BeatPublishes(t)

-----------------------------------------------------------------------------
(* finalize_from_supervisor and finalize_with_error.                        *)

\* The heartbeat is told to stop, and aborted if it sleeps; then the state says
\* not running, and phase is the last one.  A heartbeat that has just woken has
\* passed its test of the flag, and copies the state before or after that.
HaltBeat(t, phase) ==
    /\ pc(t) = "halt"
    /\ \/ beat[t] = "sleep" /\ beat' = [beat EXCEPT ![t] = "off"] /\ UNCHANGED copy
       \/ /\ beat[t] = "sleep" /\ beat' = [beat EXCEPT ![t] = "awake"]
          /\ copy' \in {copy, [copy EXCEPT ![t] = phase]}
       \/ beat[t] # "sleep" /\ UNCHANGED heartbeat
    /\ own' = [own EXCEPT ![t].pc = "last", ![t].next = phase]
    /\ UNCHANGED <<slot, inode, status, stopfile, wanted, history>>

LastStatus(t) ==
    /\ pc(t) = "last"
    /\ status' = [token |-> t, phase |-> own[t].next]
    /\ own' = [own EXCEPT ![t] = At("clear")]
    /\ UNCHANGED <<slot, inode, stopfile, heartbeat, wanted, history>>

\* The files stay as they are.
LastStatusFails(t) ==
    /\ pc(t) = "last"
    /\ Fault
    /\ End(t)
    /\ UNCHANGED <<slot, inode, status, stopfile, heartbeat, wanted>>

\* remove_stop_request_file, whoever it is for.
ClearStop(t) ==
    /\ pc(t) = "clear"
    /\ stopfile' = NoFile
    /\ Go(t, "check")
    /\ UNCHANGED <<slot, inode, status, heartbeat, wanted, history>>

\* remove_active_owner_if_owned: its own token must be read.
CheckOwned(t) ==
    /\ pc(t) = "check"
    /\ IF slot = t /\ inode[t] # "empty" THEN Go(t, "erase") ELSE End(t)
    /\ UNCHANGED <<slot, inode, status, stopfile, heartbeat, wanted, history>>

Erase(t) ==
    /\ pc(t) = "erase"
    /\ RemoveSlot(t)
    /\ End(t)
    /\ UNCHANGED <<inode, status, stopfile, heartbeat, wanted, lapsed, trouble>>

-----------------------------------------------------------------------------
(* request_gateway_stop, by any number of processes: nothing keeps one from *)
(* writing its request long after it has read the owner, if it ever does.   *)

\* The owner must be readable, running and fresh; otherwise there is nothing
\* to stop.
ReadOwner ==
    /\ slot # NoFile /\ inode[slot] = "fresh"
    /\ wanted' = wanted \cup {slot}
    /\ UNCHANGED <<own, slot, inode, status, stopfile, heartbeat, history>>

\* The request for f is written, unless the file has it already, which leaves
\* the same.
WriteRequest(f) ==
    /\ f \in wanted
    /\ stopfile' = f
    /\ UNCHANGED <<own, slot, inode, status, heartbeat, wanted, history>>

Ask == ReadOwner \/ \E f \in Tokens : WriteRequest(f)

-----------------------------------------------------------------------------
(* Time and trouble.                                                        *)

\* No heartbeat for 15 s: of a gateway that is gone, that has lost its
\* heartbeat task, or that was suspended.
Lapse(t) ==
    /\ inode[t] = "fresh"
    /\ inode' = [inode EXCEPT ![t] = "stale"]
    /\ \/ pc(t) \in {"dead", "end"} /\ beat[t] \in {"off", "lost"} /\ UNCHANGED history
       \/ pc(t) \notin Dead /\ beat[t] = "lost" /\ lapsed' = TRUE /\ UNCHANGED <<raced, trouble>>
       \/ pc(t) \notin Dead /\ Trouble /\ lapsed' = TRUE /\ UNCHANGED raced
    /\ UNCHANGED <<own, slot, status, stopfile, heartbeat, wanted>>

Die(t) ==
    /\ pc(t) \notin Dead
    /\ Fault
    /\ own' = [own EXCEPT ![t] = At("dead")]
    /\ beat' = [beat EXCEPT ![t] = "off"]
    /\ UNCHANGED <<slot, inode, status, stopfile, copy, wanted>>
=============================================================================
