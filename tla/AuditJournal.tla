---------------------------- MODULE AuditJournal ----------------------------
(***************************************************************************)
(* The hash-chained audit journal: JsonlAuditSink, verification and repair *)
(* in crates/kernel/src/audit.rs.                                          *)
(*                                                                         *)
(* A sink opens the journal file, reads the hash of its last line, and     *)
(* from then on seals each event with the hash it remembers.  Every kernel *)
(* context opens a sink of its own (build_jsonl_audit_sink), also several  *)
(* contexts of one process on one path.  record holds the sink's mutex     *)
(* throughout and the file's lock while it writes, so it is one action.    *)
(*                                                                         *)
(* A line is an entry, or has been cut short by a failed write.  A hash is *)
(* the pair it is computed from: SHA-256 is taken to be free of            *)
(* collisions.  Blank lines and unknown algorithms are left out.           *)
(***************************************************************************)
EXTENDS Naturals, Sequences, FiniteSets

CONSTANTS
    Sinks,       \* the kernel contexts that open the journal
    Events,      \* audit events
    Legacy,      \* events of the unsealed lines an older release has left
    Faults,      \* how much of the line a failing record may have written
    MaxLines,    \* bound: lines of the journal
    MaxLegacy,   \* bound: of these, unsealed at the beginning
    MaxOpens,    \* bound: sinks opened
    None         \* no hash

ASSUME JournalAssumption ==
    /\ Legacy \in Events /\ None \notin Events
    /\ Faults \subseteq {"nothing", "part", "whole"}
    /\ MaxLines \in Nat /\ MaxLegacy \in Nat /\ MaxOpens \in Nat

VARIABLES
    journal,   \* the file: a sequence of lines
    last,      \* last_entry_hash of each sink
    open,      \* the sinks in use
    opens,     \* history: sinks opened so far
    written,   \* history: the event each line stands for
    damaged,   \* history: the event of a sealed line was changed from outside
    stray,     \* history: sinks that have written a line they do not remember
    forked     \* history: one of them has written again

histories == <<damaged, stray, forked>>
journalVars == <<journal, last, open, opens, written, histories>>

\* A line that a failed write has left without an end, and the same line once
\* the next write has been added to it.  Neither can be decoded.
Cut == [event |-> None, sealed |-> FALSE, prev |-> None, hash |-> "cut"]
Garbled == [event |-> None, sealed |-> FALSE, prev |-> None, hash |-> "garbled"]

Decodes(line) == line \notin {Cut, Garbled}

\* compute_audit_event_entry_hash.
Hash(event, prev) == <<event, prev>>

\* event_with_integrity.
Sealed(event, prev) ==
    [event |-> event, sealed |-> TRUE, prev |-> prev, hash |-> Hash(event, prev)]

Unsealed(event) == [event |-> event, sealed |-> FALSE, prev |-> None, hash |-> None]

-----------------------------------------------------------------------------
(* Reading the journal.                                                     *)

\* The entry that comes before line i in the chain, or None: unsealed lines
\* leave previous_hash as it is.
PreviousHash(j, i) == IF i = 1 THEN None ELSE j[i - 1].hash

\* The checks of verify_jsonl_audit_journal, which repair makes as well: each
\* line can be decoded, a sealed one continues the chain and has the hash of
\* its contents, and no unsealed one follows a sealed one.
ChainHolds(j) ==
    \A i \in 1..Len(j) :
        /\ Decodes(j[i])
        /\ j[i].sealed => /\ j[i].prev = PreviousHash(j, i)
                          /\ j[i].hash = Hash(j[i].event, j[i].prev)
        /\ ~j[i].sealed => \A k \in 1..i : ~j[k].sealed

\* Mutant: an unsealed line is sealed where it stands, the rest left alone.
RepairedInPlace(j) ==
    [i \in 1..Len(j) |-> IF j[i].sealed THEN j[i]
                         ELSE Sealed(j[i].event, PreviousHash(j, i))]

\* The lines repair_jsonl_audit_journal writes: from the first unsealed line,
\* which is the first one, every line is sealed again.
Repaired(j) ==
    LET reseal[i \in 1..Len(j)] ==
            Sealed(j[i].event, IF i = 1 THEN None ELSE reseal[i - 1].hash)
    IN  [i \in 1..Len(j) |-> reseal[i]]

\* load_last_audit_entry_hash, of a journal whose last line can be decoded.
TailHash(j) == IF j = <<>> THEN None ELSE j[Len(j)].hash

TailDecodes(j) == j # <<>> => Decodes(j[Len(j)])

\* write_all of one encoded line; a line that was cut short swallows it.
AddLine(j, line) ==
    IF j # <<>> /\ j[Len(j)] = Cut THEN [j EXCEPT ![Len(j)] = Garbled]
    ELSE Append(j, line)

-----------------------------------------------------------------------------
(* Actions.                                                                 *)

JournalInit ==
    /\ \E n \in 0..MaxLegacy :
          /\ journal = [i \in 1..n |-> Unsealed(Legacy)]
          /\ written = [i \in 1..n |-> Legacy]
    /\ last = [s \in Sinks |-> None]
    /\ open = {}
    /\ opens = 0
    /\ damaged = FALSE /\ stray = {} /\ forked = FALSE

\* JsonlAuditSink::new.  It fails on a last line it cannot decode, and then
\* there is no kernel context.
Open(s) ==
    /\ s \notin open /\ opens < MaxOpens
    /\ TailDecodes(journal)
    /\ last' = [last EXCEPT ![s] = TailHash(journal)]
    /\ open' = open \cup {s}
    /\ opens' = opens + 1
    /\ UNCHANGED <<journal, written, histories>>

\* The sink is dropped, or its process dies.
Close(s) ==
    /\ s \in open
    /\ open' = open \ {s}
    /\ last' = [last EXCEPT ![s] = None]
    /\ stray' = stray \ {s}
    /\ UNCHANGED <<journal, opens, written, damaged, forked>>

\* The whole line is written, sealed with the hash that the sink remembers.
Written(s, event) ==
    /\ s \in open
    /\ Len(journal) < MaxLines
    /\ journal' = AddLine(journal, Sealed(event, last[s]))
    /\ written' = IF Len(journal') = Len(journal) THEN written
                  ELSE Append(written, event)
    /\ forked' = IF s \in stray THEN TRUE ELSE forked
    /\ UNCHANGED <<open, opens, damaged>>

\* record succeeds.
RecordOk(s, event) ==
    /\ Written(s, event)
    /\ last' = [last EXCEPT ![s] = Hash(event, @)]
    /\ UNCHANGED stray

\* record fails and the remembered hash stays: write_all fails, at once or half
\* way, or the line is written and then the flush or the unlock fails.
RecordFails(s, event) ==
    /\ s \in open
    /\ UNCHANGED last
    /\ \/ "nothing" \in Faults /\ UNCHANGED <<journal, open, opens, written, histories>>
       \/ /\ "part" \in Faults
          /\ Len(journal) < MaxLines
          /\ journal' = IF journal # <<>> /\ journal[Len(journal)] = Cut THEN journal
                        ELSE Append(journal, Cut)
          /\ written' = IF Len(journal') = Len(journal) THEN written
                        ELSE Append(written, None)
          /\ UNCHANGED <<open, opens, histories>>
       \/ /\ "whole" \in Faults
          /\ Written(s, event)
          /\ stray' = stray \cup {s}

\* repair_jsonl_audit_journal, which is run while no daemon is: a journal that
\* fails the checks is refused, one without unsealed lines is left alone.
\* The new contents come in with one rename.
Repair ==
    /\ open = {}
    /\ ChainHolds(journal)
    /\ \E i \in 1..Len(journal) : ~journal[i].sealed
    /\ journal' = Repaired(journal)
    /\ UNCHANGED <<last, open, opens, written, histories>>

\* From outside, once: the event of a line becomes another one.
Damage(i, event) ==
    /\ ~damaged
    /\ Decodes(journal[i])
    /\ event # journal[i].event
    /\ journal' = [journal EXCEPT ![i].event = event]
    /\ written' = [written EXCEPT ![i] = event]
    /\ damaged' = journal[i].sealed
    /\ UNCHANGED <<last, open, opens, stray, forked>>

JournalNext ==
    \/ \E s \in Sinks :
          \/ Open(s)
          \/ Close(s)
          \/ \E event \in Events : RecordOk(s, event) \/ RecordFails(s, event)
    \/ Repair
    \/ \E i \in 1..Len(journal), event \in Events : Damage(i, event)

JournalSpec == JournalInit /\ [][JournalNext]_journalVars

-----------------------------------------------------------------------------
Intact == \A i \in 1..Len(journal) : Decodes(journal[i])

(* Verification fails on every journal with a line that cannot be decoded   *)
(* or a sealed event that was changed, whatever is written or repaired      *)
(* later.  It passes on every other one, although sinks come and go, writes *)
(* fail, and an older release left unsealed lines - except when record has  *)
(* written a whole line, returned an error and is used again: the sink then *)
(* seals with a hash that is not the last one (tests                        *)
(* verify_jsonl_audit_journal_accepts_freshly_written_chain and             *)
(* ..._rejects_tampered_chain_entry).  Lines removed from the end are       *)
(* outside of this: the code cannot see them.                               *)
VerifyExact ==
    /\ ChainHolds(journal) => Intact /\ ~damaged
    /\ Intact /\ ~damaged /\ ~forked => ChainHolds(journal)
=============================================================================
