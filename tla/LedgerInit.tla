----------------------------- MODULE LedgerInit -----------------------------
(***************************************************************************)
(* How a ledger store comes into being: concurrent init commands, each     *)
(* with a contract of its own, and appends that may come too early, on a   *)
(* directory that does not exist at first.                                 *)
(*                                                                         *)
(* A directory entry is created by the first step that writes it.  Appends *)
(* are one step here (module LedgerStore takes them apart) and are counted *)
(* by the events and the snapshot they leave.                              *)
(***************************************************************************)
EXTENDS Integers

CONSTANTS
    Procs,          \* the clients
    Contracts,      \* the contracts they may initialise the store with
    NoProc,         \* nobody holds the lease
    Absent,         \* a file does not exist
    MaxEvents,      \* bound: events that are appended
    MaxCrashes      \* bound: crashes that are explored

ASSUME NoProcAssumption == NoProc \notin Procs

ASSUME AbsentAssumption == Absent \notin Contracts \union Nat

ASSUME BoundsAssumption == MaxEvents \in Nat /\ MaxCrashes \in Nat

VARIABLES
    lock,           \* .writer.lock exists
    contract,       \* contract.json
    events,         \* events.jsonl: how many events it has
    snapshot,       \* snapshot.json: how many events it was reduced from
    manifest,       \* store.json: the contract it names
    holder,         \* the process that holds the flock
    pc,             \* where each init is
    brings,         \* the contract each init brings
    passed,         \* history: how many inits have ended with PASS
    crashes         \* how many crashes there were

files == << contract, events, snapshot, manifest >>
vars == << lock, files, holder, pc, brings, passed, crashes >>

LeaseHeld == {"contract", "events", "snapshot", "manifest", "receipt"}

Init ==
    /\ lock = FALSE
    /\ contract = Absent /\ events = Absent /\ snapshot = Absent /\ manifest = Absent
    /\ holder = NoProc
    /\ pc = [p \in Procs |-> "idle"]
    /\ brings \in [Procs -> Contracts]
    /\ passed = 0
    /\ crashes = 0

Step(p, from, to) ==
    /\ pc[p] = from
    /\ pc' = [pc EXCEPT ![p] = to]
    /\ UNCHANGED << brings, crashes >>

\* The command ends, and its lease with it.
End(p) ==
    /\ pc' = [pc EXCEPT ![p] = "idle"]
    /\ holder' = (IF holder = p THEN NoProc ELSE holder)
    /\ UNCHANGED brings

-----------------------------------------------------------------------------
\* The store must have no entry.  This is checked before the lease is taken;
\* .writer.lock is the first entry a store gets and is never removed.
CheckEmpty(p, c) ==
    /\ pc[p] = "idle"
    /\ ~ lock
    /\ pc' = [pc EXCEPT ![p] = "lease"]
    /\ brings' = [brings EXCEPT ![p] = c]
    /\ UNCHANGED << lock, files, holder, passed, crashes >>

Acquire(p) ==
    /\ Step(p, "lease", "contract")
    /\ holder = NoProc
    /\ holder' = p
    /\ lock' = TRUE
    /\ UNCHANGED << files, passed >>

Busy(p) ==
    /\ pc[p] = "lease"
    /\ holder # NoProc
    /\ End(p)
    /\ UNCHANGED << lock, files, passed, crashes >>

WriteContract(p) ==
    /\ Step(p, "contract", "events")
    /\ contract' = brings[p]
    /\ UNCHANGED << lock, events, snapshot, manifest, holder, passed >>

\* Mutant: events.jsonl is opened for writing instead of exclusive creation.
CreateEvents_Truncating(p) ==
    /\ Step(p, "events", "snapshot")
    /\ events' = 0
    /\ UNCHANGED << lock, contract, snapshot, manifest, holder, passed >>

\* Exclusive creation fails when another init has come this far.
CreateEvents(p) ==
    /\ pc[p] = "events"
    /\ \/ /\ events = Absent
          /\ Step(p, "events", "snapshot")
          /\ events' = 0
          /\ UNCHANGED holder
       \/ /\ events # Absent
          /\ End(p)
          /\ UNCHANGED << events, crashes >>
    /\ UNCHANGED << lock, contract, snapshot, manifest, passed >>

\* Mutant: the manifest is written before the snapshot.
WriteSnapshot_AfterManifest(p) ==
    /\ Step(p, "snapshot", "manifest")
    /\ manifest' = brings[p]
    /\ UNCHANGED << lock, contract, events, snapshot, holder, passed >>

WriteSnapshot(p) ==
    /\ Step(p, "snapshot", "manifest")
    /\ snapshot' = 0
    /\ UNCHANGED << lock, contract, events, manifest, holder, passed >>

WriteManifest(p) ==
    /\ Step(p, "manifest", "receipt")
    /\ manifest' = brings[p]
    /\ UNCHANGED << lock, contract, events, snapshot, holder, passed >>

\* PASS, unless a file of the receipt's name exists.
WriteReceipt(p) ==
    /\ pc[p] = "receipt"
    /\ End(p)
    /\ passed' \in {passed, passed + 1}
    /\ UNCHANGED << lock, files, crashes >>

-----------------------------------------------------------------------------
\* replay_store accepts the store, and the snapshot is the replay.
Usable ==
    /\ manifest # Absent
    /\ contract = manifest
    /\ events # Absent
    /\ snapshot = events

\* An append fails unless it finds a usable store, and may fail then; it
\* leaves the lock file in any case.
AppendEvent(p) ==
    /\ pc[p] = "idle"
    /\ holder = NoProc
    /\ lock' = TRUE
    /\ \/ /\ Usable
          /\ events < MaxEvents
          /\ events' = events + 1
          /\ snapshot' = events + 1
       \/ UNCHANGED << events, snapshot >>
    /\ UNCHANGED << contract, manifest, holder, pc, brings, passed, crashes >>

Crash(p) ==
    /\ pc[p] # "idle"
    /\ crashes < MaxCrashes
    /\ crashes' = crashes + 1
    /\ End(p)
    /\ UNCHANGED << lock, files, passed >>

Next ==
    \E p \in Procs :
        \/ \E c \in Contracts : CheckEmpty(p, c)
        \/ Acquire(p) \/ Busy(p)
        \/ WriteContract(p) \/ CreateEvents(p) \/ WriteSnapshot(p)
        \/ WriteManifest(p) \/ WriteReceipt(p)
        \/ AppendEvent(p)
        \/ Crash(p)

Spec == Init /\ [][Next]_vars

-----------------------------------------------------------------------------
\* Every variable stays within its type, and exactly the init that is between
\* the flock and its release holds the lease.
TypeOK ==
    /\ lock \in BOOLEAN
    /\ contract \in Contracts \union {Absent}
    /\ events \in 0..MaxEvents \union {Absent}
    /\ snapshot \in 0..MaxEvents \union {Absent}
    /\ manifest \in Contracts \union {Absent}
    /\ holder \in Procs \union {NoProc}
    /\ pc \in [Procs -> LeaseHeld \union {"idle", "lease"}]
    /\ \A p \in Procs : pc[p] \in LeaseHeld <=> holder = p
    /\ brings \in [Procs -> Contracts]
    /\ passed \in Nat
    /\ crashes \in 0..MaxCrashes

\* Of all the inits that found the store empty, one at most is told that it
\* has initialised the store.
OneInitPasses == passed <= 1

\* store.json commits the initialisation: once it exists the other files do,
\* and outside a command the snapshot is the one of the events.
ManifestIsLast ==
    manifest # Absent =>
        /\ contract # Absent
        /\ events # Absent
        /\ snapshot = events
=============================================================================
