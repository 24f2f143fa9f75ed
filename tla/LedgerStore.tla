---------------------------- MODULE LedgerStore ----------------------------
(***************************************************************************)
(* The store of the LoopX ledger: events.jsonl, snapshot.json and the      *)
(* writer lease, operated by concurrent processes that run the commands    *)
(* append, verify, replay and recover of ledger_cli.py, one step per       *)
(* system call that another process or a crash can come between.           *)
(*                                                                         *)
(* The store is initialised (module LedgerInit models init) and its        *)
(* contract fixed.  The reduced state is a function of the events, so a    *)
(* snapshot is represented by the events it was reduced from, and what the *)
(* reducer makes of a fresh event by a choice to refuse it.                *)
(***************************************************************************)
EXTENDS LedgerTypes

CONSTANTS
    Procs,          \* the clients; each runs one command at a time
    Operators,      \* the clients that run nothing but recover --apply
    NoProc,         \* nobody holds the lease
    NoEvent,        \* no append request is under way
    ShortWrites,    \* a write of one line may stop short without an error
    MaxEvents,      \* bound: events of the ledger that are explored
    MaxCrashes      \* bound: crashes and power losses that are explored

ASSUME ProcsAssumption == Operators \subseteq Procs /\ NoProc \notin Procs

ASSUME BoundsAssumption ==
    ShortWrites \in BOOLEAN /\ MaxEvents \in Nat /\ MaxCrashes \in Nat

VARIABLES
    log,            \* events.jsonl: the complete lines
    torn,           \* events.jsonl: a partial line follows them
    durable,        \* how many of the lines are known to be on disk
    synced,         \* events.jsonl is as its last fsync left it
    snapshot,       \* snapshot.json: the events it was reduced from
    holder,         \* the process that holds the flock on .writer.lock
    pc,             \* where each process is
    command,        \* the command each process runs
    request,        \* the event each append asks for
    seen,           \* the events each command works on
    view,           \* the events each client knows of, across commands
    receipts,       \* history: what receipts of the other commands have certified
    replays,        \* history: what receipts of replay have reported
    crashes         \* how many crashes there were

eventsFile == << log, torn, durable, synced >>
clients == << view, receipts, replays >>
vars == << eventsFile, snapshot, holder, pc, command, request, seen, clients, crashes >>

Commands == {"append", "inspect", "recover", "verify", "replay"}

\* Where a process is only while it holds the lease.
LeaseHeld == { "read", "decide", "write", "line", "fsync", "snapshot",
               "truncate", "tailsync", "rewrite", "receipt" }

Labels == LeaseHeld \union {"idle", "lease", "scan", "compare", "report"}

Init ==
    /\ log = << >> /\ torn = FALSE /\ durable = 0 /\ synced = TRUE
    /\ snapshot = << >>
    /\ holder = NoProc
    /\ pc = [p \in Procs |-> "idle"]
    /\ command = [p \in Procs |-> "verify"]
    /\ request = [p \in Procs |-> NoEvent]
    /\ seen = [p \in Procs |-> << >>]
    /\ view = [p \in Procs |-> << >>]
    /\ receipts = {} /\ replays = {}
    /\ crashes = 0

-----------------------------------------------------------------------------
\* Process p goes on within its command, having read the events s.
Step(p, from, to, s) ==
    /\ pc[p] = from
    /\ pc' = [pc EXCEPT ![p] = to]
    /\ seen' = [seen EXCEPT ![p] = s]
    /\ UNCHANGED << command, request, clients, crashes >>

\* The processes of ps are gone, and the lease with them if one held it.
Gone(ps) ==
    /\ pc' = [p \in Procs |-> IF p \in ps THEN "idle" ELSE pc[p]]
    /\ request' = [p \in Procs |-> IF p \in ps THEN NoEvent ELSE request[p]]
    /\ seen' = [p \in Procs |-> IF p \in ps THEN << >> ELSE seen[p]]
    /\ holder' = (IF holder \in ps THEN NoProc ELSE holder)
    /\ UNCHANGED command

\* A command ends with an error, or with a receipt that vouches for nothing.
Fail(p) == Gone({p}) /\ UNCHANGED << clients, crashes >>

\* A command ends with a receipt for the events s.
Certify(p, s) ==
    /\ Gone({p})
    /\ view' = [view EXCEPT ![p] = s]
    /\ receipts' = receipts \union {Summary(s)}
    /\ UNCHANGED << replays, crashes >>

-----------------------------------------------------------------------------
Begin(p, kind, at) ==
    /\ pc[p] = "idle"
    /\ pc' = [pc EXCEPT ![p] = at]
    /\ command' = [command EXCEPT ![p] = kind]
    /\ UNCHANGED << eventsFile, snapshot, holder, seen, clients, crashes >>

\* A client builds its next event, or the one it was not told the fate of,
\* on the history it knows of.
BeginAppend(p, id) ==
    /\ Begin(p, "append", "lease")
    /\ request' = [request EXCEPT ![p] = [id |-> id, prev |-> HeadDigest(view[p])]]

\* recover, with and without --apply.
BeginRecover(p, kind) == Begin(p, kind, "lease") /\ UNCHANGED request

\* verify and replay take no lease.
BeginScan(p, kind) == Begin(p, kind, "scan") /\ UNCHANGED request

\* Mutant: the lease file is opened but not locked.
Free_Unlocked == TRUE

\* The lease is a non-blocking flock.
Free == holder = NoProc

Acquire(p) ==
    /\ Free
    /\ Step(p, "lease", "read", << >>)
    /\ holder' = p
    /\ UNCHANGED << eventsFile, snapshot >>

Busy(p) ==
    /\ pc[p] = "lease"
    /\ ~ Free
    /\ Fail(p)
    /\ UNCHANGED << eventsFile, snapshot >>

-----------------------------------------------------------------------------
\* append: the full replay, which a torn tail stops.
ReadForAppend(p) ==
    /\ pc[p] = "read" /\ command[p] = "append"
    /\ \/ torn /\ Fail(p)
       \/ ~ torn /\ Step(p, "read", "decide", log) /\ UNCHANGED holder
    /\ UNCHANGED << eventsFile, snapshot >>

\* Mutant: the snapshot on disk is not compared with the replay.
SnapshotAgrees_Unchecked(p) == TRUE

SnapshotAgrees(p) == snapshot = seen[p]

\* The very event is in the ledger already.
Committed(p) == \E i \in 1..Len(seen[p]) : seen[p][i] = request[p]

Fresh(p) == \A i \in 1..Len(seen[p]) : seen[p][i].id # request[p].id

\* Mutant: the sequence number is checked, the previous digest is not.
Chained_SequenceOnly(p) == Len(request[p].prev) = Len(seen[p])

\* expected revision, sequence and previous digest all fit the replay.
Chained(p) == request[p].prev = HeadDigest(seen[p])

Noop(p) ==
    /\ pc[p] = "decide"
    /\ SnapshotAgrees(p) /\ Committed(p)
    /\ Certify(p, seen[p])
    /\ UNCHANGED << eventsFile, snapshot >>

\* Every other event may be refused: for a drifted snapshot, an id collision,
\* a stale revision or a broken chain it must be, and the event validator or
\* the reducer may refuse what is left.
Reject(p) ==
    /\ pc[p] = "decide"
    /\ ~ (SnapshotAgrees(p) /\ Committed(p))
    /\ Fail(p)
    /\ UNCHANGED << eventsFile, snapshot >>

Accept(p) ==
    /\ Step(p, "decide", "write", seen[p])
    /\ SnapshotAgrees(p) /\ Fresh(p) /\ Chained(p)
    /\ Len(log) < MaxEvents
    /\ UNCHANGED << eventsFile, snapshot, holder >>

\* The line may become visible, and reach the disk, in parts.
WritePart(p) ==
    /\ Step(p, "write", "line", seen[p])
    /\ torn' = TRUE
    /\ synced' = FALSE
    /\ UNCHANGED << log, durable, snapshot, holder >>

WriteLine(p) ==
    /\ \/ Step(p, "write", "fsync", seen[p])
       \/ Step(p, "line", "fsync", seen[p])
    /\ log' = Append(log, request[p])
    /\ torn' = FALSE
    /\ synced' = FALSE
    /\ UNCHANGED << durable, snapshot, holder >>

\* The unbuffered write returns how much it wrote, and nobody looks.
WriteShort(p) ==
    /\ ShortWrites
    /\ Step(p, "line", "fsync", seen[p])
    /\ UNCHANGED << eventsFile, snapshot, holder >>

\* Mutant: the file is flushed to the kernel but not to disk.
Fsync_FlushOnly(p) ==
    /\ Step(p, "fsync", "snapshot", seen[p])
    /\ UNCHANGED << eventsFile, snapshot, holder >>

Fsync(p) ==
    /\ Step(p, "fsync", "snapshot", seen[p])
    /\ durable' = Len(log)
    /\ synced' = TRUE
    /\ UNCHANGED << log, torn, snapshot, holder >>

\* The temporary file, its rename and the directory's fsync in one: a power
\* loss in between leaves the old or the new snapshot.
ReplaceSnapshot(p) ==
    /\ Step(p, "snapshot", "receipt", Append(seen[p], request[p]))
    /\ snapshot' = seen'[p]
    /\ UNCHANGED << eventsFile, holder >>

\* append and recover --apply end with a receipt, unless a file of its name
\* exists: then the command fails although its work is done.
WriteReceipt(p) ==
    /\ pc[p] = "receipt"
    /\ Certify(p, seen[p]) \/ Fail(p)
    /\ UNCHANGED << eventsFile, snapshot >>

-----------------------------------------------------------------------------
\* recover: without a torn tail there is nothing to do, and the receipt names
\* the snapshot as it is; without --apply a torn tail is only reported.
ReadForRecover(p) ==
    /\ pc[p] = "read"
    /\ \/ ~ torn /\ command[p] \in {"inspect", "recover"} /\ Certify(p, snapshot)
       \/ torn /\ command[p] = "inspect" /\ Fail(p)
       \/ /\ torn /\ command[p] = "recover"
          /\ Step(p, "read", "truncate", log)
          /\ UNCHANGED holder
    /\ UNCHANGED << eventsFile, snapshot >>

\* Mutant: the offset of the last complete line is taken for its end.
ValidPart_DropsLast(p) ==
    IF seen[p] = << >> THEN << >> ELSE SubSeq(seen[p], 1, Len(seen[p]) - 1)

ValidPart(p) == seen[p]

\* Mutant: the file is truncated to the length it has.
Truncate_AtEnd(p) ==
    /\ Step(p, "truncate", "tailsync", seen[p])
    /\ UNCHANGED << eventsFile, snapshot, holder >>

Truncate(p) ==
    /\ Step(p, "truncate", "tailsync", seen[p])
    /\ log' = ValidPart(p)
    /\ torn' = FALSE
    /\ synced' = FALSE
    /\ UNCHANGED << durable, snapshot, holder >>

SyncTail(p) ==
    /\ Step(p, "tailsync", "rewrite", seen[p])
    /\ durable' = Len(log)
    /\ synced' = TRUE
    /\ UNCHANGED << log, torn, snapshot, holder >>

\* The second replay, which must find no torn tail, and the new snapshot.
RewriteSnapshot(p) ==
    /\ ~ torn
    /\ Step(p, "rewrite", "receipt", log)
    /\ snapshot' = log
    /\ UNCHANGED << eventsFile, holder >>

-----------------------------------------------------------------------------
\* verify and replay read the events without the lease; verify goes on to the
\* snapshot, replay to its output.
Scan(p) ==
    /\ pc[p] = "scan"
    /\ \/ torn /\ Fail(p)
       \/ /\ ~ torn
          /\ \/ command[p] = "verify" /\ Step(p, "scan", "compare", log)
             \/ command[p] = "replay" /\ Step(p, "scan", "report", log)
          /\ UNCHANGED holder
    /\ UNCHANGED << eventsFile, snapshot >>

Compare(p) ==
    /\ pc[p] = "compare"
    /\ \/ SnapshotAgrees(p) /\ Certify(p, seen[p])
       \/ ~ SnapshotAgrees(p) /\ Fail(p)
    /\ UNCHANGED << eventsFile, snapshot >>

\* replay hands out what it has read, unless a file of the output's name
\* exists, and reports it in a receipt, unless one of that name exists.
Report(p) ==
    /\ pc[p] = "report"
    /\ \/ Fail(p)
       \/ /\ Gone({p})
          /\ view' = [view EXCEPT ![p] = seen[p]]
          /\ replays' \in {replays, replays \union {Summary(seen[p])}}
          /\ UNCHANGED << receipts, crashes >>
    /\ UNCHANGED << eventsFile, snapshot >>

-----------------------------------------------------------------------------
\* A process dies, or a system call of it fails: the files stay as they are.
Crash(p) ==
    /\ pc[p] # "idle"
    /\ crashes < MaxCrashes
    /\ crashes' = crashes + 1
    /\ Gone({p})
    /\ UNCHANGED << eventsFile, snapshot, clients >>

\* The host dies: what was not fsynced is on disk, in part, or not at all.
PowerLoss ==
    /\ crashes < MaxCrashes
    /\ crashes' = crashes + 1
    /\ \E kept \in {log, SubSeq(log, 1, durable)}, partial \in BOOLEAN :
          /\ synced => kept = log /\ partial = torn
          /\ Len(kept) > durable => partial = torn
          /\ log' = kept
          /\ torn' = partial
          /\ durable' = Len(kept)
    /\ synced' = TRUE
    /\ Gone(Procs)
    /\ UNCHANGED << snapshot, clients >>

-----------------------------------------------------------------------------
\* The steps of a command that has begun.
Run(p) ==
    \/ Acquire(p) \/ Busy(p)
    \/ ReadForAppend(p) \/ Noop(p) \/ Reject(p) \/ Accept(p)
    \/ WritePart(p) \/ WriteLine(p) \/ WriteShort(p) \/ Fsync(p) \/ ReplaceSnapshot(p)
    \/ ReadForRecover(p) \/ Truncate(p) \/ SyncTail(p) \/ RewriteSnapshot(p)
    \/ WriteReceipt(p)
    \/ Scan(p) \/ Compare(p) \/ Report(p)

Next ==
    \/ \E p \in Procs \ Operators :
        \/ \E id \in Ids : BeginAppend(p, id)
        \/ BeginRecover(p, "inspect")
        \/ \E kind \in {"verify", "replay"} : BeginScan(p, kind)
    \/ \E p \in Procs :
        \/ BeginRecover(p, "recover")
        \/ Run(p)
        \/ Crash(p)
    \/ PowerLoss

Spec == Init /\ [][Next]_vars

\* Commands that have begun go on, and an operator runs recover --apply over
\* and over, so that at times it finds the lease free.
Fairness ==
    /\ \A p \in Procs : WF_vars(Run(p))
    /\ \A p \in Operators :
        /\ SF_vars(Free /\ BeginRecover(p, "recover"))
        /\ SF_vars(Acquire(p))

FairSpec == Spec /\ Fairness

-----------------------------------------------------------------------------
\* Every variable stays within its type, and no more lines are counted as
\* durable than the file has.
TypeOK ==
    /\ log \in Seq(Events) /\ torn \in BOOLEAN /\ synced \in BOOLEAN
    /\ durable \in 0..Len(log)
    /\ snapshot \in Seq(Events)
    /\ holder \in Procs \union {NoProc}
    /\ pc \in [Procs -> Labels]
    /\ command \in [Procs -> Commands]
    /\ request \in [Procs -> Events \union {NoEvent}]
    /\ seen \in [Procs -> Seq(Events)]
    /\ view \in [Procs -> Seq(Events)]
    /\ receipts \subseteq Summaries /\ replays \subseteq Summaries
    /\ crashes \in 0..MaxCrashes

\* Two processes are never both between writer_lease's flock and its release:
\* whoever touches the files holds the lease.
SingleWriter == \A p \in Procs : pc[p] \in LeaseHeld => holder = p

\* events.jsonl is one hash chain without a repeated event id, whatever
\* clients build on and whatever a power loss took from what they had read.
ChainIntact ==
    \A i \in 1..Len(log) :
        /\ log[i].prev = HeadDigest(SubSeq(log, 1, i - 1))
        /\ \A j \in 1..(i - 1) : log[j].id # log[i].id

\* snapshot.json never runs ahead of what is durable in events.jsonl and is
\* at most one event behind it; behind a torn tail it is never stale, so
\* that recover --apply rewrites the snapshot the next append will expect.
SnapshotTracksLog ==
    /\ Len(snapshot) <= durable
    /\ Len(log) <= Len(snapshot) + 1
    /\ snapshot = SubSeq(log, 1, Len(snapshot))
    /\ torn => snapshot = log

\* The digest that the last event of a summary builds on.
Before(r) == SubSeq(r.head, 1, Len(r.head) - 1)

\* A receipt of append, verify or recover stays true whatever happens later:
\* the events it counts are still there, on disk, under the head digest it
\* states.  replay reads without the lease and may report an event that is not
\* on disk yet: what it reports stays true but for the last event.
ReceiptsAreKept ==
    /\ \A r \in receipts :
        /\ r.count <= durable
        /\ r.head = HeadDigest(SubSeq(log, 1, r.count))
    /\ \A r \in replays :
        /\ r.count <= durable + 1
        /\ r.count > 0 => Before(r) = HeadDigest(SubSeq(log, 1, r.count - 1))

History == INSTANCE LedgerHistory WITH history <- SubSeq(log, 1, durable)

\* The durable part of events.jsonl is the growing history that module
\* LedgerHistory promises: receipts name positions of it only, except that a
\* replay may report the one event that is being appended.
ImplementsHistory == History!Spec

\* A torn tail does not stay: recover --apply removes it.
TornTailIsRepaired == torn ~> ~ torn

\* "snapshot.json: reducer-owned, rebuildable cache": a snapshot that a crash
\* left behind the ledger is brought up to date again by some command.
StaleSnapshotIsRebuilt == (~ torn /\ snapshot # log) ~> (snapshot = log)
=============================================================================
