------------------------- MODULE LedgerStore_proofs -------------------------
(***************************************************************************)
(* What the ledger store guarantees for any number of clients, events and  *)
(* crashes.  That the snapshot, the receipts and so the whole history are  *)
(* as promised needs writes that do not stop short without an error, the   *)
(* assumption ShortWrites = FALSE of those theorems (with short writes TLC *)
(* refutes ReceiptsAreKept); the lease, the chain and the lines on disk    *)
(* need no such assumption.                                                *)
(*                                                                         *)
(* The former rest on three facts that an append or a recovery establishes *)
(* on its way (Working): what its process has read is what the file holds  *)
(* for as long as it holds the lease; the snapshot may be behind the log   *)
(* by the one event that is being appended; and the log may be ahead of    *)
(* the disk by that event only.  The latter rest on less (SafeInv): what   *)
(* an append writes, and what a recovery cuts back to, is what is there.   *)
(***************************************************************************)
EXTENDS LedgerStore, SequenceTheorems, TLAPS

\* The event that p appends fits the history it has read.
Fits(p) == request[p] \in Events /\ Chained(p) /\ Fresh(p)

\* What p has read is what the file began with, and still begins with.
WasRead(p) == \E n \in 0..Len(log) : seen[p] = SubSeq(log, 1, n)

\* What a process knows at each of its steps.
Working(p) ==
    /\ (pc[p] \in {"lease", "read"} /\ command[p] = "append") \/ pc[p] = "decide"
          => request[p] \in Events
    /\ pc[p] = "decide" => seen[p] = log /\ ~ torn
    /\ pc[p] \in {"write", "line"} => seen[p] = log /\ snapshot = log /\ Fits(p)
    /\ pc[p] \in {"fsync", "snapshot"} =>
          /\ request[p] \in Events
          /\ seen[p] = snapshot
          /\ log = Append(snapshot, request[p])
          /\ ~ torn
    /\ pc[p] = "snapshot" => durable = Len(log) /\ synced
    /\ pc[p] = "truncate" => seen[p] = log /\ torn
    /\ pc[p] \in {"tailsync", "rewrite"} => snapshot = log
    /\ pc[p] = "receipt" => seen[p] = snapshot
    /\ pc[p] = "report" => WasRead(p)

\* A line whose snapshot is not written yet is on disk, or the file is unsynced.
AheadIsSynced == Len(snapshot) < durable => synced

IInv ==
    /\ TypeOK
    /\ SingleWriter
    /\ ChainIntact
    /\ SnapshotTracksLog
    /\ AheadIsSynced
    /\ ReceiptsAreKept
    /\ \A p \in Procs : Working(p)

-----------------------------------------------------------------------------
\* Histories and their prefixes.

Chain(s) ==
    \A i \in 1..Len(s) :
        /\ s[i].prev = HeadDigest(SubSeq(s, 1, i - 1))
        /\ \A j \in 1..(i - 1) : s[j].id # s[i].id

\* A prefix of a history is a history of the length asked for.
LEMMA PrefixFacts ==
    ASSUME NEW s \in Seq(Events), NEW n \in 0..Len(s)
    PROVE  /\ SubSeq(s, 1, n) \in Seq(Events)
           /\ Len(SubSeq(s, 1, n)) = n
           /\ \A i \in 1..n : SubSeq(s, 1, n)[i] = s[i]
           /\ n = Len(s) => SubSeq(s, 1, n) = s
<1>1. Len(s) \in Nat /\ \A i \in 1..n : s[i] \in Events
  BY LenProperties, ElementOfSeq
<1> QED
  BY <1>1, SubSeqProperties, SubSeqFull

\* A digest is one of the sequence of ids it commits to.
LEMMA DigestType ==
    ASSUME NEW s \in Seq(Events)
    PROVE  HeadDigest(s) \in Digests
<1>1. CASE s = << >>
  BY <1>1, EmptySeq DEF HeadDigest, Digests
<1>2. CASE s # << >>
  <2>1. s[Len(s)] \in Events
    BY <1>2, EmptySeq, ElementOfSeq
  <2> QED
    BY <1>2, <2>1, AppendProperties DEF HeadDigest, Digest, Digests, Events
<1> QED
  BY <1>1, <1>2

\* What a receipt states has the shape of a summary.
LEMMA SummaryType ==
    ASSUME NEW s \in Seq(Events)
    PROVE  Summary(s) \in Summaries
BY DigestType, LenProperties DEF Summary, Summaries

\* A short prefix of a prefix is that prefix of the whole.
LEMMA PrefixOfPrefix ==
    ASSUME NEW s \in Seq(Events), NEW n \in 0..Len(s), NEW m \in 0..n
    PROVE  SubSeq(SubSeq(s, 1, n), 1, m) = SubSeq(s, 1, m)
<1> DEFINE u == SubSeq(s, 1, n)
<1>1. /\ u \in Seq(Events) /\ Len(u) = n /\ \A i \in 1..n : u[i] = s[i]
      /\ Len(s) \in Nat
  BY PrefixFacts, LenProperties
<1>2. m \in 0..Len(s) /\ m \in 0..Len(u)
  BY <1>1
<1> HIDE DEF u
<1>3. SubSeq(u, 1, m) \in Seq(Events) /\ Len(SubSeq(u, 1, m)) = m
      /\ \A i \in 1..m : SubSeq(u, 1, m)[i] = u[i]
  BY <1>1, <1>2, PrefixFacts
<1>4. SubSeq(s, 1, m) \in Seq(Events) /\ Len(SubSeq(s, 1, m)) = m
      /\ \A i \in 1..m : SubSeq(s, 1, m)[i] = s[i]
  BY <1>2, PrefixFacts
<1>5. \A i \in 1..m : SubSeq(u, 1, m)[i] = SubSeq(s, 1, m)[i]
  BY <1>1, <1>3, <1>4
<1>6. SubSeq(u, 1, m) = SubSeq(s, 1, m)
  BY <1>3, <1>4, <1>5, SeqEqual
<1> QED
  BY <1>6 DEF u

\* Appending leaves the prefixes alone.
LEMMA PrefixOfAppend ==
    ASSUME NEW s \in Seq(Events), NEW e \in Events, NEW n \in 0..Len(s)
    PROVE  SubSeq(Append(s, e), 1, n) = SubSeq(s, 1, n)
<1> DEFINE u == Append(s, e)
<1>1. /\ u \in Seq(Events) /\ Len(u) = Len(s) + 1 /\ Len(s) \in Nat
      /\ \A i \in 1..Len(s) : u[i] = s[i]
  BY AppendProperties, LenProperties
<1> HIDE DEF u
<1>2. SubSeq(u, 1, n) \in Seq(Events) /\ Len(SubSeq(u, 1, n)) = n
      /\ \A i \in 1..n : SubSeq(u, 1, n)[i] = u[i]
  BY <1>1, PrefixFacts
<1>3. SubSeq(s, 1, n) \in Seq(Events) /\ Len(SubSeq(s, 1, n)) = n
      /\ \A i \in 1..n : SubSeq(s, 1, n)[i] = s[i]
  BY PrefixFacts
<1>4. SubSeq(u, 1, n) = SubSeq(s, 1, n)
  BY <1>1, <1>2, <1>3, SeqEqual
<1> QED
  BY <1>4 DEF u

\* What an append writes after a chain is a chain again.
LEMMA ChainAppend ==
    ASSUME NEW s \in Seq(Events), NEW e \in Events, Chain(s),
           e.prev = HeadDigest(s), \A j \in 1..Len(s) : s[j].id # e.id
    PROVE  Chain(Append(s, e))
<1> DEFINE u == Append(s, e)
<1>1. /\ Len(u) = Len(s) + 1 /\ Len(s) \in Nat
      /\ \A i \in 1..Len(s) : u[i] = s[i]
      /\ u[Len(s) + 1] = e
  BY AppendProperties, LenProperties
<1>2. \A n \in 0..Len(s) : SubSeq(u, 1, n) = SubSeq(s, 1, n)
  BY PrefixOfAppend
<1>3. SubSeq(s, 1, Len(s)) = s
  BY SubSeqFull
<1> HIDE DEF u
<1>4. SUFFICES ASSUME NEW i \in 1..Len(u)
               PROVE  /\ u[i].prev = HeadDigest(SubSeq(u, 1, i - 1))
                      /\ \A j \in 1..(i - 1) : u[j].id # u[i].id
  BY DEF Chain, u
<1>5. CASE i = Len(s) + 1
  <2>1. i - 1 = Len(s) /\ u[i] = e
    BY <1>1, <1>5
  <2>2. SubSeq(u, 1, i - 1) = s
    BY <1>1, <1>2, <1>3, <2>1
  <2> QED
    BY <1>1, <2>1, <2>2
<1>6. CASE i \in 1..Len(s)
  <2>1. u[i] = s[i] /\ SubSeq(u, 1, i - 1) = SubSeq(s, 1, i - 1)
    BY <1>1, <1>2, <1>6
  <2>2. \A j \in 1..(i - 1) : u[j] = s[j]
    BY <1>1, <1>6
  <2> QED
    BY <1>6, <2>1, <2>2 DEF Chain
<1> QED
  BY <1>1, <1>4, <1>5, <1>6

\* What a power loss leaves of a chain is a chain.
LEMMA ChainPrefix ==
    ASSUME NEW s \in Seq(Events), NEW n \in 0..Len(s), Chain(s)
    PROVE  Chain(SubSeq(s, 1, n))
<1> DEFINE u == SubSeq(s, 1, n)
<1>1. Len(u) = n /\ Len(s) \in Nat /\ \A i \in 1..n : u[i] = s[i]
  BY PrefixFacts, LenProperties
<1>2. \A m \in 0..n : SubSeq(u, 1, m) = SubSeq(s, 1, m)
  BY PrefixOfPrefix
<1> HIDE DEF u
<1>3. SUFFICES ASSUME NEW i \in 1..n
               PROVE  /\ u[i].prev = HeadDigest(SubSeq(u, 1, i - 1))
                      /\ \A j \in 1..(i - 1) : u[j].id # u[i].id
  BY <1>1 DEF Chain, u
<1>4. u[i] = s[i] /\ SubSeq(u, 1, i - 1) = SubSeq(s, 1, i - 1)
  BY <1>1, <1>2
<1>5. \A j \in 1..(i - 1) : u[j] = s[j]
  BY <1>1
<1>6. i \in 1..Len(s)
  BY <1>1
<1> QED
  BY <1>4, <1>5, <1>6 DEF Chain

-----------------------------------------------------------------------------
\* What receipts and replays state.

\* Without its last id, the digest of a chain is what the last event builds on.
LEMMA BeforeOfAppend ==
    ASSUME NEW d \in Digests, NEW id \in Ids
    PROVE  SubSeq(Append(d, id), 1, Len(Append(d, id)) - 1) = d
<1> DEFINE u == Append(d, id)
<1>1. /\ u \in Seq(Ids) /\ Len(u) = Len(d) + 1 /\ Len(d) \in Nat
      /\ \A i \in 1..Len(d) : u[i] = d[i]
  BY AppendProperties, LenProperties DEF Digests
<1> HIDE DEF u
<1>2. Len(u) - 1 = Len(d) /\ \A i \in 1..Len(d) : u[i] \in Ids
  BY <1>1, ElementOfSeq
<1>3. /\ SubSeq(u, 1, Len(d)) \in Seq(Ids) /\ Len(SubSeq(u, 1, Len(d))) = Len(d)
      /\ \A i \in 1..Len(d) : SubSeq(u, 1, Len(d))[i] = u[i]
  BY <1>1, <1>2, SubSeqProperties
<1>4. SubSeq(u, 1, Len(d)) = d
  BY <1>1, <1>3, SeqEqual DEF Digests
<1> QED
  BY <1>2, <1>4 DEF u

\* The two halves of ReceiptsAreKept.
Certified(r) == r.count <= durable /\ r.head = HeadDigest(SubSeq(log, 1, r.count))

Reported(r) ==
    /\ r.count <= durable + 1
    /\ r.count > 0 => Before(r) = HeadDigest(SubSeq(log, 1, r.count - 1))

\* They stay true while the durable lines stay.
LEMMA SummariesStay ==
    ASSUME TypeOK, durable' \in Nat, durable <= durable',
           \A n \in 0..durable : SubSeq(log', 1, n) = SubSeq(log, 1, n),
           NEW r \in Summaries
    PROVE  (Certified(r) => Certified(r)') /\ (Reported(r) => Reported(r)')
<1>1. durable \in Nat /\ r.count \in Nat
  BY LenProperties DEF TypeOK, Summaries
<1>2. ASSUME Certified(r) PROVE Certified(r)'
  <2>1. r.count \in 0..durable /\ r.count <= durable'
    BY <1>1, <1>2 DEF Certified
  <2>2. SubSeq(log', 1, r.count) = SubSeq(log, 1, r.count)
    BY <2>1
  <2> QED
    BY <1>2, <2>1, <2>2 DEF Certified
<1>3. ASSUME Reported(r) PROVE Reported(r)'
  <2>1. r.count <= durable' + 1
    BY <1>1, <1>3 DEF Reported
  <2>2. ASSUME r.count > 0
        PROVE  Before(r) = HeadDigest(SubSeq(log', 1, r.count - 1))
    <3>1. r.count - 1 \in 0..durable
      BY <1>1, <1>3, <2>2 DEF Reported
    <3> QED
      BY <1>3, <2>2, <3>1 DEF Reported
  <2> QED
    BY <2>1, <2>2 DEF Reported, Before
<1> QED
  BY <1>2, <1>3

\* So do receipts and reports, when no step adds to them.
LEMMA ReceiptsStay ==
    ASSUME TypeOK, ReceiptsAreKept, durable' \in Nat, durable <= durable',
           \A n \in 0..durable : SubSeq(log', 1, n) = SubSeq(log, 1, n),
           UNCHANGED << receipts, replays >>
    PROVE  ReceiptsAreKept'
<1>1. ASSUME NEW r \in receipts PROVE Certified(r)'
  <2>1. r \in Summaries /\ Certified(r)
    BY DEF TypeOK, ReceiptsAreKept, Certified
  <2> QED
    BY <2>1, SummariesStay
<1>2. ASSUME NEW r \in replays PROVE Reported(r)'
  <2>1. r \in Summaries /\ Reported(r)
    BY DEF TypeOK, ReceiptsAreKept, Reported
  <2> QED
    BY <2>1, SummariesStay
<1> QED
  BY <1>1, <1>2 DEF ReceiptsAreKept, Certified, Reported, Before

\* What a reader found in the file is durable but for its last event.
LEMMA ReportFits ==
    ASSUME TypeOK, ChainIntact, SnapshotTracksLog, NEW n \in 0..Len(log)
    PROVE  Reported(Summary(SubSeq(log, 1, n)))
<1> DEFINE h == SubSeq(log, 1, n)
<1>1. /\ log \in Seq(Events) /\ Len(log) \in Nat /\ Len(snapshot) \in Nat
      /\ durable \in 0..Len(log)
  BY LenProperties DEF TypeOK
<1>2. h \in Seq(Events) /\ Len(h) = n /\ \A i \in 1..n : h[i] = log[i]
  BY <1>1, PrefixFacts
<1>3. Summary(h).count = n /\ Summary(h).head = HeadDigest(h)
  BY <1>2 DEF Summary
<1>4. n <= durable + 1
  BY <1>1 DEF SnapshotTracksLog
<1> HIDE DEF h
<1>5. ASSUME n > 0
      PROVE  Before(Summary(h)) = HeadDigest(SubSeq(log, 1, n - 1))
  <2>1. n \in 1..Len(log) /\ n \in 1..n
    BY <1>1, <1>5
  <2>2. h # << >> /\ h[n] = log[n] /\ log[n] \in Events
    BY <1>1, <1>2, <2>1, ElementOfSeq, EmptySeq
  <2>3. HeadDigest(h) = Append(log[n].prev, log[n].id)
    BY <1>2, <2>2 DEF HeadDigest, Digest
  <2>4. log[n].prev \in Digests /\ log[n].id \in Ids
    BY <2>2 DEF Events
  <2>5. log[n].prev = HeadDigest(SubSeq(log, 1, n - 1))
    BY <2>1 DEF ChainIntact
  <2> QED
    BY <1>3, <2>3, <2>4, <2>5, BeforeOfAppend DEF Before
<1> QED
  BY <1>3, <1>4, <1>5 DEF Reported, h

-----------------------------------------------------------------------------
\* The steps of a process that reads, and of one that writes.

ClientsType ==
    /\ holder \in Procs \union {NoProc}
    /\ pc \in [Procs -> Labels]
    /\ command \in [Procs -> Commands]
    /\ request \in [Procs -> Events \union {NoEvent}]
    /\ seen \in [Procs -> Seq(Events)]

\* Whoever goes loses the lease, and everybody else is as before.
LEMMA GoneKeeps ==
    ASSUME TypeOK, SingleWriter, NEW ps \in SUBSET Procs, Gone(ps)
    PROVE  /\ ClientsType'
           /\ SingleWriter'
           /\ \A q \in ps : pc'[q] = "idle"
           /\ \A q \in Procs \ ps :
                 /\ pc'[q] = pc[q] /\ command'[q] = command[q]
                 /\ request'[q] = request[q] /\ seen'[q] = seen[q]
<1>1. << >> \in Seq(Events)
  BY EmptySeq
<1> QED
  BY <1>1, ProcsAssumption
  DEF Gone, TypeOK, ClientsType, SingleWriter, Labels, LeaseHeld

\* A step within a command concerns its process only.
LEMMA StepKeeps ==
    ASSUME TypeOK, SingleWriter, NEW p \in Procs, NEW from \in Labels,
           NEW to \in Labels, NEW s \in Seq(Events), Step(p, from, to, s),
           \/ from \in LeaseHeld /\ UNCHANGED holder
           \/ to \notin LeaseHeld /\ UNCHANGED holder
           \/ holder = NoProc /\ holder' = p
    PROVE  /\ ClientsType'
           /\ SingleWriter'
           /\ pc[p] = from /\ pc'[p] = to /\ seen'[p] = s
           /\ command'[p] = command[p] /\ request'[p] = request[p]
           /\ \A q \in Procs \ {p} :
                 /\ pc'[q] = pc[q] /\ command'[q] = command[q]
                 /\ request'[q] = request[q] /\ seen'[q] = seen[q]
BY ProcsAssumption DEF Step, TypeOK, ClientsType, SingleWriter

\* Receipts for the snapshot, reports of what is in the file, or none, keep
\* what the files promise.
LEMMA ReadingKeeps ==
    ASSUME IInv, UNCHANGED << eventsFile, snapshot >>,
           receipts' \subseteq receipts \union {Summary(snapshot)},
           replays' \subseteq replays \union {Summary(SubSeq(log, 1, n)) : n \in 0..Len(log)}
    PROVE  /\ ChainIntact' /\ SnapshotTracksLog' /\ AheadIsSynced'
           /\ ReceiptsAreKept'
           /\ receipts' \subseteq Summaries /\ replays' \subseteq Summaries
<1>1. ChainIntact' /\ SnapshotTracksLog' /\ AheadIsSynced'
  BY DEF IInv, ChainIntact, SnapshotTracksLog, AheadIsSynced, eventsFile
<1>2. Summary(snapshot) \in Summaries /\ Certified(Summary(snapshot))
  BY SummaryType DEF IInv, TypeOK, SnapshotTracksLog, Summary, Certified
<1>3. ASSUME NEW n \in 0..Len(log)
      PROVE  /\ Summary(SubSeq(log, 1, n)) \in Summaries
             /\ Reported(Summary(SubSeq(log, 1, n)))
  <2>1. SubSeq(log, 1, n) \in Seq(Events)
    BY PrefixFacts DEF IInv, TypeOK
  <2> QED
    BY <2>1, SummaryType, ReportFits DEF IInv
<1>4. \A r \in receipts : r \in Summaries /\ Certified(r)
  BY DEF IInv, TypeOK, ReceiptsAreKept, Certified
<1>5. \A r \in replays : r \in Summaries /\ Reported(r)
  BY DEF IInv, TypeOK, ReceiptsAreKept, Reported
<1>6. \A r \in receipts' : r \in Summaries /\ Certified(r)
  BY <1>2, <1>4
<1>7. \A r \in replays' : r \in Summaries /\ Reported(r)
  BY <1>3, <1>5
<1>8. ReceiptsAreKept'
  BY <1>6, <1>7 DEF ReceiptsAreKept, Certified, Reported, Before, eventsFile
<1> QED
  BY <1>1, <1>6, <1>7, <1>8

\* What the others know stays true when the files do not change.
LEMMA OthersKnow ==
    ASSUME IInv, UNCHANGED << eventsFile, snapshot >>, NEW q \in Procs,
           pc'[q] = pc[q], command'[q] = command[q],
           request'[q] = request[q], seen'[q] = seen[q]
    PROVE  Working(q)'
BY DEF IInv, Working, WasRead, Fits, Chained, Fresh, eventsFile

\* While one process writes, the others know at most how the file began.
LEMMA OthersIdle ==
    ASSUME IInv, NEW p \in Procs, pc[p] \in LeaseHeld, NEW q \in Procs \ {p},
           pc'[q] = pc[q], command'[q] = command[q], request'[q] = request[q],
           seen'[q] = seen[q],
           Len(log') \in Nat, Len(log) <= Len(log'),
           \A n \in 0..Len(log) : SubSeq(log', 1, n) = SubSeq(log, 1, n)
    PROVE  Working(q)'
<1>1. pc[q] \notin LeaseHeld
  BY DEF IInv, SingleWriter
<1>2. ASSUME WasRead(q) PROVE WasRead(q)'
  <2>1. PICK n \in 0..Len(log) : seen[q] = SubSeq(log, 1, n)
    BY <1>2 DEF WasRead
  <2>2. n \in 0..Len(log') /\ seen'[q] = SubSeq(log', 1, n)
    BY <2>1, LenProperties DEF IInv, TypeOK
  <2> QED
    BY <2>2 DEF WasRead
<1> QED
  BY <1>1, <1>2 DEF IInv, Working, LeaseHeld

\* Who is idle knows nothing.
LEMMA IdleKnowsNothing ==
    ASSUME NEW q \in Procs, pc'[q] = "idle"
    PROVE  Working(q)'
BY DEF Working

\* A command that ends without touching the files.
LEMMA Ending ==
    ASSUME IInv, NEW ps \in SUBSET Procs, Gone(ps),
           UNCHANGED << eventsFile, snapshot >>,
           receipts' \subseteq receipts \union {Summary(snapshot)},
           replays' \subseteq replays \union {Summary(SubSeq(log, 1, n)) : n \in 0..Len(log)},
           view' \in [Procs -> Seq(Events)], crashes' \in 0..MaxCrashes
    PROVE  IInv'
<1>1. /\ ClientsType' /\ SingleWriter'
      /\ \A q \in ps : pc'[q] = "idle"
      /\ \A q \in Procs \ ps :
            /\ pc'[q] = pc[q] /\ command'[q] = command[q]
            /\ request'[q] = request[q] /\ seen'[q] = seen[q]
  BY GoneKeeps DEF IInv
<1>2. /\ ChainIntact' /\ SnapshotTracksLog' /\ AheadIsSynced' /\ ReceiptsAreKept'
      /\ receipts' \subseteq Summaries /\ replays' \subseteq Summaries
  BY ReadingKeeps
<1>3. TypeOK'
  BY <1>1, <1>2 DEF IInv, TypeOK, ClientsType, eventsFile
<1>4. ASSUME NEW q \in Procs PROVE Working(q)'
  BY <1>1, OthersKnow, IdleKnowsNothing
<1> QED
  BY <1>1, <1>2, <1>3, <1>4 DEF IInv

\* A step that does not touch the files.
LEMMA Reading ==
    ASSUME IInv, NEW p \in Procs, NEW from \in Labels, NEW to \in Labels,
           NEW s \in Seq(Events), Step(p, from, to, s),
           \/ from \in LeaseHeld /\ UNCHANGED holder
           \/ to \notin LeaseHeld /\ UNCHANGED holder
           \/ holder = NoProc /\ holder' = p,
           UNCHANGED << eventsFile, snapshot >>,
           Working(p)'
    PROVE  IInv'
<1>1. /\ ClientsType' /\ SingleWriter'
      /\ \A q \in Procs \ {p} :
            /\ pc'[q] = pc[q] /\ command'[q] = command[q]
            /\ request'[q] = request[q] /\ seen'[q] = seen[q]
  BY StepKeeps DEF IInv
<1>2. UNCHANGED << clients, crashes >>
  BY DEF Step
<1>3. ChainIntact' /\ SnapshotTracksLog' /\ AheadIsSynced' /\ ReceiptsAreKept'
  BY <1>2, ReadingKeeps DEF clients
<1>4. TypeOK'
  BY <1>1, <1>2 DEF IInv, TypeOK, ClientsType, eventsFile, clients
<1>5. ASSUME NEW q \in Procs PROVE Working(q)'
  BY <1>1, OthersKnow
<1> QED
  BY <1>1, <1>3, <1>4, <1>5 DEF IInv

\* A step that writes to the files, without taking back what is durable.
LEMMA Writing ==
    ASSUME IInv, NEW p \in Procs, NEW from \in LeaseHeld, NEW to \in LeaseHeld,
           NEW s \in Seq(Events), Step(p, from, to, s), UNCHANGED holder,
           Working(p)',
           log' \in Seq(Events), torn' \in BOOLEAN, synced' \in BOOLEAN,
           durable' \in durable..Len(log'), snapshot' \in Seq(Events),
           Len(log) <= Len(log'),
           \A n \in 0..Len(log) : SubSeq(log', 1, n) = SubSeq(log, 1, n),
           ChainIntact', SnapshotTracksLog', AheadIsSynced'
    PROVE  IInv'
<1>1. from \in Labels /\ to \in Labels
  BY DEF Labels
<1>2. /\ ClientsType' /\ SingleWriter' /\ pc[p] = from
      /\ \A q \in Procs \ {p} :
            /\ pc'[q] = pc[q] /\ command'[q] = command[q]
            /\ request'[q] = request[q] /\ seen'[q] = seen[q]
  BY <1>1, StepKeeps DEF IInv
<1>3. UNCHANGED << clients, crashes >>
  BY DEF Step
<1>4. /\ durable \in Nat /\ Len(log) \in Nat /\ Len(log') \in Nat
      /\ durable' \in Nat /\ durable <= durable' /\ durable <= Len(log)
  BY LenProperties DEF IInv, TypeOK
<1>5. TypeOK'
  BY <1>2, <1>3, <1>4 DEF IInv, TypeOK, ClientsType, clients
<1>6. ReceiptsAreKept'
  <2>1. \A n \in 0..durable : SubSeq(log', 1, n) = SubSeq(log, 1, n)
    BY <1>4
  <2> QED
    BY <1>3, <1>4, <2>1, ReceiptsStay DEF IInv, clients
<1>7. ASSUME NEW q \in Procs PROVE Working(q)'
  BY <1>2, <1>4, <1>7, OthersIdle
<1> QED
  BY <1>2, <1>5, <1>6, <1>7 DEF IInv

-----------------------------------------------------------------------------
\* Every action keeps the invariant.

\* A store just initialised satisfies the invariant.
LEMMA InitEstablishes == Init => IInv
<1> SUFFICES ASSUME Init PROVE IInv
  OBVIOUS
<1>1. << >> \in Seq(Events) /\ Len(<< >>) = 0
  BY EmptySeq
<1>2. TypeOK
  <2>1. ClientsType
    BY <1>1 DEF Init, ClientsType, Labels, Commands
  <2>2. /\ view \in [Procs -> Seq(Events)]
        /\ receipts \subseteq Summaries /\ replays \subseteq Summaries
    BY <1>1 DEF Init
  <2>3. durable \in 0..Len(log) /\ crashes \in 0..MaxCrashes
    BY <1>1, BoundsAssumption DEF Init
  <2> QED
    BY <1>1, <2>1, <2>2, <2>3 DEF Init, TypeOK, ClientsType
<1>3. ChainIntact /\ SnapshotTracksLog /\ AheadIsSynced /\ ReceiptsAreKept
  BY <1>1, SubSeqEmpty
  DEF Init, ChainIntact, SnapshotTracksLog, AheadIsSynced, ReceiptsAreKept
<1>4. SingleWriter /\ \A p \in Procs : Working(p)
  BY DEF Init, SingleWriter, LeaseHeld, Working
<1> QED
  BY <1>2, <1>3, <1>4 DEF IInv

\* Starting a command only concerns the client that starts it.
LEMMA Begins ==
    ASSUME IInv, NEW p \in Procs, NEW kind \in Commands,
           NEW at \in {"lease", "scan"}, Begin(p, kind, at),
           request' \in [Procs -> Events \union {NoEvent}],
           kind = "append" => request'[p] \in Events,
           \A q \in Procs \ {p} : request'[q] = request[q]
    PROVE  IInv'
<1>1. UNCHANGED << eventsFile, snapshot, holder, seen, clients, crashes >>
  BY DEF Begin
<1>2. /\ ChainIntact' /\ SnapshotTracksLog' /\ AheadIsSynced' /\ ReceiptsAreKept'
  BY <1>1, ReadingKeeps DEF clients
<1>3. TypeOK'
  BY <1>1 DEF IInv, TypeOK, Begin, Labels, eventsFile, clients
<1>4. SingleWriter'
  BY <1>1 DEF IInv, TypeOK, SingleWriter, Begin, LeaseHeld
<1>5. Working(p)'
  BY DEF Begin, Working, IInv, TypeOK
<1>6. ASSUME NEW q \in Procs \ {p} PROVE Working(q)'
  BY <1>1, OthersKnow DEF Begin, IInv, TypeOK
<1> QED
  BY <1>2, <1>3, <1>4, <1>5, <1>6 DEF IInv

\* The three ways to start a command keep the invariant.
LEMMA BeginsKeep ==
    ASSUME IInv, NEW p \in Procs,
           \/ \E id \in Ids : BeginAppend(p, id)
           \/ \E kind \in {"inspect", "recover"} : BeginRecover(p, kind)
           \/ \E kind \in {"verify", "replay"} : BeginScan(p, kind)
    PROVE  IInv'
<1>1. ASSUME NEW id \in Ids, BeginAppend(p, id) PROVE IInv'
  <2>1. [id |-> id, prev |-> HeadDigest(view[p])] \in Events
    BY DigestType DEF IInv, TypeOK, Events
  <2> QED
    BY <1>1, <2>1, Begins DEF BeginAppend, Commands, IInv, TypeOK
<1>2. ASSUME NEW kind \in {"inspect", "recover"}, BeginRecover(p, kind) PROVE IInv'
  BY <1>2, Begins DEF BeginRecover, Commands, IInv, TypeOK
<1>3. ASSUME NEW kind \in {"verify", "replay"}, BeginScan(p, kind) PROVE IInv'
  BY <1>3, Begins DEF BeginScan, Commands, IInv, TypeOK
<1> QED
  BY <1>1, <1>2, <1>3

\* An error, or a receipt for the snapshot as it is.
LEMMA EndsKeep ==
    ASSUME IInv, NEW p \in Procs, UNCHANGED << eventsFile, snapshot >>,
           Fail(p) \/ Certify(p, snapshot)
    PROVE  IInv'
<1>1. CASE Fail(p)
  BY <1>1, Ending DEF Fail, clients, IInv, TypeOK
<1>2. CASE Certify(p, snapshot)
  BY <1>2, Ending DEF Certify, IInv, TypeOK
<1> QED
  BY <1>1, <1>2

\* Taking the lease, or finding it taken, keeps the invariant.
LEMMA LeaseKeeps ==
    ASSUME IInv, NEW p \in Procs, Acquire(p) \/ Busy(p)
    PROVE  IInv'
<1>1. CASE Acquire(p)
  <2>1. << >> \in Seq(Events) /\ "lease" \in Labels /\ "read" \in Labels
    BY EmptySeq DEF Labels, LeaseHeld
  <2>2. pc[p] = "lease" /\ pc'[p] = "read"
        /\ command'[p] = command[p] /\ request'[p] = request[p]
    BY <1>1 DEF Acquire, Step, IInv, TypeOK
  <2>3. Working(p)'
    BY <2>2 DEF Working, IInv
  <2> QED
    BY <1>1, <2>1, <2>3, Reading DEF Acquire, Free
<1>2. CASE Busy(p)
  BY <1>2, EndsKeep DEF Busy
<1> QED
  BY <1>1, <1>2

\* Up to its decision an append only reads; what it accepts fits the log.
LEMMA DecisionKeeps ==
    ASSUME IInv, NEW p \in Procs,
           ReadForAppend(p) \/ Noop(p) \/ Reject(p) \/ Accept(p)
    PROVE  IInv'
<1> USE DEF Labels, LeaseHeld
<1>1. log \in Seq(Events) /\ seen[p] \in Seq(Events)
  BY DEF IInv, TypeOK
<1>2. CASE ReadForAppend(p)
  <2>1. CASE Fail(p)
    BY <1>2, <2>1, EndsKeep DEF ReadForAppend
  <2>2. CASE ~ torn /\ Step(p, "read", "decide", log) /\ UNCHANGED holder
    <3>1. Working(p)'
      BY <1>1, <1>2, <2>2, StepKeeps DEF ReadForAppend, Working, IInv, eventsFile
    <3> QED
      BY <1>1, <1>2, <2>2, <3>1, Reading DEF ReadForAppend
  <2> QED
    BY <1>2, <2>1, <2>2 DEF ReadForAppend
<1>3. CASE Noop(p)
  BY <1>3, EndsKeep DEF Noop, SnapshotAgrees
<1>4. CASE Reject(p)
  BY <1>4, EndsKeep DEF Reject
<1>5. CASE Accept(p)
  <2>1. pc[p] = "decide" /\ UNCHANGED << eventsFile, snapshot, holder >>
    BY <1>5 DEF Accept, Step
  <2>2. request[p] \in Events /\ seen[p] = log /\ ~ torn /\ snapshot = log
    BY <1>5, <2>1 DEF IInv, Working, Accept, SnapshotAgrees
  <2>3. Working(p)'
    BY <1>1, <1>5, <2>1, <2>2, StepKeeps
    DEF Accept, Working, Fits, Chained, Fresh, IInv, eventsFile
  <2> QED
    BY <1>1, <1>5, <2>1, <2>3, Reading DEF Accept
<1> QED
  BY <1>2, <1>3, <1>4, <1>5

\* A partial line tears the tail while the snapshot is up to date.
LEMMA WritePartKeeps ==
    ASSUME IInv, NEW p \in Procs, WritePart(p)
    PROVE  IInv'
<1> USE DEF LeaseHeld
<1>1. /\ pc[p] = "write" /\ pc'[p] = "line" /\ seen' = seen /\ request' = request
      /\ Step(p, "write", "line", seen[p]) /\ seen[p] \in Seq(Events)
      /\ torn' = TRUE /\ synced' = FALSE
      /\ UNCHANGED << log, durable, snapshot, holder >>
  BY DEF WritePart, Step, IInv, TypeOK
<1>2. seen[p] = log /\ snapshot = log /\ Fits(p)
  BY <1>1 DEF IInv, Working
<1>3. Working(p)'
  BY <1>1, <1>2 DEF Working, Fits, Chained, Fresh
<1>4. ChainIntact' /\ SnapshotTracksLog' /\ AheadIsSynced'
  BY <1>1, <1>2 DEF IInv, TypeOK, ChainIntact, SnapshotTracksLog, AheadIsSynced
<1>5. /\ log' \in Seq(Events) /\ snapshot' \in Seq(Events)
      /\ torn' \in BOOLEAN /\ synced' \in BOOLEAN
  BY <1>1 DEF IInv, TypeOK
<1>6. durable' \in durable..Len(log')
  BY <1>1 DEF IInv, TypeOK
<1> QED
  BY <1>1, <1>3, <1>4, <1>5, <1>6, Writing

\* The complete line extends the chain and puts the log ahead of the snapshot.
LEMMA WriteLineKeeps ==
    ASSUME IInv, NEW p \in Procs, WriteLine(p)
    PROVE  IInv'
<1> USE DEF LeaseHeld
<1>1. PICK from \in {"write", "line"} : Step(p, from, "fsync", seen[p])
  BY DEF WriteLine
<1>2. /\ pc[p] = from /\ pc'[p] = "fsync" /\ seen' = seen /\ request' = request
      /\ seen[p] \in Seq(Events)
      /\ log' = Append(log, request[p]) /\ torn' = FALSE /\ synced' = FALSE
      /\ UNCHANGED << durable, snapshot, holder >>
  BY <1>1 DEF WriteLine, Step, IInv, TypeOK
<1>3. seen[p] = log /\ snapshot = log /\ Fits(p)
  BY <1>2 DEF IInv, Working
<1>4. log \in Seq(Events) /\ request[p] \in Events /\ durable \in 0..Len(log)
  BY <1>3 DEF IInv, TypeOK, Fits
<1>5. Len(log) \in Nat /\ log' \in Seq(Events) /\ Len(log') = Len(log) + 1
  BY <1>2, <1>4, AppendProperties, LenProperties
<1>6. Working(p)'
  BY <1>2, <1>3, <1>4 DEF Working
<1>7. ChainIntact'
  <2>1. Chain(Append(log, request[p]))
    BY <1>3, <1>4, ChainAppend DEF Fits, Chained, Fresh, IInv, ChainIntact, Chain
  <2> QED
    BY <1>2, <2>1 DEF Chain, ChainIntact
<1>8. \A n \in 0..Len(log) : SubSeq(log', 1, n) = SubSeq(log, 1, n)
  BY <1>2, <1>4, PrefixOfAppend
<1>9. SnapshotTracksLog' /\ AheadIsSynced'
  <2>1. Len(snapshot) = Len(log) /\ durable = Len(log)
    <3>1. Len(snapshot) <= durable
      BY DEF IInv, SnapshotTracksLog
    <3> QED
      BY <1>3, <1>4, <1>5, <3>1
  <2>2. SubSeq(log', 1, Len(log)) = log
    BY <1>4, <1>5, <1>8, SubSeqFull
  <2> QED
    BY <1>2, <1>3, <1>5, <2>1, <2>2 DEF SnapshotTracksLog, AheadIsSynced
<1>10. durable' \in durable..Len(log') /\ Len(log) <= Len(log')
  BY <1>2, <1>4, <1>5
<1> QED
  BY <1>1, <1>2, <1>5, <1>6, <1>7, <1>8, <1>9, <1>10, Writing DEF IInv, TypeOK

\* The fsync makes the new line durable before the snapshot counts it.
LEMMA FsyncKeeps ==
    ASSUME IInv, NEW p \in Procs, Fsync(p)
    PROVE  IInv'
<1> USE DEF LeaseHeld
<1>1. /\ pc[p] = "fsync" /\ pc'[p] = "snapshot" /\ seen' = seen /\ request' = request
      /\ Step(p, "fsync", "snapshot", seen[p]) /\ seen[p] \in Seq(Events)
      /\ durable' = Len(log) /\ synced' = TRUE
      /\ UNCHANGED << log, torn, snapshot, holder >>
  BY DEF Fsync, Step, IInv, TypeOK
<1>2. /\ request[p] \in Events /\ seen[p] = snapshot
      /\ log = Append(snapshot, request[p]) /\ ~ torn
  BY <1>1 DEF IInv, Working
<1>3. /\ Len(log) \in Nat /\ log \in Seq(Events) /\ snapshot \in Seq(Events)
      /\ Len(snapshot) \in Nat /\ durable \in 0..Len(log)
      /\ torn \in BOOLEAN
  BY LenProperties DEF IInv, TypeOK
<1>4. Working(p)'
  BY <1>1, <1>2 DEF Working
<1>5. ChainIntact' /\ SnapshotTracksLog' /\ AheadIsSynced'
  <2>1. Len(snapshot) <= Len(log)
    BY <1>3 DEF IInv, SnapshotTracksLog
  <2>2. ChainIntact'
    BY <1>1 DEF IInv, ChainIntact
  <2>3. SnapshotTracksLog'
    BY <1>1, <1>2, <2>1 DEF IInv, SnapshotTracksLog
  <2> QED
    BY <1>1, <2>2, <2>3 DEF AheadIsSynced
<1>6. durable' \in durable..Len(log')
  BY <1>1, <1>3
<1> QED
  BY <1>1, <1>3, <1>4, <1>5, <1>6, Writing

\* The new snapshot is the log, which is durable by then.
LEMMA ReplaceSnapshotKeeps ==
    ASSUME IInv, NEW p \in Procs, ReplaceSnapshot(p)
    PROVE  IInv'
<1> USE DEF LeaseHeld
<1> DEFINE s == Append(seen[p], request[p])
<1>1. /\ pc[p] = "snapshot" /\ pc'[p] = "receipt" /\ request' = request
      /\ Step(p, "snapshot", "receipt", s)
      /\ seen'[p] = s /\ snapshot' = s
      /\ UNCHANGED << eventsFile, holder >>
  BY DEF ReplaceSnapshot, Step, IInv, TypeOK
<1>2. /\ s = log /\ ~ torn /\ durable = Len(log) /\ synced
  BY <1>1 DEF IInv, Working
<1>3. log \in Seq(Events) /\ Len(log) \in Nat /\ torn \in BOOLEAN /\ synced \in BOOLEAN
  BY LenProperties DEF IInv, TypeOK
<1> HIDE DEF s
<1>4. Working(p)'
  BY <1>1 DEF Working
<1>5. ChainIntact' /\ SnapshotTracksLog' /\ AheadIsSynced'
  BY <1>1, <1>2, <1>3, SubSeqFull
  DEF IInv, ChainIntact, SnapshotTracksLog, AheadIsSynced, eventsFile
<1>6. durable' \in durable..Len(log')
  BY <1>1, <1>2, <1>3 DEF eventsFile
<1> QED
  BY <1>1, <1>2, <1>3, <1>4, <1>5, <1>6, Writing DEF eventsFile

\* append and recover certify the snapshot they have written.
LEMMA ReceiptKeeps ==
    ASSUME IInv, NEW p \in Procs, WriteReceipt(p)
    PROVE  IInv'
BY EndsKeep DEF WriteReceipt, IInv, Working

\* recover reads, and certifies the snapshot when there is nothing to do.
LEMMA ReadForRecoverKeeps ==
    ASSUME IInv, NEW p \in Procs, ReadForRecover(p)
    PROVE  IInv'
<1> USE DEF Labels, LeaseHeld
<1>1. CASE Fail(p) \/ Certify(p, snapshot)
  BY <1>1, EndsKeep DEF ReadForRecover
<1>2. CASE torn /\ Step(p, "read", "truncate", log) /\ UNCHANGED holder
  <2>1. /\ pc'[p] = "truncate" /\ seen'[p] = log /\ UNCHANGED << eventsFile, snapshot >>
        /\ log \in Seq(Events)
    BY <1>2 DEF ReadForRecover, Step, IInv, TypeOK
  <2>2. Working(p)'
    BY <1>2, <2>1 DEF Working, eventsFile
  <2> QED
    BY <1>2, <2>1, <2>2, Reading
<1> QED
  BY <1>1, <1>2 DEF ReadForRecover

\* Removing the torn tail leaves the complete lines.
LEMMA TruncateKeeps ==
    ASSUME IInv, NEW p \in Procs, Truncate(p)
    PROVE  IInv'
<1> USE DEF LeaseHeld
<1>1. /\ pc[p] = "truncate" /\ pc'[p] = "tailsync"
      /\ Step(p, "truncate", "tailsync", seen[p]) /\ seen[p] \in Seq(Events)
      /\ log' = seen[p] /\ torn' = FALSE /\ synced' = FALSE
      /\ UNCHANGED << durable, snapshot, holder >>
  BY DEF Truncate, ValidPart, Step, IInv, TypeOK
<1>2. seen[p] = log /\ snapshot = log
  BY <1>1 DEF IInv, Working, SnapshotTracksLog
<1>3. /\ log' \in Seq(Events) /\ snapshot' \in Seq(Events)
      /\ torn' \in BOOLEAN /\ synced' \in BOOLEAN
  BY <1>1 DEF IInv, TypeOK
<1>4. durable' \in durable..Len(log')
  BY <1>1, <1>2 DEF IInv, TypeOK
<1>5. Working(p)'
  BY <1>1, <1>2 DEF Working
<1>6. ChainIntact' /\ SnapshotTracksLog' /\ AheadIsSynced'
  BY <1>1, <1>2 DEF IInv, TypeOK, ChainIntact, SnapshotTracksLog, AheadIsSynced
<1> QED
  BY <1>1, <1>2, <1>3, <1>4, <1>5, <1>6, Writing

\* The fsync of the truncated file keeps the invariant.
LEMMA SyncTailKeeps ==
    ASSUME IInv, NEW p \in Procs, SyncTail(p)
    PROVE  IInv'
<1> USE DEF LeaseHeld
<1>1. /\ pc[p] = "tailsync" /\ pc'[p] = "rewrite"
      /\ Step(p, "tailsync", "rewrite", seen[p]) /\ seen[p] \in Seq(Events)
      /\ durable' = Len(log) /\ synced' = TRUE
      /\ UNCHANGED << log, torn, snapshot, holder >>
  BY DEF SyncTail, Step, IInv, TypeOK
<1>2. snapshot = log /\ Len(log) \in Nat
  BY <1>1, LenProperties DEF IInv, TypeOK, Working
<1>3. /\ log' \in Seq(Events) /\ snapshot' \in Seq(Events)
      /\ torn' \in BOOLEAN /\ synced' \in BOOLEAN
  BY <1>1 DEF IInv, TypeOK
<1>4. durable' \in durable..Len(log')
  BY <1>1, <1>2 DEF IInv, TypeOK
<1>5. Working(p)'
  BY <1>1, <1>2 DEF Working
<1>6. ChainIntact' /\ SnapshotTracksLog' /\ AheadIsSynced'
  BY <1>1, <1>2 DEF IInv, ChainIntact, SnapshotTracksLog, AheadIsSynced
<1> QED
  BY <1>1, <1>3, <1>4, <1>5, <1>6, Writing

\* recover --apply writes the snapshot of the complete lines.
LEMMA RewriteSnapshotKeeps ==
    ASSUME IInv, NEW p \in Procs, RewriteSnapshot(p)
    PROVE  IInv'
<1> USE DEF LeaseHeld
<1>1. /\ pc[p] = "rewrite" /\ pc'[p] = "receipt" /\ seen'[p] = log
      /\ Step(p, "rewrite", "receipt", log) /\ log \in Seq(Events)
      /\ snapshot' = log
      /\ UNCHANGED << log, torn, durable, synced, holder >>
  BY DEF RewriteSnapshot, Step, IInv, TypeOK, eventsFile
<1>2. snapshot = log
  BY <1>1 DEF IInv, Working
<1>3. /\ log' \in Seq(Events) /\ snapshot' \in Seq(Events)
      /\ torn' \in BOOLEAN /\ synced' \in BOOLEAN
  BY <1>1 DEF IInv, TypeOK
<1>4. durable' \in durable..Len(log')
  BY <1>1 DEF IInv, TypeOK
<1>5. Working(p)'
  BY <1>1 DEF Working
<1>6. ChainIntact' /\ SnapshotTracksLog' /\ AheadIsSynced'
  BY <1>1, <1>2 DEF IInv, ChainIntact, SnapshotTracksLog, AheadIsSynced
<1> QED
  BY <1>1, <1>3, <1>4, <1>5, <1>6, Writing

\* verify certifies what it has read only when it is the snapshot, and replay
\* reports what the file began with when it was read.
LEMMA ScanKeeps ==
    ASSUME IInv, NEW p \in Procs, Scan(p) \/ Compare(p) \/ Report(p)
    PROVE  IInv'
<1> USE DEF Labels, LeaseHeld
<1>1. CASE Scan(p)
  <2>1. CASE Fail(p)
    BY <1>1, <2>1, EndsKeep DEF Scan
  <2>2. ASSUME NEW to \in {"compare", "report"}, Step(p, "scan", to, log), UNCHANGED holder
        PROVE  IInv'
    <3>1. /\ log \in Seq(Events) /\ pc'[p] = to /\ seen'[p] = log /\ log' = log
          /\ Len(log) \in 0..Len(log) /\ SubSeq(log, 1, Len(log)) = log
      BY <1>1, <2>2, LenProperties, SubSeqFull DEF Scan, Step, IInv, TypeOK, eventsFile
    <3>2. WasRead(p)'
      BY <3>1 DEF WasRead
    <3>3. Working(p)'
      BY <3>1, <3>2 DEF Working
    <3> QED
      BY <1>1, <2>2, <3>1, <3>3, Reading DEF Scan
  <2> QED
    BY <1>1, <2>1, <2>2 DEF Scan
<1>2. CASE Compare(p)
  BY <1>2, EndsKeep DEF Compare, SnapshotAgrees
<1>3. CASE Report(p)
  <2>1. CASE Fail(p)
    BY <1>3, <2>1, EndsKeep DEF Report
  <2>2. CASE ~ Fail(p)
    <3>1. /\ Gone({p}) /\ view' = [view EXCEPT ![p] = seen[p]]
          /\ replays' \in {replays, replays \union {Summary(seen[p])}}
          /\ UNCHANGED << eventsFile, snapshot, receipts, crashes >>
      BY <1>3, <2>2 DEF Report
    <3>2. WasRead(p) /\ seen[p] \in Seq(Events)
      BY <1>3 DEF Report, IInv, TypeOK, Working
    <3>3. replays' \subseteq replays \union {Summary(SubSeq(log, 1, n)) : n \in 0..Len(log)}
      BY <3>1, <3>2 DEF WasRead
    <3>4. view' \in [Procs -> Seq(Events)] /\ crashes' \in 0..MaxCrashes
      BY <3>1, <3>2 DEF IInv, TypeOK
    <3> QED
      BY <3>1, <3>3, <3>4, Ending
  <2> QED
    BY <2>1, <2>2
<1> QED
  BY <1>1, <1>2, <1>3

\* A process that dies takes its lease with it and leaves the files.
LEMMA CrashKeeps ==
    ASSUME IInv, NEW p \in Procs, Crash(p)
    PROVE  IInv'
<1>1. crashes' \in 0..MaxCrashes
  BY BoundsAssumption DEF Crash, IInv, TypeOK
<1> QED
  BY <1>1, Ending DEF Crash, clients, IInv, TypeOK

\* A power loss takes at most the event that is being appended, and it can
\* tear the tail of the file only when no snapshot is behind the log.
LEMMA PowerLossKeeps ==
    ASSUME IInv, PowerLoss
    PROVE  IInv'
<1>1. PICK kept \in {log, SubSeq(log, 1, durable)}, partial \in BOOLEAN :
          /\ synced => kept = log /\ partial = torn
          /\ Len(kept) > durable => partial = torn
          /\ log' = kept /\ torn' = partial /\ durable' = Len(kept)
  BY DEF PowerLoss
<1>2. /\ synced' = TRUE /\ Gone(Procs)
      /\ UNCHANGED << snapshot, view, receipts, replays >>
      /\ crashes' \in 0..MaxCrashes
  BY BoundsAssumption DEF PowerLoss, clients, IInv, TypeOK
<1>3. /\ log \in Seq(Events) /\ Len(log) \in Nat /\ snapshot \in Seq(Events)
      /\ Len(snapshot) \in Nat /\ durable \in 0..Len(log)
  BY LenProperties DEF IInv, TypeOK
<1>4. PICK n \in durable..Len(log) : kept = SubSeq(log, 1, n)
  BY <1>3, SubSeqFull
<1>5. /\ n \in 0..Len(log) /\ Len(snapshot) <= n /\ durable <= n
  BY <1>3, <1>4 DEF IInv, SnapshotTracksLog
<1>6. /\ log' = SubSeq(log, 1, n) /\ log' \in Seq(Events) /\ Len(log') = n
      /\ durable' = n /\ Len(kept) = n
  <2>1. SubSeq(log, 1, n) \in Seq(Events) /\ Len(SubSeq(log, 1, n)) = n
    BY <1>3, <1>5, PrefixFacts
  <2> QED
    BY <1>1, <1>4, <2>1
<1>7. \A m \in 0..n : SubSeq(log', 1, m) = SubSeq(log, 1, m)
  BY <1>5, <1>6, PrefixOfPrefix
<1>8. ClientsType' /\ SingleWriter' /\ \A q \in Procs : pc'[q] = "idle"
  BY <1>2, GoneKeeps DEF IInv
<1>9. TypeOK'
  BY <1>1, <1>2, <1>5, <1>6, <1>8 DEF IInv, TypeOK, ClientsType
<1>10. ChainIntact'
  <2>1. Chain(SubSeq(log, 1, n))
    BY <1>3, <1>5, ChainPrefix DEF IInv, ChainIntact, Chain
  <2> QED
    BY <1>6, <2>1 DEF Chain, ChainIntact
<1>11. snapshot = SubSeq(log', 1, Len(snapshot)) /\ Len(log') <= Len(snapshot) + 1
  <2>1. Len(snapshot) \in 0..n
    BY <1>3, <1>5
  <2>2. Len(log) <= Len(snapshot) + 1 /\ snapshot = SubSeq(log, 1, Len(snapshot))
    BY DEF IInv, SnapshotTracksLog
  <2> QED
    BY <1>3, <1>5, <1>6, <1>7, <2>1, <2>2
<1>12. torn' => snapshot = log'
  <2>1. torn => snapshot = log
    BY DEF IInv, SnapshotTracksLog
  <2>2. CASE torn
    <3>1. Len(log) = Len(snapshot) /\ n = Len(snapshot)
      BY <1>3, <1>5, <2>1, <2>2
    <3> QED
      BY <1>3, <1>6, <2>1, <2>2, <3>1, SubSeqFull
  <2>3. CASE ~ torn /\ torn'
    <3>1. ~ synced /\ ~ Len(kept) > durable
      BY <1>1, <2>3
    <3>2. durable <= Len(snapshot)
      BY <1>3, <3>1 DEF IInv, AheadIsSynced
    <3>3. n = Len(snapshot)
      BY <1>3, <1>5, <1>6, <3>1, <3>2
    <3> QED
      BY <1>6, <3>3 DEF IInv, SnapshotTracksLog
  <2> QED
    BY <2>2, <2>3
<1>13. SnapshotTracksLog' /\ AheadIsSynced'
  BY <1>2, <1>5, <1>6, <1>11, <1>12 DEF SnapshotTracksLog, AheadIsSynced
<1>14. ReceiptsAreKept'
  <2>1. /\ durable' \in Nat /\ durable <= durable'
        /\ \A m \in 0..durable : SubSeq(log', 1, m) = SubSeq(log, 1, m)
    BY <1>3, <1>5, <1>6, <1>7
  <2> QED
    BY <1>2, <2>1, ReceiptsStay DEF IInv
<1> QED
  BY <1>8, <1>9, <1>10, <1>13, <1>14, IdleKnowsNothing DEF IInv

\* Every step keeps the invariant, unless writes may stop short.
LEMMA NextKeeps ==
    ASSUME ShortWrites = FALSE, IInv, Next
    PROVE  IInv'
<1>1. CASE PowerLoss
  BY <1>1, PowerLossKeeps
<1>2. CASE \E p \in Procs \ Operators :
              \/ \E id \in Ids : BeginAppend(p, id)
              \/ BeginRecover(p, "inspect")
              \/ \E kind \in {"verify", "replay"} : BeginScan(p, kind)
  BY <1>2, BeginsKeep
<1>3. ASSUME NEW p \in Procs, BeginRecover(p, "recover") PROVE IInv'
  BY <1>3, BeginsKeep
<1>4. ASSUME NEW p \in Procs, Crash(p) PROVE IInv'
  BY <1>4, CrashKeeps
<1>5. ASSUME NEW p \in Procs, Run(p) PROVE IInv'
  <2>1. CASE Acquire(p) \/ Busy(p)
    BY <2>1, LeaseKeeps
  <2>2. CASE ReadForAppend(p) \/ Noop(p) \/ Reject(p) \/ Accept(p)
    BY <2>2, DecisionKeeps
  <2>3. CASE WritePart(p) \/ WriteLine(p) \/ Fsync(p) \/ ReplaceSnapshot(p)
    BY <2>3, WritePartKeeps, WriteLineKeeps, FsyncKeeps, ReplaceSnapshotKeeps
  <2>4. CASE ReadForRecover(p) \/ Truncate(p) \/ SyncTail(p) \/ RewriteSnapshot(p)
    BY <2>4, ReadForRecoverKeeps, TruncateKeeps, SyncTailKeeps, RewriteSnapshotKeeps
  <2>5. CASE WriteReceipt(p) \/ Scan(p) \/ Compare(p) \/ Report(p)
    BY <2>5, ReceiptKeeps, ScanKeeps
  <2>6. ~ WriteShort(p)
    BY DEF WriteShort
  <2> QED
    BY <1>5, <2>1, <2>2, <2>3, <2>4, <2>5, <2>6 DEF Run
<1> QED
  BY <1>1, <1>2, <1>3, <1>4, <1>5 DEF Next

\* So does a step of the rest of the system.
LEMMA StutterKeeps ==
    ASSUME IInv, UNCHANGED vars
    PROVE  IInv'
BY DEF vars, eventsFile, clients, IInv, TypeOK, SingleWriter, ChainIntact,
    SnapshotTracksLog, AheadIsSynced, ReceiptsAreKept, Working, WasRead, Fits, Chained, Fresh

\* The invariant holds throughout.
LEMMA Invariance == ASSUME ShortWrites = FALSE PROVE Spec => []IInv
<1>1. IInv /\ [Next]_vars => IInv'
  BY NextKeeps, StutterKeeps
<1> QED
  BY <1>1, InitEstablishes, PTL DEF Spec

-----------------------------------------------------------------------------
\* What holds even when a write stops short without an error.  The snapshot and
\* the receipts are lost to it; the chain and the lease need less than IInv.

\* An append has an event to write, and what the lease holder means to write
\* behind, or to cut back to, is what the file holds.
Grounded(p) ==
    /\ (pc[p] \in {"lease", "read"} /\ command[p] = "append")
          \/ pc[p] \in {"decide", "write", "line", "fsync", "snapshot"}
          => request[p] \in Events
    /\ pc[p] \in {"decide", "write", "line", "truncate"} => seen[p] = log
    /\ pc[p] \in {"write", "line"} => Fits(p)

SafeInv ==
    /\ TypeOK
    /\ SingleWriter
    /\ ChainIntact
    /\ \A p \in Procs : Grounded(p)

\* A file that keeps its lines stays a chain, and so does one that gets the
\* line of an append, or loses lines at its end.
LEMMA ChainKept ==
    ASSUME SafeInv,
           \/ \E n \in 0..Len(log) : log' = SubSeq(log, 1, n)
           \/ \E p \in Procs : Fits(p) /\ seen[p] = log /\ log' = Append(log, request[p])
    PROVE  ChainIntact' /\ log' \in Seq(Events)
<1>1. log \in Seq(Events) /\ Chain(log)
  BY DEF SafeInv, TypeOK, ChainIntact, Chain
<1>2. ASSUME NEW n \in 0..Len(log), log' = SubSeq(log, 1, n)
      PROVE  ChainIntact' /\ log' \in Seq(Events)
  BY <1>1, <1>2, ChainPrefix, PrefixFacts DEF Chain, ChainIntact
<1>3. ASSUME NEW p \in Procs, Fits(p), seen[p] = log, log' = Append(log, request[p])
      PROVE  ChainIntact' /\ log' \in Seq(Events)
  <2>1. Chain(log')
    BY <1>1, <1>3, ChainAppend DEF Fits, Chained, Fresh
  <2>2. log' \in Seq(Events)
    BY <1>1, <1>3, AppendProperties DEF Fits
  <2> QED
    BY <2>1, <2>2 DEF Chain, ChainIntact
<1> QED
  BY <1>2, <1>3

\* What others mean to do stays grounded while the lines stay.
LEMMA OthersGrounded ==
    ASSUME SafeInv, NEW q \in Procs, log' = log,
           pc'[q] = pc[q], command'[q] = command[q],
           request'[q] = request[q], seen'[q] = seen[q]
    PROVE  Grounded(q)'
<1>1. Grounded(q)
  BY DEF SafeInv
<1>2. Fits(q) => Fits(q)'
  BY DEF Fits, Chained, Fresh
<1> QED
  BY <1>1, <1>2 DEF Grounded

\* Processes that are gone hold nothing; the files change only if all are.
LEMMA SafeEnding ==
    ASSUME SafeInv, NEW ps \in SUBSET Procs, Gone(ps),
           ps = Procs \/ log' = log,
           ChainIntact', log' \in Seq(Events), durable' \in 0..Len(log'),
           torn' \in BOOLEAN, synced' \in BOOLEAN, UNCHANGED snapshot,
           receipts' \subseteq Summaries, replays' \subseteq Summaries,
           view' \in [Procs -> Seq(Events)], crashes' \in 0..MaxCrashes
    PROVE  SafeInv'
<1>1. /\ ClientsType' /\ SingleWriter'
      /\ \A q \in ps : pc'[q] = "idle"
      /\ \A q \in Procs \ ps :
            /\ pc'[q] = pc[q] /\ command'[q] = command[q]
            /\ request'[q] = request[q] /\ seen'[q] = seen[q]
  BY GoneKeeps DEF SafeInv
<1>2. TypeOK'
  BY <1>1 DEF SafeInv, TypeOK, ClientsType
<1>3. ASSUME NEW q \in Procs PROVE Grounded(q)'
  <2>1. CASE q \in ps
    BY <1>1, <2>1 DEF Grounded
  <2>2. CASE q \notin ps
    BY <1>1, <2>2, OthersGrounded
  <2> QED
    BY <2>1, <2>2
<1> QED
  BY <1>1, <1>2, <1>3 DEF SafeInv

\* A step within a command; only the lease holder changes the file.
LEMMA SafeStep ==
    ASSUME SafeInv, NEW p \in Procs, NEW from \in Labels, NEW to \in Labels,
           NEW s \in Seq(Events), Step(p, from, to, s),
           \/ from \in LeaseHeld /\ UNCHANGED holder
           \/ to \notin LeaseHeld /\ UNCHANGED holder
           \/ holder = NoProc /\ holder' = p,
           from \in LeaseHeld \/ log' = log,
           ChainIntact', log' \in Seq(Events), durable' \in 0..Len(log'),
           torn' \in BOOLEAN, synced' \in BOOLEAN, snapshot' \in Seq(Events),
           Grounded(p)'
    PROVE  SafeInv'
<1>1. /\ ClientsType' /\ SingleWriter' /\ pc[p] = from
      /\ \A q \in Procs \ {p} :
            /\ pc'[q] = pc[q] /\ command'[q] = command[q]
            /\ request'[q] = request[q] /\ seen'[q] = seen[q]
  BY StepKeeps DEF SafeInv
<1>2. TypeOK'
  BY <1>1 DEF SafeInv, TypeOK, ClientsType, Step, clients
<1>3. ASSUME NEW q \in Procs \ {p} PROVE Grounded(q)'
  <2>1. CASE log' = log
    BY <1>1, <2>1, OthersGrounded
  <2>2. CASE from \in LeaseHeld
    <3>1. pc[q] \notin LeaseHeld
      BY <1>1, <2>2 DEF SafeInv, SingleWriter
    <3> QED
      BY <1>1, <3>1 DEF SafeInv, Grounded, LeaseHeld
  <2> QED
    BY <2>1, <2>2
<1> QED
  BY <1>1, <1>2, <1>3 DEF SafeInv

\* A store just initialised satisfies it.
LEMMA InitIsSafe == Init => SafeInv
BY InitEstablishes DEF Init, IInv, SafeInv, Grounded

\* Starting a command: an append gets its event.
LEMMA BeginsAreSafe ==
    ASSUME SafeInv, NEW p \in Procs,
           \/ \E id \in Ids : BeginAppend(p, id)
           \/ \E kind \in {"inspect", "recover"} : BeginRecover(p, kind)
           \/ \E kind \in {"verify", "replay"} : BeginScan(p, kind)
    PROVE  SafeInv'
<1>1. PICK kind \in Commands, at \in {"lease", "scan"} :
          /\ Begin(p, kind, at)
          /\ request' \in [Procs -> Events \union {NoEvent}]
          /\ kind = "append" => request'[p] \in Events
          /\ \A q \in Procs \ {p} : request'[q] = request[q]
  <2>1. ASSUME NEW id \in Ids
        PROVE  [id |-> id, prev |-> HeadDigest(view[p])] \in Events
    BY DigestType DEF SafeInv, TypeOK, Events
  <2>2. request \in [Procs -> Events \union {NoEvent}]
    BY DEF SafeInv, TypeOK
  <2> QED
    BY <2>1, <2>2 DEF BeginAppend, BeginRecover, BeginScan, Commands
<1>2. UNCHANGED << eventsFile, snapshot, holder, seen, clients, crashes >>
  BY <1>1 DEF Begin
<1>3. TypeOK' /\ SingleWriter' /\ ChainIntact'
  BY <1>1, <1>2
  DEF SafeInv, TypeOK, SingleWriter, ChainIntact, Begin, Labels, LeaseHeld,
      eventsFile, clients
<1>4. Grounded(p)'
  BY <1>1 DEF Begin, Grounded, SafeInv, TypeOK
<1>5. ASSUME NEW q \in Procs \ {p} PROVE Grounded(q)'
  BY <1>1, <1>2 DEF Begin, Grounded, Fits, Chained, Fresh, SafeInv, TypeOK, eventsFile
<1> QED
  BY <1>3, <1>4, <1>5 DEF SafeInv

\* A command that ends without touching the files, whatever it certifies.
LEMMA EndsAreSafe ==
    ASSUME SafeInv, NEW p \in Procs, UNCHANGED << eventsFile, snapshot >>,
           \/ Fail(p)
           \/ Crash(p)
           \/ \E s \in Seq(Events) : Certify(p, s)
           \/ Report(p)
    PROVE  SafeInv'
<1>1. /\ Gone({p}) /\ ChainIntact' /\ log' = log
      /\ log' \in Seq(Events) /\ durable' \in 0..Len(log')
      /\ torn' \in BOOLEAN /\ synced' \in BOOLEAN
  BY DEF Fail, Crash, Certify, Report, SafeInv, TypeOK, ChainIntact, eventsFile
<1>2. /\ receipts' \subseteq Summaries /\ replays' \subseteq Summaries
      /\ view' \in [Procs -> Seq(Events)]
  BY SummaryType DEF Fail, Crash, Certify, Report, SafeInv, TypeOK, clients
<1>3. crashes' \in 0..MaxCrashes
  BY BoundsAssumption DEF Fail, Crash, Certify, Report, SafeInv, TypeOK, clients
<1> QED
  BY <1>1, <1>2, <1>3, SafeEnding

\* A step that leaves the file's lines, and maybe its end and the snapshot.
LEMMA QuietStepsAreSafe ==
    ASSUME SafeInv, NEW p \in Procs,
           \/ Acquire(p) \/ Accept(p) \/ WritePart(p) \/ WriteShort(p) \/ Fsync(p)
           \/ ReplaceSnapshot(p) \/ SyncTail(p) \/ RewriteSnapshot(p)
    PROVE  SafeInv'
<1> USE DEF Labels, LeaseHeld
<1>1. /\ log \in Seq(Events) /\ Len(log) \in Nat /\ seen[p] \in Seq(Events)
      /\ durable \in 0..Len(log) /\ snapshot \in Seq(Events)
      /\ torn \in BOOLEAN /\ synced \in BOOLEAN /\ << >> \in Seq(Events)
  BY LenProperties, EmptySeq DEF SafeInv, TypeOK
<1>2. /\ log' = log /\ durable' \in {durable, Len(log)}
      /\ torn' \in BOOLEAN /\ synced' \in BOOLEAN
  BY <1>1 DEF Acquire, Accept, WritePart, WriteShort, Fsync, ReplaceSnapshot, SyncTail,
     RewriteSnapshot, eventsFile
<1>3. ChainIntact' /\ durable' \in 0..Len(log')
  BY <1>1, <1>2 DEF SafeInv, ChainIntact
<1>4. CASE Acquire(p)
  <2>1. Grounded(p)'
    BY <1>4 DEF Acquire, Step, SafeInv, TypeOK, Grounded
  <2> QED
    BY <1>1, <1>2, <1>3, <1>4, <2>1, SafeStep DEF Acquire, Free
<1>5. CASE Accept(p) \/ WritePart(p)
  <2>1. Grounded(p)'
    BY <1>2, <1>5
    DEF Accept, WritePart, Step, SafeInv, TypeOK, Grounded, Fits, Chained, Fresh
  <2> QED
    BY <1>1, <1>2, <1>3, <1>5, <2>1, SafeStep DEF Accept, WritePart
<1>6. CASE WriteShort(p) \/ Fsync(p)
  <2>1. Grounded(p)'
    BY <1>2, <1>6 DEF WriteShort, Fsync, Step, SafeInv, TypeOK, Grounded
  <2> QED
    BY <1>1, <1>2, <1>3, <1>6, <2>1, SafeStep DEF WriteShort, Fsync
<1>7. CASE ReplaceSnapshot(p)
  <2> DEFINE s == Append(seen[p], request[p])
  <2>1. request[p] \in Events
    BY <1>7 DEF ReplaceSnapshot, Step, SafeInv, Grounded
  <2>2. s \in Seq(Events)
    BY <1>1, <2>1, AppendProperties
  <2>3. Step(p, "snapshot", "receipt", s) /\ snapshot' = s
    BY <1>7 DEF ReplaceSnapshot, Step, SafeInv, TypeOK
  <2> HIDE DEF s
  <2>4. Grounded(p)'
    BY <2>3 DEF Step, SafeInv, TypeOK, Grounded
  <2> QED
    BY <1>2, <1>3, <1>7, <1>1, <2>2, <2>3, <2>4, SafeStep DEF ReplaceSnapshot
<1>8. CASE SyncTail(p) \/ RewriteSnapshot(p)
  <2>1. Grounded(p)'
    BY <1>8 DEF SyncTail, RewriteSnapshot, Step, SafeInv, TypeOK, Grounded
  <2> QED
    BY <1>1, <1>2, <1>3, <1>8, <2>1, SafeStep DEF SyncTail, RewriteSnapshot
<1> QED
  BY <1>4, <1>5, <1>6, <1>7, <1>8

\* The two steps that change the lines: an append extends the chain it has read
\* under the lease, a recovery cuts the file back to the lines it has.
LEMMA LineStepsAreSafe ==
    ASSUME SafeInv, NEW p \in Procs, WriteLine(p) \/ Truncate(p)
    PROVE  SafeInv'
<1> USE DEF Labels, LeaseHeld
<1>1. /\ log \in Seq(Events) /\ Len(log) \in Nat /\ seen[p] \in Seq(Events)
      /\ durable \in 0..Len(log) /\ snapshot \in Seq(Events)
  BY LenProperties DEF SafeInv, TypeOK
<1>2. CASE WriteLine(p)
  <2>1. PICK from \in {"write", "line"} : Step(p, from, "fsync", seen[p])
    BY <1>2 DEF WriteLine
  <2>2. pc[p] = from /\ pc'[p] = "fsync" /\ request' = request
    BY <2>1 DEF Step, SafeInv, TypeOK
  <2>3. Fits(p) /\ seen[p] = log /\ request[p] \in Events
    BY <2>2 DEF SafeInv, Grounded
  <2>4. /\ log' = Append(log, request[p]) /\ torn' = FALSE /\ synced' = FALSE
        /\ UNCHANGED << durable, snapshot, holder >>
    BY <1>2 DEF WriteLine
  <2>5. ChainIntact' /\ log' \in Seq(Events)
    BY <2>3, <2>4, ChainKept
  <2>6. Len(log') = Len(log) + 1
    BY <1>1, <2>3, <2>4, AppendProperties
  <2>7. durable' \in 0..Len(log')
    BY <1>1, <2>4, <2>6
  <2>8. Grounded(p)'
    BY <2>2, <2>3 DEF Grounded
  <2> QED
    BY <1>1, <2>1, <2>4, <2>5, <2>7, <2>8, SafeStep
<1>3. CASE Truncate(p)
  <2>1. /\ pc[p] = "truncate" /\ pc'[p] = "tailsync"
        /\ Step(p, "truncate", "tailsync", seen[p])
        /\ log' = seen[p] /\ torn' = FALSE /\ synced' = FALSE
        /\ UNCHANGED << durable, snapshot, holder >>
    BY <1>3 DEF Truncate, ValidPart, Step, SafeInv, TypeOK
  <2>2. log' = log
    BY <2>1 DEF SafeInv, Grounded
  <2>3. ChainIntact' /\ Grounded(p)'
    BY <2>1, <2>2 DEF SafeInv, ChainIntact, Grounded
  <2> QED
    BY <1>1, <2>1, <2>2, <2>3, SafeStep
<1> QED
  BY <1>2, <1>3

\* A power loss leaves a prefix of the file that has all durable lines.
LEMMA PowerLossCuts ==
    ASSUME TypeOK, PowerLoss
    PROVE  \E n \in durable..Len(log) :
               log' = SubSeq(log, 1, n) /\ durable' = n
<1>1. PICK kept \in {log, SubSeq(log, 1, durable)} :
          log' = kept /\ durable' = Len(kept)
  BY DEF PowerLoss
<1>2. log \in Seq(Events) /\ Len(log) \in Nat /\ durable \in 0..Len(log)
  BY LenProperties DEF TypeOK
<1>3. PICK n \in durable..Len(log) : kept = SubSeq(log, 1, n)
  BY <1>2, SubSeqFull
<1>4. n \in 0..Len(log)
  BY <1>2
<1>5. Len(kept) = n
  BY <1>2, <1>3, <1>4, PrefixFacts
<1> QED
  BY <1>1, <1>3, <1>5

\* A power loss keeps the weaker invariant.
LEMMA PowerLossIsSafe ==
    ASSUME SafeInv, PowerLoss
    PROVE  SafeInv'
<1>1. log \in Seq(Events) /\ Len(log) \in Nat /\ durable \in 0..Len(log)
  BY LenProperties DEF SafeInv, TypeOK
<1>2. PICK n \in durable..Len(log) : log' = SubSeq(log, 1, n) /\ durable' = n
  BY PowerLossCuts DEF SafeInv
<1>3. n \in 0..Len(log)
  BY <1>1
<1>4. ChainIntact' /\ log' \in Seq(Events)
  BY <1>2, <1>3, ChainKept
<1>5. durable' \in 0..Len(log')
  BY <1>1, <1>2, <1>3, PrefixFacts
<1>6. /\ Gone(Procs) /\ UNCHANGED << snapshot, clients >>
      /\ torn' \in BOOLEAN /\ synced' \in BOOLEAN /\ crashes' \in 0..MaxCrashes
  BY BoundsAssumption DEF PowerLoss, SafeInv, TypeOK
<1>7. /\ receipts' \subseteq Summaries /\ replays' \subseteq Summaries
      /\ view' \in [Procs -> Seq(Events)]
  BY <1>6 DEF clients, SafeInv, TypeOK
<1> QED
  BY <1>4, <1>5, <1>6, <1>7, SafeEnding

\* The steps of a command that only read keep the weaker invariant.
LEMMA ReadsAreSafe ==
    ASSUME SafeInv, NEW p \in Procs,
           \/ Busy(p) \/ ReadForAppend(p) \/ Noop(p) \/ Reject(p)
           \/ ReadForRecover(p) \/ WriteReceipt(p)
           \/ Scan(p) \/ Compare(p) \/ Report(p)
    PROVE  SafeInv'
<1> USE DEF Labels, LeaseHeld
<1>1. /\ log \in Seq(Events) /\ seen[p] \in Seq(Events) /\ snapshot \in Seq(Events)
      /\ durable \in 0..Len(log) /\ torn \in BOOLEAN /\ synced \in BOOLEAN
      /\ UNCHANGED << eventsFile, snapshot >>
  BY DEF SafeInv, TypeOK, Busy, ReadForAppend, Noop, Reject, ReadForRecover, WriteReceipt,
     Scan, Compare, Report
<1>2. CASE Fail(p) \/ (\E s \in Seq(Events) : Certify(p, s)) \/ Report(p)
  BY <1>1, <1>2, EndsAreSafe
<1>3. ASSUME NEW from \in {"read", "scan"}, NEW to \in {"decide", "truncate", "compare", "report"},
             Step(p, from, to, log), UNCHANGED holder,
             from = "read" \/ to \in {"compare", "report"},
             to = "decide" => pc[p] = "read" /\ command[p] = "append"
      PROVE  SafeInv'
  <2>1. /\ log' = log /\ durable' = durable /\ torn' = torn /\ synced' = synced
        /\ snapshot' = snapshot /\ ChainIntact'
    BY <1>1 DEF eventsFile, SafeInv, ChainIntact
  <2>2. Grounded(p)'
    BY <1>3, <2>1 DEF Step, SafeInv, TypeOK, Grounded
  <2> QED
    BY <1>1, <1>3, <2>1, <2>2, SafeStep
<1>4. CASE Busy(p) \/ Noop(p) \/ Reject(p) \/ WriteReceipt(p) \/ Compare(p) \/ Report(p)
  BY <1>1, <1>2, <1>4 DEF Busy, Noop, Reject, WriteReceipt, Compare
<1>5. CASE ReadForAppend(p) \/ ReadForRecover(p) \/ Scan(p)
  BY <1>1, <1>2, <1>3, <1>5 DEF ReadForAppend, ReadForRecover, Scan
<1> QED
  BY <1>4, <1>5

\* Every step keeps the weaker invariant.
LEMMA NextIsSafe ==
    ASSUME SafeInv, [Next]_vars
    PROVE  SafeInv'
<1>1. CASE PowerLoss
  BY <1>1, PowerLossIsSafe
<1>2. CASE \E p \in Procs \ Operators :
              \/ \E id \in Ids : BeginAppend(p, id)
              \/ BeginRecover(p, "inspect")
              \/ \E kind \in {"verify", "replay"} : BeginScan(p, kind)
  BY <1>2, BeginsAreSafe
<1>3. ASSUME NEW p \in Procs, BeginRecover(p, "recover") PROVE SafeInv'
  BY <1>3, BeginsAreSafe
<1>4. ASSUME NEW p \in Procs, Crash(p) PROVE SafeInv'
  BY <1>4, EndsAreSafe DEF Crash
<1>5. ASSUME NEW p \in Procs, Run(p) PROVE SafeInv'
  BY <1>5, QuietStepsAreSafe, LineStepsAreSafe, ReadsAreSafe DEF Run
<1>6. CASE UNCHANGED vars
  BY <1>6 DEF vars, eventsFile, clients, SafeInv, TypeOK, SingleWriter, ChainIntact,
     Grounded, Fits, Chained, Fresh
<1> QED
  BY <1>1, <1>2, <1>3, <1>4, <1>5, <1>6 DEF Next

\* The weaker invariant holds throughout, short writes or not.
LEMMA SafeInvariance == Spec => []SafeInv
BY InitIsSafe, NextIsSafe, PTL DEF Spec

-----------------------------------------------------------------------------
\* Every file and every process keeps its shape, and the file never has fewer
\* lines than were made durable.
THEOREM TypeCorrect == Spec => []TypeOK
<1>1. SafeInv => TypeOK
  BY DEF SafeInv
<1> QED
  BY <1>1, SafeInvariance, PTL

\* The flock excludes: no two commands are between its acquisition and release.
THEOREM WritersExclude == Spec => []SingleWriter
<1>1. SafeInv => SingleWriter
  BY DEF SafeInv
<1> QED
  BY <1>1, SafeInvariance, PTL

\* events.jsonl stays one hash chain, for any number of clients and crashes, and
\* even when a write stops short.
THEOREM ChainStaysIntact == Spec => []ChainIntact
<1>1. SafeInv => ChainIntact
  BY DEF SafeInv
<1> QED
  BY <1>1, SafeInvariance, PTL

\* No step takes back or rewrites a line that is known to be on disk.
DurableIsKept ==
    durable' >= durable /\ SubSeq(log', 1, durable) = SubSeq(log, 1, durable)

\* A step appends a line, cuts the file behind its durable lines, or leaves it.
LEMMA DurableKept ==
    ASSUME SafeInv, [Next]_vars
    PROVE  DurableIsKept
<1>1. log \in Seq(Events) /\ Len(log) \in Nat /\ durable \in 0..Len(log)
  BY LenProperties DEF SafeInv, TypeOK
<1>2. CASE log' = log /\ durable' \in {durable, Len(log)}
  BY <1>1, <1>2 DEF DurableIsKept
<1>3. CASE PowerLoss
  <2>1. PICK n \in durable..Len(log) : log' = SubSeq(log, 1, n) /\ durable' = n
    BY <1>3, PowerLossCuts DEF SafeInv
  <2>2. n \in 0..Len(log) /\ durable \in 0..n
    BY <1>1
  <2> QED
    BY <1>1, <2>1, <2>2, PrefixOfPrefix DEF DurableIsKept
<1>4. ASSUME NEW p \in Procs, WriteLine(p) PROVE DurableIsKept
  <2>1. log' = Append(log, request[p]) /\ durable' = durable
        /\ pc[p] \in {"write", "line"}
    BY <1>4 DEF WriteLine, Step
  <2>2. request[p] \in Events
    BY <2>1 DEF SafeInv, Grounded
  <2> QED
    BY <1>1, <2>1, <2>2, PrefixOfAppend DEF DurableIsKept
<1>5. ASSUME NEW p \in Procs, Truncate(p) PROVE DurableIsKept
  BY <1>2, <1>5 DEF Truncate, ValidPart, Step, SafeInv, Grounded
<1>6. ASSUME NEW p \in Procs, Run(p), ~ WriteLine(p), ~ Truncate(p) PROVE DurableIsKept
  <2>1. log' = log /\ durable' \in {durable, Len(log)}
    BY <1>6
    DEF Run, Acquire, Busy, ReadForAppend, Noop, Reject, Accept, WritePart, WriteShort,
        Fsync, ReplaceSnapshot, ReadForRecover, SyncTail, RewriteSnapshot, WriteReceipt,
        Scan, Compare, Report, eventsFile
  <2> QED
    BY <1>2, <2>1
<1>7. CASE UNCHANGED eventsFile
  BY <1>2, <1>7 DEF eventsFile
<1> QED
  BY <1>3, <1>4, <1>5, <1>6, <1>7
  DEF Next, BeginAppend, BeginRecover, BeginScan, Begin, Crash, vars

\* events.jsonl is append-only on disk: no append, recovery, crash or power loss
\* loses a durable line or changes one, even when a write stops short.
THEOREM DurableIsAppendOnly == Spec => [][DurableIsKept]_vars
<1>1. SafeInv /\ [Next]_vars => [DurableIsKept]_vars
  BY DurableKept
<1> QED
  BY <1>1, SafeInvariance, PTL DEF Spec

\* snapshot.json is durable history, and at most one event behind it.
THEOREM SnapshotFollows == ASSUME ShortWrites = FALSE PROVE Spec => []SnapshotTracksLog
<1>1. IInv => SnapshotTracksLog
  BY DEF IInv
<1> QED
  BY <1>1, Invariance, PTL

\* What a receipt says was committed is on disk ever after, and what a replay
\* reports is but for its last event.
THEOREM ReceiptsStayTrue == ASSUME ShortWrites = FALSE PROVE Spec => []ReceiptsAreKept
<1>1. IInv => ReceiptsAreKept
  BY DEF IInv
<1> QED
  BY <1>1, Invariance, PTL

-----------------------------------------------------------------------------
\* The store implements the history that LedgerHistory promises.

\* LedgerHistory digests histories as LedgerStore does.
LEMMA SameDigests ==
    ASSUME NEW s
    PROVE  History!HeadDigest(s) = HeadDigest(s) /\ History!Summary(s) = Summary(s)
BY DEF HeadDigest, Digest, Summary, History!HeadDigest, History!Digest, History!Summary

\* The log is the history, or extends it by the event that is being appended.
LEMMA AheadByOne ==
    ASSUME IInv, durable # Len(log)
    PROVE  /\ Len(log) = durable + 1
           /\ \E id \in History!FreshIds : log = History!Extended(id)
<1> DEFINE h == SubSeq(log, 1, durable)
           e == log[durable + 1]
<1>1. /\ log \in Seq(Events) /\ Len(log) \in Nat /\ Len(snapshot) \in Nat
      /\ durable \in 0..Len(log)
  BY LenProperties DEF IInv, TypeOK
<1>2. Len(log) = durable + 1
  BY <1>1 DEF IInv, SnapshotTracksLog
<1>3. h \in Seq(Events) /\ Len(h) = durable /\ \A i \in 1..durable : h[i] = log[i]
  BY <1>1, PrefixFacts
<1>4. e \in Events
  BY <1>1, <1>2, ElementOfSeq
<1>5. e.prev = HeadDigest(h) /\ \A j \in 1..durable : log[j].id # e.id
  <2>1. durable + 1 \in 1..Len(log) /\ (durable + 1) - 1 = durable
    BY <1>1, <1>2
  <2> QED
    BY <2>1 DEF IInv, ChainIntact
<1>6. log = Append(h, e)
  <2> HIDE DEF h, e
  <2>1. /\ Append(h, e) \in Seq(Events) /\ Len(Append(h, e)) = durable + 1
        /\ \A i \in 1..durable : Append(h, e)[i] = h[i]
        /\ Append(h, e)[durable + 1] = e
    BY <1>3, <1>4, AppendProperties
  <2>2. \A i \in 1..(durable + 1) : Append(h, e)[i] = log[i]
    <3> TAKE i \in 1..(durable + 1)
    <3>1. i = durable + 1 \/ i \in 1..durable
      BY <1>1
    <3>2. e = log[durable + 1]
      BY DEF e
    <3> QED
      BY <3>1, <3>2, <1>3, <2>1
  <2> QED
    BY <1>1, <1>2, <2>1, <2>2, SeqEqual
<1>7. e.id \in Ids /\ e = [id |-> e.id, prev |-> HeadDigest(h)]
  BY <1>4, <1>5 DEF Events
<1>8. \A i \in 1..Len(h) : h[i].id # e.id
  BY <1>3, <1>5
<1> HIDE DEF e
<1>9. e.id \in History!FreshIds
  BY <1>7, <1>8 DEF History!FreshIds
<1>10. log = History!Extended(e.id)
  BY <1>6, <1>7, SameDigests DEF History!Extended
<1> QED
  BY <1>2, <1>9, <1>10

\* What becomes durable is nothing, or the one event the log is ahead by.
LEMMA DurableStep ==
    ASSUME IInv, durable' \in durable..Len(log), UNCHANGED << receipts, replays >>,
           SubSeq(log', 1, durable') = SubSeq(log, 1, durable')
    PROVE  [History!Next]_History!hvars
<1>1. log \in Seq(Events) /\ Len(log) \in Nat /\ durable \in 0..Len(log)
  BY LenProperties DEF IInv, TypeOK
<1>2. CASE durable' = durable
  BY <1>2 DEF History!hvars
<1>3. CASE durable' # durable
  <2>1. durable # Len(log)
    BY <1>1, <1>3
  <2>2. Len(log) = durable + 1 /\ \E id \in History!FreshIds : log = History!Extended(id)
    BY <2>1, AheadByOne
  <2>3. SubSeq(log', 1, durable') = log
    <3>1. durable' = Len(log)
      BY <1>1, <1>3, <2>2
    <3>2. SubSeq(log', 1, Len(log)) = SubSeq(log, 1, Len(log))
      BY <3>1
    <3> QED
      BY <1>1, <3>1, <3>2, SubSeqFull
  <2>4. History!Commit
    BY <2>2, <2>3 DEF History!Commit
  <2> QED
    BY <2>4 DEF History!Next
<1> QED
  BY <1>2, <1>3

\* A prefix of what is durable is a position of the history.
LEMMA PrefixIsPosition ==
    ASSUME IInv, NEW n \in 0..durable
    PROVE  SubSeq(log, 1, n) \in History!Positions
<1> DEFINE h == SubSeq(log, 1, durable)
<1>1. log \in Seq(Events) /\ durable \in 0..Len(log)
  BY DEF IInv, TypeOK
<1>2. Len(h) = durable /\ SubSeq(h, 1, n) = SubSeq(log, 1, n)
  BY <1>1, PrefixFacts, PrefixOfPrefix
<1>3. SubSeq(h, 1, n) \in History!Positions
  BY <1>2 DEF History!Positions
<1> QED
  BY <1>2, <1>3

\* Receipts are given for the snapshot only.
LEMMA ReceiptStep ==
    ASSUME IInv, UNCHANGED << log, durable, replays >>,
           receipts' = receipts \/ receipts' = receipts \union {Summary(snapshot)}
    PROVE  [History!Next]_History!hvars
<1>1. CASE receipts' = receipts
  BY <1>1 DEF History!hvars
<1>2. CASE receipts' = receipts \union {Summary(snapshot)}
  <2>1. Len(snapshot) \in 0..durable /\ snapshot = SubSeq(log, 1, Len(snapshot))
    BY LenProperties DEF IInv, TypeOK, SnapshotTracksLog
  <2>2. snapshot \in History!Positions
    BY <2>1, PrefixIsPosition
  <2>3. History!Certify
    BY <1>2, <2>2, SameDigests DEF History!Certify
  <2> QED
    BY <2>3 DEF History!Next
<1> QED
  BY <1>1, <1>2

\* A replay reports a position of the history, or the event being appended too.
LEMMA ReportStep ==
    ASSUME IInv, NEW p \in Procs, Report(p)
    PROVE  [History!Next]_History!hvars
<1>1. UNCHANGED << log, durable, receipts >>
  BY DEF Report, Fail, clients, eventsFile
<1>2. CASE replays' = replays
  BY <1>1, <1>2 DEF History!hvars
<1>3. CASE replays' = replays \union {Summary(seen[p])}
  <2>1. /\ log \in Seq(Events) /\ Len(log) \in Nat /\ durable \in 0..Len(log)
    BY LenProperties DEF IInv, TypeOK
  <2>2. PICK n \in 0..Len(log) : seen[p] = SubSeq(log, 1, n)
    BY DEF Report, IInv, Working, WasRead
  <2>3. seen[p] \in History!Positions \union {History!Extended(id) : id \in History!FreshIds}
    <3>1. CASE n \in 0..durable
      BY <2>2, <3>1, PrefixIsPosition
    <3>2. CASE n \notin 0..durable
      <4>1. durable # Len(log)
        BY <2>1, <3>2
      <4>2. n = Len(log) /\ \E id \in History!FreshIds : log = History!Extended(id)
        BY <2>1, <3>2, <4>1, AheadByOne
      <4>3. seen[p] = log
        BY <2>1, <2>2, <4>2, SubSeqFull
      <4> QED
        BY <4>2, <4>3
    <3> QED
      BY <3>1, <3>2
  <2>4. History!Report
    BY <1>1, <1>3, <2>3, SameDigests DEF History!Report
  <2> QED
    BY <2>4 DEF History!Next
<1> QED
  BY <1>2, <1>3 DEF Report, Fail, clients

\* A step that writes behind what is durable is invisible.
LEMMA HiddenStep ==
    ASSUME IInv, UNCHANGED << durable, receipts, replays >>,
           log' = log \/ \E e \in Events : log' = Append(log, e)
    PROVE  UNCHANGED History!hvars
<1>1. log \in Seq(Events) /\ durable \in 0..Len(log)
  BY DEF IInv, TypeOK
<1>2. SubSeq(log', 1, durable) = SubSeq(log, 1, durable)
  BY <1>1, PrefixOfAppend
<1> QED
  BY <1>2 DEF History!hvars

\* The end of a command is a Certify of the history, or invisible.
LEMMA EndsImplement ==
    ASSUME IInv, NEW p \in Procs, UNCHANGED eventsFile,
           Fail(p) \/ Certify(p, snapshot)
    PROVE  [History!Next]_History!hvars
BY ReceiptStep DEF Fail, Certify, clients, eventsFile

\* Each step of a command is a Commit, a Certify or a Report, or invisible.
LEMMA RunImplements ==
    ASSUME ShortWrites = FALSE, IInv, NEW p \in Procs, Run(p)
    PROVE  [History!Next]_History!hvars
<1>1. CASE UNCHANGED << log, durable, receipts, replays >>
  BY <1>1 DEF History!hvars
<1>2. CASE Acquire(p) \/ Accept(p) \/ ReplaceSnapshot(p) \/ RewriteSnapshot(p)
           \/ WritePart(p)
  <2>1. UNCHANGED << log, durable, receipts, replays >>
    BY <1>2 DEF Acquire, Accept, ReplaceSnapshot, RewriteSnapshot, WritePart, Step,
       clients, eventsFile
  <2> QED
    BY <1>1, <2>1
<1>3. CASE Busy(p) \/ Reject(p) \/ Noop(p) \/ Compare(p) \/ WriteReceipt(p)
  <2>1. UNCHANGED eventsFile /\ (Fail(p) \/ Certify(p, snapshot))
    BY <1>3 DEF Busy, Reject, Noop, Compare, WriteReceipt, SnapshotAgrees, IInv, Working
  <2> QED
    BY <2>1, EndsImplement
<1>4. CASE ReadForAppend(p) \/ ReadForRecover(p) \/ Scan(p)
  <2>1. CASE Fail(p) \/ Certify(p, snapshot)
    BY <1>4, <2>1, EndsImplement DEF ReadForAppend, ReadForRecover, Scan
  <2>2. CASE UNCHANGED << eventsFile, receipts, replays >>
    BY <1>1, <2>2 DEF eventsFile
  <2> QED
    BY <1>4, <2>1, <2>2 DEF ReadForAppend, ReadForRecover, Scan, Step, clients
<1>5. CASE WriteLine(p)
  <2>1. pc[p] \in {"write", "line"}
    BY <1>5 DEF WriteLine, Step
  <2>2. request[p] \in Events
    BY <2>1 DEF IInv, Working, Fits
  <2>3. UNCHANGED << durable, receipts, replays >> /\ log' = Append(log, request[p])
    BY <1>5 DEF WriteLine, Step, clients
  <2> QED
    BY <2>2, <2>3, HiddenStep
<1>6. CASE Truncate(p)
  <2>1. UNCHANGED << durable, receipts, replays >> /\ log' = seen[p] /\ pc[p] = "truncate"
    BY <1>6 DEF Truncate, ValidPart, Step, clients
  <2>2. log' = log
    BY <2>1 DEF IInv, Working
  <2> QED
    BY <1>1, <2>1, <2>2
<1>7. CASE Fsync(p) \/ SyncTail(p)
  <2>1. durable' = Len(log) /\ log' = log /\ UNCHANGED << receipts, replays >>
    BY <1>7 DEF Fsync, SyncTail, Step, clients
  <2>2. Len(log) \in durable..Len(log)
    BY LenProperties DEF IInv, TypeOK
  <2> QED
    BY <2>1, <2>2, DurableStep
<1>8. CASE Report(p)
  BY <1>8, ReportStep
<1> QED
  BY <1>2, <1>3, <1>4, <1>5, <1>6, <1>7, <1>8 DEF Run, WriteShort

\* What a power loss leaves beyond the durable part becomes durable.
LEMMA PowerLossImplements ==
    ASSUME IInv, PowerLoss
    PROVE  [History!Next]_History!hvars
<1>1. PICK kept \in {log, SubSeq(log, 1, durable)} :
          log' = kept /\ durable' = Len(kept)
  BY DEF PowerLoss
<1>2. log \in Seq(Events) /\ Len(log) \in Nat /\ durable \in 0..Len(log)
  BY LenProperties DEF IInv, TypeOK
<1>3. PICK n \in durable..Len(log) : kept = SubSeq(log, 1, n)
  BY <1>2, SubSeqFull
<1>4. n \in 0..Len(log)
  BY <1>2
<1>5. kept \in Seq(Events) /\ Len(kept) = n
  BY <1>2, <1>3, <1>4, PrefixFacts
<1>6. SubSeq(log', 1, durable') = SubSeq(log, 1, durable')
  BY <1>1, <1>3, <1>5, SubSeqFull
<1>7. durable' \in durable..Len(log) /\ UNCHANGED << receipts, replays >>
  BY <1>1, <1>5 DEF PowerLoss, clients
<1> QED
  BY <1>6, <1>7, DurableStep

\* Every step of the store is a step of the history, or invisible.
LEMMA NextImplements ==
    ASSUME ShortWrites = FALSE, IInv, [Next]_vars
    PROVE  [History!Next]_History!hvars
<1>1. CASE PowerLoss
  BY <1>1, PowerLossImplements
<1>2. CASE \E p \in Procs : Run(p)
  BY <1>2, RunImplements
<1>3. CASE UNCHANGED << eventsFile, clients >>
  BY <1>3 DEF History!hvars, eventsFile, clients
<1>4. CASE Next
  BY <1>1, <1>2, <1>3, <1>4
  DEF Next, BeginAppend, BeginRecover, BeginScan, Begin, Crash
<1> QED
  BY <1>3, <1>4 DEF vars

\* The durable part of the store is the growing history of LedgerHistory: its
\* receipts name positions of it only, and a replay reports at most one event more.
THEOREM StoreImplementsHistory ==
    ASSUME ShortWrites = FALSE PROVE Spec => ImplementsHistory
<1>1. Init => History!Init
  BY SubSeqEmpty DEF Init, History!Init
<1>2. IInv /\ [Next]_vars => [History!Next]_History!hvars
  BY NextImplements
<1> QED
  BY <1>1, <1>2, Invariance, PTL DEF Spec, History!Spec, ImplementsHistory
=============================================================================
