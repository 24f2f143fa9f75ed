-------------------------- MODULE LedgerInit_proofs --------------------------
(***************************************************************************)
(* For any number of concurrent inits, contracts and crashes: one init at  *)
(* most passes, and the manifest commits the initialisation.               *)
(*                                                                         *)
(* Both rest on the exclusive creation of events.jsonl: who is past it is  *)
(* the only one ever, so nobody has passed before, no manifest exists and  *)
(* no event was appended.                                                  *)
(***************************************************************************)
EXTENDS LedgerInit, TLAPS

\* What a process that is past the exclusive creation may count on.
Initialising(p) ==
    /\ pc[p] \in {"events", "snapshot", "manifest"} => contract # Absent
    /\ pc[p] \in {"snapshot", "manifest"} => events = 0 /\ manifest = Absent
    /\ pc[p] = "manifest" => snapshot = 0
    /\ pc[p] \in {"snapshot", "manifest", "receipt"} => passed = 0 /\ events # Absent

IInv ==
    /\ TypeOK
    /\ OneInitPasses
    /\ ManifestIsLast
    /\ events = Absent => passed = 0 /\ manifest = Absent
    /\ \A p \in Procs : Initialising(p)

\* The empty directory satisfies the invariant.
LEMMA InitEstablishes == Init => IInv
<1> SUFFICES ASSUME Init PROVE IInv
  OBVIOUS
<1>1. /\ pc \in [Procs -> LeaseHeld \union {"idle", "lease"}]
      /\ brings \in [Procs -> Contracts]
      /\ \A p \in Procs : pc[p] = "idle" /\ holder # p
  BY NoProcAssumption DEF Init
<1>2. TypeOK
  <2>1. \A p \in Procs : pc[p] \in LeaseHeld <=> holder = p
    BY <1>1 DEF LeaseHeld
  <2>2. lock = FALSE /\ passed = 0 /\ crashes = 0
    BY DEF Init
  <2>3. /\ contract = Absent /\ events = Absent /\ snapshot = Absent /\ manifest = Absent
        /\ holder = NoProc
    BY DEF Init
  <2>4. lock \in BOOLEAN
    BY <2>2
  <2>5. crashes \in 0..MaxCrashes /\ passed \in Nat
    BY <2>2, BoundsAssumption
  <2>6. /\ contract \in Contracts \union {Absent}
        /\ events \in 0..MaxEvents \union {Absent}
        /\ snapshot \in 0..MaxEvents \union {Absent}
        /\ manifest \in Contracts \union {Absent}
        /\ holder \in Procs \union {NoProc}
    BY <2>3
  <2> QED
    BY <1>1, <2>1, <2>4, <2>5, <2>6 DEF TypeOK
<1> QED
  BY <1>1, <1>2 DEF Init, IInv, OneInitPasses, ManifestIsLast, Initialising

\* The end of a command that has changed no file keeps the invariant.
LEMMA EndKeeps ==
    ASSUME IInv, NEW p \in Procs, End(p), UNCHANGED << lock, files >>,
           crashes' \in 0..MaxCrashes,
           \/ passed' = passed
           \/ pc[p] = "receipt" /\ passed' = passed + 1
    PROVE  IInv'
<1> USE NoProcAssumption DEF LeaseHeld
<1>1. TypeOK'
  BY DEF IInv, TypeOK, End, files
<1>2. passed' \in {0, 1} /\ (events = Absent => passed' = 0)
  BY DEF IInv, TypeOK, OneInitPasses, Initialising
<1>3. ManifestIsLast'
  BY DEF IInv, ManifestIsLast, files
<1>4. ASSUME NEW q \in Procs PROVE Initialising(q)'
  <2>1. CASE q = p
    BY <2>1 DEF Initialising, End, IInv, TypeOK
  <2>2. CASE q # p
    <3>1. pc'[q] = pc[q]
      BY <2>2 DEF End, IInv, TypeOK
    <3>2. pc[q] \in LeaseHeld => passed' = passed
      BY <2>2 DEF IInv, TypeOK
    <3> QED
      BY <3>1, <3>2 DEF Initialising, files, IInv
  <2> QED
    BY <2>1, <2>2
<1> QED
  BY <1>1, <1>2, <1>3, <1>4 DEF IInv, OneInitPasses, files

\* Every step of an init, an append or a crash keeps the invariant.
LEMMA NextKeeps ==
    ASSUME IInv, Next
    PROVE  IInv'
<1> USE NoProcAssumption, AbsentAssumption, BoundsAssumption DEF LeaseHeld
<1>1. ASSUME NEW p \in Procs, NEW c \in Contracts, CheckEmpty(p, c) PROVE IInv'
  BY <1>1
  DEF CheckEmpty, IInv, TypeOK, OneInitPasses, ManifestIsLast, Initialising, files
<1>2. ASSUME NEW p \in Procs, Acquire(p) PROVE IInv'
  BY <1>2
  DEF Acquire, Step, IInv, TypeOK, OneInitPasses, ManifestIsLast, Initialising, files
<1>3. ASSUME NEW p \in Procs, Busy(p) PROVE IInv'
  BY <1>3, EndKeeps DEF Busy, IInv, TypeOK
<1>4. ASSUME NEW p \in Procs, WriteContract(p) PROVE IInv'
  BY <1>4
  DEF WriteContract, Step, IInv, TypeOK, OneInitPasses, ManifestIsLast, Initialising
<1>5. ASSUME NEW p \in Procs, CreateEvents(p) PROVE IInv'
  <2>1. CASE events = Absent
    BY <1>5, <2>1
    DEF CreateEvents, Step, IInv, TypeOK, OneInitPasses, ManifestIsLast, Initialising
  <2>2. CASE events # Absent
    BY <1>5, <2>2, EndKeeps DEF CreateEvents, files, IInv, TypeOK
  <2> QED
    BY <2>1, <2>2
<1>6. ASSUME NEW p \in Procs, WriteSnapshot(p) PROVE IInv'
  BY <1>6
  DEF WriteSnapshot, Step, IInv, TypeOK, OneInitPasses, ManifestIsLast, Initialising
<1>7. ASSUME NEW p \in Procs, WriteManifest(p) PROVE IInv'
  BY <1>7
  DEF WriteManifest, Step, IInv, TypeOK, OneInitPasses, ManifestIsLast, Initialising
<1>8. ASSUME NEW p \in Procs, WriteReceipt(p) PROVE IInv'
  BY <1>8, EndKeeps DEF WriteReceipt, IInv, TypeOK
<1>9. ASSUME NEW p \in Procs, AppendEvent(p) PROVE IInv'
  BY <1>9
  DEF AppendEvent, Usable, IInv, TypeOK, OneInitPasses, ManifestIsLast, Initialising
<1>10. ASSUME NEW p \in Procs, Crash(p) PROVE IInv'
  BY <1>10, EndKeeps DEF Crash, IInv, TypeOK
<1> QED
  BY <1>1, <1>2, <1>3, <1>4, <1>5, <1>6, <1>7, <1>8, <1>9, <1>10 DEF Next

\* The invariant holds throughout.
LEMMA Invariance == Spec => []IInv
<1>1. IInv /\ UNCHANGED vars => IInv'
  BY DEF vars, files, IInv, TypeOK, OneInitPasses, ManifestIsLast, Initialising
<1>2. IInv /\ [Next]_vars => IInv'
  BY <1>1, NextKeeps
<1> QED
  BY <1>2, InitEstablishes, PTL DEF Spec

-----------------------------------------------------------------------------
\* One init at most is told that it has initialised the store.
THEOREM OneInitEverPasses == Spec => []OneInitPasses
<1>1. IInv => OneInitPasses
  BY DEF IInv
<1> QED
  BY <1>1, Invariance, PTL

\* A store with a manifest has all its files, and a snapshot of its events.
THEOREM ManifestCommits == Spec => []ManifestIsLast
<1>1. IInv => ManifestIsLast
  BY DEF IInv
<1> QED
  BY <1>1, Invariance, PTL
=============================================================================
