------------------------------ MODULE Journal ------------------------------
(***************************************************************************)
(* runtimemeasure.Journal: the measurer that extends each image digest     *)
(* into the append-only register once, over any number of restarts, by     *)
(* recording the digest in a file before it extends.                       *)
(*                                                                         *)
(* One measurer process, its journal file and the register.  The file and  *)
(* the register outlive the process.  A handler is split where the process *)
(* can die and leave something behind: after the append and before the     *)
(* extend, after the failed extend and before the rewrite, after reconcile *)
(* read the register and before its repair extend.                         *)
(***************************************************************************)
EXTENDS RuntimeMeasure

CONSTANTS
    Anchor,     \* the launch-bound bytes the measured initrd hashed
    Other,      \* what a party outside the journal may extend
    Torn,       \* a line that is not a canonical digest
    Faults,     \* the kinds of failure that may happen
    MaxFaults   \* bound: how many of them may happen in one behaviour

FaultKinds == {"crash", "torn", "record", "extend", "rollback",
               "unreadable", "foreign"}

ASSUME NamesDistinct == /\ {Anchor, Other, Torn} \cap Digests = {}
                        /\ Anchor # Other
                        /\ Torn # None
ASSUME FaultsAssumption == Faults \subseteq FaultKinds
ASSUME MaxFaultsAssumption == MaxFaults \in Nat

VARIABLES
    reg,        \* the hardware register: the events folded in since boot
    file,       \* the journal file
    pc,         \* where the measurer is; "down" when no Journal is open
    order,      \* Journal.order
    measured,   \* Journal.measured
    diverged,   \* Journal.diverged
    cur,        \* the digest the step in progress is about
    acked,      \* history: digests MeasureOnce returned no error for
    foreign,    \* history: something outside the journal extended reg
    faults      \* how many failures have happened

journal == <<order, measured, diverged>>
vars == <<reg, file, pc, journal, cur, acked, foreign, faults>>

-----------------------------------------------------------------------------
(* The file is a sequence of newline-terminated lines and what follows the *)
(* last newline: nothing (None), a whole digest, or something else (Torn). *)
Lines == Digests \cup {Torn}
Files == [lines : Seq(Lines), tail : Lines \cup {None}]
EmptyFile == [lines |-> << >>, tail |-> None]

(* Writing a fragment after an unterminated one runs the two together, and *)
(* no two run together spell a canonical digest.                           *)
Join(tail, fragment) == IF tail = None THEN fragment ELSE Torn

(* WriteString(digest + "\n") with O_APPEND. *)
AppendLine(f, d) ==
    [lines |-> Append(f.lines, Join(f.tail, d)), tail |-> None]

(* The same write cut short: inside the digest, or before the newline. *)
AppendFragment(f, fragment) ==
    [lines |-> f.lines, tail |-> Join(f.tail, fragment)]

(* What strings.SplitSeq(b, "\n") yields, the empty last piece left out. *)
Split(f) == IF f.tail = None THEN f.lines ELSE Append(f.lines, f.tail)

(* The canonical lines of a file. *)
Recorded(f) == {d \in Digests : \E i \in 1..Len(Split(f)) : Split(f)[i] = d}

FirstLine(f, d) ==
    CHOOSE i \in 1..Len(Split(f)) :
        /\ Split(f)[i] = d
        /\ \A j \in 1..(i - 1) : Split(f)[j] # d

(* What order can be: digests without repetition. *)
Orders == {o \in UNION {[1..n -> Digests] : n \in 0..Cardinality(Digests)} :
              \A i, j \in DOMAIN o : o[i] = o[j] => i = j}

(* parseJournal: o is the canonical lines of f without repetition, in the  *)
(* order of their first occurrence.                                        *)
parseJournal(f, o) ==
    /\ {o[i] : i \in DOMAIN o} = Recorded(f)
    /\ \A i, j \in DOMAIN o : i < j => FirstLine(f, o[i]) < FirstLine(f, o[j])

(* Journal.seed: what the register held before any journaled extend. *)
seed == Seed(Anchor)

ButLast(s) == SubSeq(s, 1, Len(s) - 1)

(* strings.Builder over order, one line each. *)
Rendered(o) == [lines |-> o, tail |-> None]

-----------------------------------------------------------------------------
TypeOK ==
    /\ reg \in Seq([sha384 : Digests \cup {Anchor, Other}])
    /\ file \in Files
    /\ pc \in {"down", "repairing", "idle", "recorded", "rollback"}
    /\ order \in Seq(Digests)
    /\ measured \subseteq Digests
    /\ diverged \in BOOLEAN
    /\ cur \in Digests \cup {None}
    /\ cur = None <=> pc \in {"down", "idle"}
    /\ acked \subseteq Digests
    /\ foreign \in BOOLEAN
    /\ faults \in 0..MaxFaults

(* A guest launched with Anchor, before the measurer first starts. *)
Init ==
    /\ reg = seed
    /\ file = EmptyFile
    /\ pc = "down"
    /\ order = << >>
    /\ measured = {}
    /\ diverged = FALSE
    /\ cur = None
    /\ acked = {}
    /\ foreign = FALSE
    /\ faults = 0

Fault(kind) ==
    /\ kind \in Faults
    /\ faults < MaxFaults
    /\ faults' = faults + 1

(* tdxRegister: a write to the TSM node folds one whole event in or errors *)
(* without effect; a read returns the value.                               *)
RegisterExtend(event) == reg' = Extend(reg, event)
Extension == reg

-----------------------------------------------------------------------------
(* OpenJournalSeeded up to the point where reconcile has read the register *)
(* and decided.                                                            *)

(* The journal folds to the register: a clean restart. *)
Matches(o) == Extension = FromDigestsSeeded(seed, o)

(* Mutant: reconcile has no repair arm. *)
OneBehind_NoRepair(o) == FALSE

(* The journal without its last entry does: a record was not extended. *)
OneBehind(o) ==
    /\ Len(o) > 0
    /\ Extension = FromDigestsSeeded(seed, ButLast(o))

(* Mutant: the already-measured set does not survive a restart. *)
Load_ForgetsMeasured(o) ==
    /\ parseJournal(file, o)
    /\ order' = o
    /\ measured' = {}

(* The in-memory journal parseJournal fills. *)
Load(o) ==
    /\ parseJournal(file, o)
    /\ order' = o
    /\ measured' = {o[i] : i \in DOMAIN o}

Open ==
    /\ pc = "down"
    /\ \E o \in Orders :
        /\ Load(o)
        /\ \/ /\ Matches(o)
              /\ pc' = "idle" /\ diverged' = FALSE /\ cur' = None
           \/ /\ ~Matches(o) /\ OneBehind(o)
              /\ pc' = "repairing" /\ diverged' = FALSE /\ cur' = o[Len(o)]
           \/ /\ ~Matches(o) /\ ~OneBehind(o)
              /\ pc' = "idle" /\ diverged' = TRUE /\ cur' = None
    /\ UNCHANGED <<reg, file, acked, foreign, faults>>

(* reconcile cannot read the register: the journal comes back usable. *)
OpenUnreadable ==
    /\ pc = "down"
    /\ Fault("unreadable")
    /\ \E o \in Orders : Load(o)
    /\ pc' = "idle"
    /\ diverged' = FALSE
    /\ UNCHANGED <<reg, file, cur, acked, foreign>>

(* Mutant: reconcile recognises the interrupted extend and leaves it. *)
RepairExtend_Skipped ==
    /\ pc = "repairing"
    /\ pc' = "idle"
    /\ cur' = None
    /\ UNCHANGED <<reg, file, journal, acked, foreign, faults>>

(* reconcile finishes the interrupted extend, and OpenJournal returns. *)
RepairExtend ==
    /\ pc = "repairing"
    /\ RegisterExtend(Event(cur))
    /\ pc' = "idle"
    /\ cur' = None
    /\ UNCHANGED <<file, journal, acked, foreign, faults>>

(* The repair extend fails: OpenJournal returns a nil journal. *)
RepairFails ==
    /\ pc = "repairing"
    /\ Fault("extend")
    /\ pc' = "down"
    /\ order' = << >> /\ measured' = {} /\ cur' = None
    /\ UNCHANGED <<reg, file, diverged, acked, foreign>>

-----------------------------------------------------------------------------
(* Mutant: MeasureOnce goes on although CanonicalDigest failed. *)
Admits_AnyRef(ref) ==
    /\ pc = "idle"
    /\ ~diverged

(* Mutant: a diverged journal goes on measuring. *)
Admits_Diverged(ref) ==
    /\ pc = "idle"
    /\ CanonicalDigest(ref) # None

(* MeasureOnce(ref).  A reference that is not canonical and a diverged     *)
(* journal are refused before anything changes.                            *)
Admits(ref) ==
    /\ pc = "idle"
    /\ CanonicalDigest(ref) # None
    /\ ~diverged

(* Already recorded: (false, nil). *)
MeasureKnown(ref) ==
    /\ Admits(ref)
    /\ CanonicalDigest(ref) \in measured
    /\ acked' = acked \cup {CanonicalDigest(ref)}
    /\ UNCHANGED <<reg, file, pc, journal, cur, foreign, faults>>

(* Mutant: record notes the digest in memory only. *)
Record_MemoryOnly(ref) ==
    /\ Admits(ref)
    /\ CanonicalDigest(ref) \notin measured
    /\ cur' = CanonicalDigest(ref)
    /\ order' = Append(order, cur')
    /\ pc' = "recorded"
    /\ UNCHANGED <<reg, file, measured, diverged, acked, foreign, faults>>

(* record(d): the append is written, synced and closed, and order grows. *)
Record(ref) ==
    /\ Admits(ref)
    /\ CanonicalDigest(ref) \notin measured
    /\ cur' = CanonicalDigest(ref)
    /\ file' = AppendLine(file, cur')
    /\ order' = Append(order, cur')
    /\ pc' = "recorded"
    /\ UNCHANGED <<reg, measured, diverged, acked, foreign, faults>>

(* record(d) returns an error: the file could not be opened, the write was *)
(* cut short, or it landed and the sync or the close failed.  MeasureOnce  *)
(* returns the error; order is as it was.                                  *)
RecordFails(ref) ==
    /\ Admits(ref)
    /\ CanonicalDigest(ref) \notin measured
    /\ Fault("record")
    /\ LET d == CanonicalDigest(ref)
       IN  file' \in {file, AppendFragment(file, Torn),
                      AppendFragment(file, d), AppendLine(file, d)}
    /\ UNCHANGED <<reg, pc, journal, cur, acked, foreign>>

(* The process dies inside the append, leaving a partial last line. *)
RecordTorn(ref) ==
    /\ Admits(ref)
    /\ CanonicalDigest(ref) \notin measured
    /\ Fault("torn")
    /\ \E fragment \in {Torn, CanonicalDigest(ref)} :
          file' = AppendFragment(file, fragment)
    /\ pc' = "down"
    /\ order' = << >> /\ measured' = {} /\ diverged' = FALSE
    /\ UNCHANGED <<reg, cur, acked, foreign>>

(* The register takes the event and MeasureOnce returns (true, nil). *)
MeasureExtend ==
    /\ pc = "recorded"
    /\ RegisterExtend(Event(cur))
    /\ measured' = measured \cup {cur}
    /\ acked' = acked \cup {cur}
    /\ pc' = "idle"
    /\ cur' = None
    /\ UNCHANGED <<file, order, diverged, foreign, faults>>

(* Mutant: unrecordLast does not shorten order before the rewrite. *)
ExtendFails_KeepsOrder ==
    /\ pc = "recorded"
    /\ Fault("extend")
    /\ pc' = "rollback"
    /\ UNCHANGED <<reg, file, journal, cur, acked, foreign>>

(* Extend fails, which the code takes to mean that nothing was folded in;  *)
(* unrecordLast drops the digest from order and is about to rewrite.       *)
ExtendFails ==
    /\ pc = "recorded"
    /\ Fault("extend")
    /\ order' = IF Len(order) > 0 /\ order[Len(order)] = cur
                THEN ButLast(order) ELSE order
    /\ pc' = "rollback"
    /\ UNCHANGED <<reg, file, measured, diverged, cur, acked, foreign>>

(* Mutant: a failed extend leaves its record on file. *)
Rollback_KeepsRecord ==
    /\ pc = "rollback"
    /\ pc' = "idle"
    /\ cur' = None
    /\ UNCHANGED <<reg, file, journal, acked, foreign, faults>>

(* writeAtomic replaces the file; MeasureOnce returns the extend's error. *)
Rollback ==
    /\ pc = "rollback"
    /\ file' = Rendered(order)
    /\ pc' = "idle"
    /\ cur' = None
    /\ UNCHANGED <<reg, journal, acked, foreign, faults>>

(* writeAtomic fails, before the rename or in syncDir after it;            *)
(* MeasureOnce returns both errors.                                        *)
RollbackFails ==
    /\ pc = "rollback"
    /\ Fault("rollback")
    /\ file' \in {file, Rendered(order)}
    /\ pc' = "idle"
    /\ cur' = None
    /\ UNCHANGED <<reg, journal, acked, foreign>>

-----------------------------------------------------------------------------
(* The process dies; what it kept in memory is gone. *)
Crash ==
    /\ pc # "down"
    /\ Fault("crash")
    /\ pc' = "down"
    /\ order' = << >> /\ measured' = {} /\ diverged' = FALSE /\ cur' = None
    /\ UNCHANGED <<reg, file, acked, foreign>>

(* Something outside the journal extends the register. *)
ForeignExtend ==
    /\ Fault("foreign")
    /\ RegisterExtend(Event(Other))
    /\ foreign' = TRUE
    /\ UNCHANGED <<file, pc, journal, cur, acked>>

Measure ==
    \E ref \in Refs :
        \/ MeasureKnown(ref)
        \/ Record(ref)
        \/ RecordFails(ref)
        \/ RecordTorn(ref)

Next ==
    \/ Open
    \/ OpenUnreadable
    \/ RepairExtend
    \/ RepairFails
    \/ Measure
    \/ MeasureExtend
    \/ ExtendFails
    \/ Rollback
    \/ RollbackFails
    \/ Crash
    \/ ForeignExtend

Spec == Init /\ [][Next]_vars

(* A started handler runs on, and a supervisor restarts a measurer that is *)
(* down.  Nothing obliges a caller to measure, so Measure is not fair.     *)
Fairness ==
    /\ WF_vars(Open)
    /\ WF_vars(RepairExtend)
    /\ WF_vars(MeasureExtend)
    /\ WF_vars(Rollback)

-----------------------------------------------------------------------------
(* Properties.  Which faults each tolerates is stated by the runs and the  *)
(* theorems.                                                               *)

(* No image is ever extended twice, over any number of restarts and        *)
(* retries: what Journal is for (journal.go, type Journal).  It outlives   *)
(* an append cut short only while the register can be read at every open,  *)
(* and a register that cannot be read only while no append is cut short:   *)
(* a record that runs into a fragment is lost to parseJournal, and no      *)
(* fold of the register then tells that it was extended.                   *)
AtMostOnce ==
    \A i, j \in 1..Len(reg) :
        (reg[i] = reg[j] /\ reg[i].sha384 \in Digests) => i = j

(* An image MeasureOnce returned no error for, whether it extended then or *)
(* found the digest recorded, is in the register; with AtMostOnce, exactly *)
(* once.                                                                   *)
AckedIsMeasured == acked \subseteq Held(reg)

(* ErrRegisterDiverged "reports that [...] something outside the journal   *)
(* extended" the register: no failure of the measurer's own may lead to    *)
(* it, since it ends measurement for the rest of the boot.                 *)
DivergedMeansForeign == diverged => foreign

(* As long as the journal alone extends the register, the file as any      *)
(* reader would parse it explains the register up to one record not yet    *)
(* extended: at every point of every handler, so that a restart there      *)
(* recovers.                                                               *)
FileExplainsRegister ==
    ~foreign => \E o \in Orders : parseJournal(file, o) /\ (Matches(o) \/ OneBehind(o))

(* A digest is extended only while the file records it: "the one ordering  *)
(* OpenJournal cannot repair" (record) never happens.                      *)
WriteAhead ==
    [][\A d \in Held(reg') \ Held(reg) : d \in Recorded(file)]_vars

(* A digest on file is extended sooner or later or taken off it: a         *)
(* recorded digest is not left unmeasured by the restarts that interrupt   *)
(* it, unless something outside the journal extended the register, after   *)
(* which nothing may be repaired (MeasureOnce, reconcile, unrecordLast).   *)
RecordedIsSettled ==
    \A d \in Digests :
        (d \in Recorded(file))
            ~> (d \in Held(reg) \/ d \notin Recorded(file) \/ foreign)

-----------------------------------------------------------------------------
(* The events after the launch binding, as what they measure. *)
Measurements == [i \in 1..(Len(reg) - 1) |-> reg[i + 1].sha384]

Log == INSTANCE MeasuredLog WITH log <- Measurements

(* The journal with its file and its failures implements the log it        *)
(* promises: every step appends an image not measured before, reports one  *)
(* that was, or changes nothing a caller sees.                             *)
ImplementsLog == Log!Spec

=============================================================================
