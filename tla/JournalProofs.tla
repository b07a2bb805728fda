--------------------------- MODULE JournalProofs ---------------------------
(***************************************************************************)
(* Proofs about Journal, for every finite set of digests, every set of     *)
(* faults and every number of them, and about RuntimeLog.                  *)
(*                                                                         *)
(* The first part is about the register: each image is measured exactly    *)
(* once, whatever becomes of the file, if the register can be read at      *)
(* every open, and at most once if it cannot but no append was cut short   *)
(* (NeverBehind).  The second is about what the file says of the register, *)
(* under any number of crashes, failed extends and foreign extends.        *)
(*                                                                         *)
(* The invariant Accounted ties the file, the journal in memory and the    *)
(* register together at every point of every handler.  What it says of the *)
(* file is more than FileExplainsRegister does (the file has no torn line  *)
(* and no repetition), because reopening parses the file: parseJournal     *)
(* gives back exactly the lines only of such a file (ParsedIsLines).       *)
(*                                                                         *)
(* What a verifier makes of the file and the register read at different    *)
(* moments follows from the lines that no rollback takes back (Firm): they *)
(* only grow, the quote is a fold of some of them, and the list is some of *)
(* them and at most one line more.                                         *)
(***************************************************************************)
EXTENDS RuntimeLog, OrderingProofs, SequenceTheorems

(* What the register's elements are. *)
Events == [sha384 : Digests \cup {Anchor, Other}]

-----------------------------------------------------------------------------
(* What parseJournal can return is a sequence of digests. *)
LEMMA OrdersType ==
    ASSUME NEW o \in Orders
    PROVE  /\ o \in Seq(Digests)
           /\ \A i, j \in 1..Len(o) : o[i] = o[j] => i = j
           /\ DOMAIN o = 1..Len(o)
<1>1. Cardinality(Digests) \in Nat
    BY DigestsFinite, FS_CardinalityType
<1>2. PICK n \in 0..Cardinality(Digests) : o \in [1..n -> Digests]
    BY DEF Orders
<1>3. n \in Nat
    BY <1>1, <1>2
<1>4. o \in Seq(Digests) /\ DOMAIN o = 1..Len(o)
    BY <1>2, <1>3
<1> QED
    BY <1>4 DEF Orders

(* An extend adds the image it measures to what the register holds. *)
LEMMA HeldExtend ==
    ASSUME NEW r \in Seq(Events), NEW x \in Digests \cup {Anchor, Other}
    PROVE  /\ Extend(r, Event(x)) \in Seq(Events)
           /\ Held(Extend(r, Event(x))) = Held(r) \cup (Digests \cap {x})
<1> DEFINE q == Extend(r, Event(x))
<1>1. Event(x) \in Events
    BY DEF Event, Events
<1>2. q \in Seq(Events) /\ Len(q) = Len(r) + 1 /\ Len(r) \in Nat
    BY <1>1 DEF Extend
<1>3. \A i \in 1..Len(r) : q[i] = r[i]
    BY <1>1 DEF Extend
<1>4. q[Len(r) + 1] = Event(x)
    BY <1>1 DEF Extend
<1>5. \A d \in Digests : Event(d) = Event(x) <=> d = x
    BY DEF Event
<1> HIDE DEF q
<1>6. \A d \in Digests : d \in Held(q) <=> d \in Held(r) \/ d = x
    <2> TAKE d \in Digests
    <2>1. ASSUME d \in Held(q) PROVE d \in Held(r) \/ d = x
        <3>1. PICK i \in 1..Len(q) : q[i] = Event(d)
            BY <2>1 DEF Held
        <3>2. CASE i = Len(r) + 1
            BY <3>1, <3>2, <1>4, <1>5
        <3>3. CASE i # Len(r) + 1
            <4>1. i \in 1..Len(r)
                BY <3>1, <3>3, <1>2
            <4> QED BY <4>1, <3>1, <1>3 DEF Held
        <3> QED BY <3>2, <3>3
    <2>2. ASSUME d \in Held(r) PROVE d \in Held(q)
        <3>1. PICK i \in 1..Len(r) : r[i] = Event(d)
            BY <2>2 DEF Held
        <3>2. i \in 1..Len(q) /\ q[i] = Event(d)
            BY <3>1, <1>2, <1>3
        <3> QED BY <3>2 DEF Held
    <2>3. ASSUME d = x PROVE d \in Held(q)
        <3>1. Len(r) + 1 \in 1..Len(q) /\ q[Len(r) + 1] = Event(d)
            BY <2>3, <1>2, <1>4
        <3> QED BY <3>1 DEF Held
    <2> QED BY <2>1, <2>2, <2>3
<1>7. Held(q) \subseteq Digests /\ Held(r) \subseteq Digests
    BY DEF Held
<1>8. Held(q) = Held(r) \cup (Digests \cap {x})
    BY <1>6, <1>7
<1> QED BY <1>2, <1>8 DEF q

(* A journal folded onto the seed holds the images the journal names. *)
LEMMA HeldFold ==
    ASSUME NEW o \in Seq(Digests)
    PROVE  Held(FromDigestsSeeded(seed, o)) = {o[i] : i \in 1..Len(o)}
<1> DEFINE f == [i \in 1..Len(o) |-> Event(o[i])]
           q == FromDigestsSeeded(seed, o)
<1>1. seed = << [sha384 |-> Anchor] >>
    BY DEF seed, Seed, Extend, Zero
<1>2. f \in Seq(Events) /\ Len(f) = Len(o) /\ Len(o) \in Nat
    BY DEF Events, Event
<1>3. seed \in Seq(Events) /\ Len(seed) = 1 /\ seed[1] = [sha384 |-> Anchor]
    BY <1>1 DEF Events
<1>4. q = seed \o f
    BY DEF FromDigestsSeeded
<1> HIDE DEF f, q
<1>5. /\ Len(q) = Len(seed) + Len(f)
      /\ \A i \in 1..(Len(seed) + Len(f)) :
            q[i] = IF i <= Len(seed) THEN seed[i] ELSE f[i - Len(seed)]
    <2>1. \A S : \A s, t \in Seq(S) :
            /\ Len(s \o t) = Len(s) + Len(t)
            /\ \A i \in 1..(Len(s) + Len(t)) :
                  (s \o t)[i] = IF i <= Len(s) THEN s[i] ELSE t[i - Len(s)]
        BY ConcatProperties
    <2> QED BY <2>1, <1>2, <1>3, <1>4, Zenon
<1>6. /\ Len(q) = Len(o) + 1
      /\ q[1] = [sha384 |-> Anchor]
      /\ \A i \in 1..Len(o) : q[i + 1] = Event(o[i])
    <2>1. Len(q) = Len(o) + 1 /\ q[1] = seed[1]
        BY <1>2, <1>3, <1>5
    <2>2. \A i \in 1..Len(o) : q[i + 1] = f[i]
        BY <1>2, <1>3, <1>5
    <2> QED BY <2>1, <2>2, <1>3 DEF f
<1>7. \A d \in Digests : d \in Held(q) <=> \E i \in 1..Len(o) : o[i] = d
    <2> TAKE d \in Digests
    <2>1. ASSUME d \in Held(q) PROVE \E i \in 1..Len(o) : o[i] = d
        <3>1. PICK i \in 1..Len(q) : q[i] = Event(d)
            BY <2>1 DEF Held
        <3>2. i # 1
            BY <3>1, <1>6, NamesDistinct DEF Event
        <3>3. i - 1 \in 1..Len(o) /\ i = (i - 1) + 1
            BY <3>1, <3>2, <1>2, <1>6
        <3>4. Event(o[i - 1]) = Event(d)
            BY <3>1, <3>3, <1>6
        <3> QED BY <3>3, <3>4 DEF Event
    <2>2. ASSUME NEW i \in 1..Len(o), o[i] = d PROVE d \in Held(q)
        <3>1. i + 1 \in 1..Len(q) /\ q[i + 1] = Event(d)
            BY <2>2, <1>2, <1>6
        <3> QED BY <3>1 DEF Held
    <2> QED BY <2>1, <2>2
<1>8. Held(q) \subseteq Digests /\ {o[i] : i \in 1..Len(o)} \subseteq Digests
    BY DEF Held
<1> QED BY <1>7, <1>8 DEF q

(* A digest new to the register, or an event of no image, keeps the images *)
(* in it distinct.                                                         *)
Distinct(r) ==
    \A i, j \in 1..Len(r) : (r[i] = r[j] /\ r[i].sha384 \in Digests) => i = j

LEMMA DistinctExtend ==
    ASSUME NEW r \in Seq(Events), NEW x \in Digests \cup {Anchor, Other},
           Distinct(r), x \notin Held(r)
    PROVE  Distinct(Extend(r, Event(x)))
<1> DEFINE q == Extend(r, Event(x))
<1>1. Event(x) \in Events /\ Event(x).sha384 = x
    BY DEF Event, Events
<1>2. Len(q) = Len(r) + 1 /\ Len(r) \in Nat
    BY <1>1 DEF Extend
<1>3. \A i \in 1..Len(r) : q[i] = r[i] /\ r[i] \in Events
    BY <1>1 DEF Extend
<1>4. q[Len(r) + 1] = Event(x)
    BY <1>1 DEF Extend
<1>5. \A i \in 1..Len(r) : x \in Digests => r[i] # Event(x)
    BY DEF Held
<1> HIDE DEF q
<1>6. ASSUME NEW i \in 1..Len(q), NEW j \in 1..Len(q),
             q[i] = q[j], q[i].sha384 \in Digests
      PROVE  i = j
    <2>1. CASE i \in 1..Len(r) /\ j \in 1..Len(r)
        BY <2>1, <1>3, <1>6 DEF Distinct
    <2>2. CASE i = Len(r) + 1 /\ j \in 1..Len(r)
        BY <2>2, <1>1, <1>3, <1>4, <1>5, <1>6
    <2>3. CASE j = Len(r) + 1 /\ i \in 1..Len(r)
        BY <2>3, <1>1, <1>3, <1>4, <1>5, <1>6
    <2>4. CASE i = Len(r) + 1 /\ j = Len(r) + 1
        BY <2>4
    <2> QED BY <1>2, <2>1, <2>2, <2>3, <2>4
<1> QED BY <1>6 DEF Distinct, q

-----------------------------------------------------------------------------
(* Appending to a sequence and dropping its last element keep it one. *)
LEMMA SequenceSteps ==
    ASSUME NEW S, NEW s \in Seq(S)
    PROVE  /\ \A x \in S : Append(s, x) \in Seq(S)
           /\ Len(s) > 0 => ButLast(s) \in Seq(S) /\ Len(ButLast(s)) = Len(s) - 1
           /\ Len(s) > 0 => \A i \in 1..(Len(s) - 1) : ButLast(s)[i] = s[i]
<1>1. Len(s) \in Nat /\ \A x \in S : Append(s, x) \in Seq(S)
    OBVIOUS
<1>2. ASSUME Len(s) > 0
      PROVE  /\ ButLast(s) \in Seq(S)
             /\ Len(ButLast(s)) = Len(s) - 1
             /\ \A i \in 1..(Len(s) - 1) : ButLast(s)[i] = s[i]
    <2>1. 1 \in Int /\ Len(s) - 1 \in Int /\ \A i \in 1..(Len(s) - 1) : s[i] \in S
        BY <1>1, <1>2
    <2>2. /\ ButLast(s) \in Seq(S)
          /\ Len(ButLast(s)) =
                IF 1 <= Len(s) - 1 THEN (Len(s) - 1) - 1 + 1 ELSE 0
          /\ \A i \in 1..((Len(s) - 1) - 1 + 1) : ButLast(s)[i] = s[1 + i - 1]
        BY <2>1, SubSeqProperties DEF ButLast
    <2>3. Len(ButLast(s)) = Len(s) - 1
        <3> DEFINE n == Len(s)
                   m == Len(ButLast(s))
        <3>1. n \in Nat /\ n > 0 /\ m = IF 1 <= n - 1 THEN (n - 1) - 1 + 1 ELSE 0
            BY <1>1, <1>2, <2>2
        <3> HIDE DEF n, m
        <3>2. m = n - 1
            BY <3>1
        <3> QED BY <3>2 DEF n, m
    <2>4. ASSUME NEW i \in 1..(Len(s) - 1) PROVE ButLast(s)[i] = s[i]
        <3>1. i \in 1..((Len(s) - 1) - 1 + 1) /\ 1 + i - 1 = i
            BY <1>1, <1>2, <2>4
        <3> QED BY <2>2, <3>1
    <2> QED BY <2>2, <2>3, <2>4
<1> QED BY <1>1, <1>2

(* Whatever the append left behind, the file is lines and a tail. *)
LEMMA FileOps ==
    ASSUME NEW f \in Files, NEW d \in Lines
    PROVE  AppendLine(f, d) \in Files /\ AppendFragment(f, d) \in Files
<1>1. Join(f.tail, d) \in Lines
    BY DEF Join, Lines
<1>2. f.lines \in Seq(Lines) /\ f.tail \in Lines \cup {None}
    BY DEF Files
<1>3. Append(f.lines, Join(f.tail, d)) \in Seq(Lines)
    BY <1>1, <1>2
<1>4. AppendLine(f, d) \in Files
    BY <1>3 DEF AppendLine, Files
<1>5. AppendFragment(f, d) \in Files
    BY <1>1 DEF AppendFragment, Files
<1> QED BY <1>4, <1>5

LEMMA InitTypeOK == Init => TypeOK
<1>1. seed \in Seq([sha384 : Digests \cup {Anchor, Other}])
    BY DEF seed, Seed, Extend, Zero
<1>2. EmptyFile \in Files
    BY DEF EmptyFile, Files
<1>3. << >> \in Seq(Digests) /\ {} \subseteq Digests /\ 0 \in 0..MaxFaults
    BY MaxFaultsAssumption
<1> QED BY <1>1, <1>2, <1>3 DEF Init, TypeOK

(* A canonical reference names a digest. *)
LEMMA CanonicalType ==
    ASSUME NEW ref \in Refs, CanonicalDigest(ref) # None
    PROVE  CanonicalDigest(ref) \in Digests
BY DEF CanonicalDigest, Refs

LEMMA FaultType ==
    ASSUME TypeOK, NEW k, Fault(k)
    PROVE  faults' \in 0..MaxFaults
BY MaxFaultsAssumption DEF TypeOK, Fault

LEMMA NextTypeOK == TypeOK /\ [Next]_vars => TypeOK'
<1> SUFFICES ASSUME TypeOK, [Next]_vars PROVE TypeOK'
    OBVIOUS
<1> USE DEF Events
<1>0. << >> \in Seq(Digests) /\ {} \subseteq Digests
    OBVIOUS
<1>1. CASE Open
    <2>1. PICK o \in Orders : /\ Load(o)
                              /\ \/ cur' = None /\ pc' = "idle"
                                 \/ /\ Len(o) > 0
                                    /\ cur' = o[Len(o)] /\ pc' = "repairing"
                              /\ diverged' \in BOOLEAN
        BY <1>1 DEF Open, OneBehind
    <2>2. o \in Seq(Digests) /\ DOMAIN o = 1..Len(o)
        BY OrdersType
    <2>3. order' \in Seq(Digests) /\ measured' \subseteq Digests
        BY <2>1, <2>2 DEF Load
    <2>4. /\ cur' \in Digests \cup {None}
          /\ cur' = None <=> pc' = "idle"
          /\ pc' \in {"idle", "repairing"}
        BY <2>1, <2>2, NoneIsNoDigest
    <2> QED BY <1>1, <2>1, <2>3, <2>4 DEF Open, TypeOK
<1>2. CASE OpenUnreadable
    <2>1. PICK o \in Orders : Load(o)
        BY <1>2 DEF OpenUnreadable
    <2>2. o \in Seq(Digests) /\ DOMAIN o = 1..Len(o)
        BY OrdersType
    <2>3. order' \in Seq(Digests) /\ measured' \subseteq Digests
        BY <2>1, <2>2 DEF Load
    <2>4. faults' \in 0..MaxFaults
        BY <1>2, FaultType DEF OpenUnreadable
    <2> QED BY <1>2, <2>3, <2>4 DEF OpenUnreadable, TypeOK
<1>3. CASE RepairExtend
    <2>1. reg' \in Seq(Events)
        BY <1>3, HeldExtend DEF RegisterExtend, RepairExtend, TypeOK
    <2> QED BY <1>3, <2>1 DEF RegisterExtend, RepairExtend, TypeOK, journal
<1>4. CASE RepairFails
    <2>1. faults' \in 0..MaxFaults
        BY <1>4, FaultType DEF RepairFails
    <2> QED BY <1>0, <1>4, <2>1 DEF RepairFails, TypeOK
<1>5. CASE Measure
    <2>1. PICK ref \in Refs : \/ MeasureKnown(ref) \/ Record(ref)
                              \/ RecordFails(ref) \/ RecordTorn(ref)
        BY <1>5 DEF Measure
    <2>2. CanonicalDigest(ref) \in Digests /\ CanonicalDigest(ref) \in Lines
        BY <2>1, CanonicalType
           DEF MeasureKnown, Record, RecordFails, RecordTorn, Admits, Lines
    <2>3. Torn \in Lines /\ file \in Files
        BY DEF Lines, TypeOK
    <2>4. CASE MeasureKnown(ref)
        BY <2>2, <2>4 DEF MeasureKnown, TypeOK, journal
    <2>5. CASE Record(ref)
        <3>1. file' \in Files
            BY <2>2, <2>3, <2>5, FileOps DEF Record
        <3>2. order' \in Seq(Digests)
            BY <2>2, <2>5 DEF Record, TypeOK
        <3> QED BY <2>2, <2>5, <3>1, <3>2, NoneIsNoDigest DEF Record, TypeOK
    <2>6. CASE RecordFails(ref)
        <3>1. file' \in Files
            BY <2>2, <2>3, <2>6, FileOps DEF RecordFails
        <3>2. faults' \in 0..MaxFaults
            BY <2>6, FaultType DEF RecordFails
        <3> QED BY <2>6, <3>1, <3>2 DEF RecordFails, TypeOK, journal
    <2>7. CASE RecordTorn(ref)
        <3>1. file' \in Files
            BY <2>2, <2>3, <2>7, FileOps DEF RecordTorn
        <3>2. faults' \in 0..MaxFaults
            BY <2>7, FaultType DEF RecordTorn
        <3> QED BY <1>0, <2>7, <3>1, <3>2 DEF RecordTorn, Admits, TypeOK
    <2> QED BY <2>1, <2>4, <2>5, <2>6, <2>7
<1>6. CASE MeasureExtend
    <2>1. reg' \in Seq(Events)
        BY <1>6, HeldExtend DEF RegisterExtend, MeasureExtend, TypeOK
    <2>2. cur \in Digests
        BY <1>6 DEF RegisterExtend, MeasureExtend, TypeOK
    <2> QED BY <1>6, <2>1, <2>2 DEF RegisterExtend, MeasureExtend, TypeOK
<1>7. CASE ExtendFails
    <2>1. order' \in Seq(Digests)
        BY <1>7, SequenceSteps DEF ExtendFails, TypeOK
    <2>2. faults' \in 0..MaxFaults
        BY <1>7, FaultType DEF ExtendFails
    <2> QED BY <1>7, <2>1, <2>2 DEF ExtendFails, TypeOK
<1>8. Rendered(order) \in Files
    BY DEF Rendered, Files, Lines, TypeOK
<1>9. CASE Rollback
    BY <1>8, <1>9 DEF Rollback, TypeOK, journal
<1>10. CASE RollbackFails
    <2>1. faults' \in 0..MaxFaults
        BY <1>10, FaultType DEF RollbackFails
    <2> QED BY <1>8, <1>10, <2>1 DEF RollbackFails, TypeOK, journal
<1>11. CASE Crash
    <2>1. faults' \in 0..MaxFaults
        BY <1>11, FaultType DEF Crash
    <2> QED BY <1>0, <1>11, <2>1 DEF Crash, TypeOK
<1>12. CASE ForeignExtend
    <2>1. faults' \in 0..MaxFaults
        BY <1>12, FaultType DEF RegisterExtend, ForeignExtend
    <2>2. reg' \in Seq(Events)
        BY <1>12, HeldExtend DEF RegisterExtend, ForeignExtend, TypeOK
    <2> QED BY <1>12, <2>1, <2>2 DEF RegisterExtend, ForeignExtend, TypeOK, journal
<1>13. CASE UNCHANGED vars
    BY <1>13 DEF vars, journal, TypeOK
<1> QED BY <1>1, <1>2, <1>3, <1>4, <1>5, <1>6, <1>7, <1>9, <1>10, <1>11,
           <1>12, <1>13 DEF Next

(* Every variable keeps its type, whatever fails and however often. *)
THEOREM TypeCorrect == Spec => []TypeOK
<1>1. Init => TypeOK
    BY InitTypeOK
<1>2. TypeOK /\ [Next]_vars => TypeOK'
    BY NextTypeOK
<1> QED BY <1>1, <1>2, PTL DEF Spec

-----------------------------------------------------------------------------
(* The set MeasureOnce consults is what the register really holds, for as  *)
(* long as the journal is not diverged: it is what AtMostOnce and          *)
(* AckedIsMeasured rest on, in every handler and between any two steps.    *)
MemoryMatchesRegister ==
    /\ (pc \in {"idle", "recorded", "rollback"} /\ ~diverged)
          => measured = Held(reg)
    /\ pc = "recorded" => ~diverged /\ cur \in Digests \ measured
    /\ pc = "repairing" => /\ ~diverged
                           /\ cur \in Digests \ Held(reg)
                           /\ measured = Held(reg) \cup {cur}

(* The exactly-once argument, for a register that can be read at every     *)
(* open.  MemoryMatchesRegister is what makes the other two inductive: a   *)
(* digest outside measured is not in the register, so extending it keeps   *)
(* the register's images distinct, and one inside it is.                   *)
ExactlyOnce ==
    /\ TypeOK
    /\ MemoryMatchesRegister
    /\ AtMostOnce
    /\ AckedIsMeasured

LEMMA InitExactlyOnce == Init => ExactlyOnce
<1> SUFFICES ASSUME Init PROVE ExactlyOnce
    OBVIOUS
<1>1. TypeOK
    BY InitTypeOK
<1>2. reg = << [sha384 |-> Anchor] >> /\ pc = "down" /\ acked = {}
    BY DEF Init, seed, Seed, Extend, Zero
<1>3. Len(reg) = 1
    BY <1>2
<1>4. AtMostOnce
    BY <1>3 DEF AtMostOnce
<1> QED BY <1>1, <1>2, <1>4 DEF ExactlyOnce, MemoryMatchesRegister, AckedIsMeasured

(* Dropping the last of a sequence without repetition drops that element. *)
LEMMA ButLastRange ==
    ASSUME NEW o \in Seq(Digests), Len(o) > 0,
           \A i, j \in 1..Len(o) : o[i] = o[j] => i = j
    PROVE  LET b == ButLast(o)
           IN  /\ b \in Seq(Digests)
               /\ o[Len(o)] \notin {b[i] : i \in 1..Len(b)}
               /\ {o[i] : i \in 1..Len(o)} =
                     {b[i] : i \in 1..Len(b)} \cup {o[Len(o)]}
<1> DEFINE b == ButLast(o)
<1>1. /\ b \in Seq(Digests) /\ Len(b) = Len(o) - 1 /\ Len(o) \in Nat
      /\ \A i \in 1..(Len(o) - 1) : b[i] = o[i]
    BY SequenceSteps
<1> HIDE DEF b
<1>2. o[Len(o)] \notin {b[i] : i \in 1..Len(b)}
    BY <1>1
<1>3. ASSUME NEW i \in 1..Len(o)
      PROVE  o[i] \in {b[k] : k \in 1..Len(b)} \cup {o[Len(o)]}
    <2>1. CASE i = Len(o)
        BY <2>1
    <2>2. CASE i # Len(o)
        BY <2>2, <1>1
    <2> QED BY <2>1, <2>2
<1>4. ASSUME NEW i \in 1..Len(b) PROVE b[i] \in {o[k] : k \in 1..Len(o)}
    BY <1>1
<1>5. o[Len(o)] \in {o[k] : k \in 1..Len(o)}
    BY <1>1
<1>6. {o[i] : i \in 1..Len(o)} = {b[i] : i \in 1..Len(b)} \cup {o[Len(o)]}
    <2> DEFINE O == {o[i] : i \in 1..Len(o)}
               B == {b[i] : i \in 1..Len(b)}
    <2>1. \A x \in O : x \in B \cup {o[Len(o)]}
        BY <1>3
    <2>2. \A x \in B : x \in O
        BY <1>4
    <2>3. o[Len(o)] \in O
        BY <1>5
    <2> HIDE DEF O, B
    <2>4. O = B \cup {o[Len(o)]}
        BY <2>1, <2>2, <2>3
    <2> QED BY <2>4 DEF O, B
<1> QED BY <1>1, <1>2, <1>6 DEF b

LEMMA OpenExactlyOnce ==
    ASSUME ExactlyOnce, TypeOK', Open
    PROVE  ExactlyOnce'
<1>1. PICK o \in Orders :
        /\ Load(o)
        /\ \/ Matches(o) /\ pc' = "idle" /\ diverged' = FALSE
           \/ OneBehind(o) /\ pc' = "repairing" /\ diverged' = FALSE
                           /\ cur' = o[Len(o)]
           \/ pc' = "idle" /\ diverged' = TRUE
    BY DEF Open
<1>2. /\ o \in Seq(Digests) /\ DOMAIN o = 1..Len(o)
      /\ \A i, j \in 1..Len(o) : o[i] = o[j] => i = j
    BY OrdersType
<1>3. measured' = {o[i] : i \in 1..Len(o)}
    BY <1>1, <1>2 DEF Load
<1>4. reg' = reg /\ acked' = acked
    BY DEF Open
<1>5. CASE Matches(o) /\ pc' = "idle" /\ diverged' = FALSE
    <2>1. Held(reg) = {o[i] : i \in 1..Len(o)}
        BY <1>2, <1>5, HeldFold DEF Matches, Extension
    <2> QED BY <1>3, <1>4, <1>5, <2>1
            DEF ExactlyOnce, MemoryMatchesRegister, AtMostOnce, AckedIsMeasured
<1>6. CASE OneBehind(o) /\ pc' = "repairing" /\ diverged' = FALSE /\ cur' = o[Len(o)]
    <2>1. Len(o) > 0 /\ reg = FromDigestsSeeded(seed, ButLast(o))
        BY <1>6 DEF OneBehind, Extension
    <2>2. /\ ButLast(o) \in Seq(Digests)
          /\ o[Len(o)] \notin {ButLast(o)[i] : i \in 1..Len(ButLast(o))}
          /\ measured' = {ButLast(o)[i] : i \in 1..Len(ButLast(o))} \cup {o[Len(o)]}
        BY <1>2, <1>3, <2>1, ButLastRange
    <2>3. Held(reg) = {ButLast(o)[i] : i \in 1..Len(ButLast(o))}
        BY <2>1, <2>2, HeldFold
    <2>4. o[Len(o)] \in Digests
        BY <1>2, <2>1
    <2> QED BY <1>4, <1>6, <2>2, <2>3, <2>4
            DEF ExactlyOnce, MemoryMatchesRegister, AtMostOnce, AckedIsMeasured
<1>7. CASE pc' = "idle" /\ diverged' = TRUE
    BY <1>4, <1>7 DEF ExactlyOnce, MemoryMatchesRegister, AtMostOnce, AckedIsMeasured
<1> QED BY <1>1, <1>5, <1>6, <1>7

(* One extend of a digest that the register does not hold. *)
LEMMA ExtendNew ==
    ASSUME TypeOK, AtMostOnce, NEW x \in Digests \cup {Other}, x \notin Held(reg),
           reg' = Extend(reg, Event(x))
    PROVE  AtMostOnce' /\ Held(reg') = Held(reg) \cup (Digests \cap {x})
<1>1. reg \in Seq(Events) /\ x \in Digests \cup {Anchor, Other}
    BY DEF TypeOK, Events
<1>2. Distinct(Extend(reg, Event(x)))
    BY <1>1, DistinctExtend DEF AtMostOnce, Distinct
<1>3. Held(Extend(reg, Event(x))) = Held(reg) \cup (Digests \cap {x})
    BY <1>1, HeldExtend
<1> QED BY <1>2, <1>3 DEF AtMostOnce, Distinct

LEMMA NextExactlyOnce ==
    ASSUME "unreadable" \notin Faults
    PROVE  ExactlyOnce /\ [Next]_vars => ExactlyOnce'
<1> SUFFICES ASSUME ExactlyOnce, [Next]_vars PROVE ExactlyOnce'
    OBVIOUS
<1>0. TypeOK /\ TypeOK'
    BY NextTypeOK DEF ExactlyOnce
<1> USE DEF ExactlyOnce, MemoryMatchesRegister, AckedIsMeasured
<1>1. CASE Open
    BY <1>0, <1>1, OpenExactlyOnce
<1>2. CASE OpenUnreadable
    BY <1>2 DEF OpenUnreadable, Fault
<1>3. CASE RepairExtend
    <2>1. AtMostOnce' /\ Held(reg') = Held(reg) \cup {cur}
        BY <1>0, <1>3, ExtendNew DEF RegisterExtend, RepairExtend
    <2> QED BY <1>0, <1>3, <2>1 DEF RegisterExtend, RepairExtend, journal
<1>4. CASE RepairFails
    BY <1>0, <1>4 DEF RepairFails, AtMostOnce
<1>5. CASE Measure
    <2>1. PICK ref \in Refs : \/ MeasureKnown(ref) \/ Record(ref)
                              \/ RecordFails(ref) \/ RecordTorn(ref)
        BY <1>5 DEF Measure
    <2>2. /\ CanonicalDigest(ref) \in Digests /\ pc = "idle" /\ ~diverged
          /\ reg' = reg
        BY <2>1, CanonicalType
           DEF MeasureKnown, Record, RecordFails, RecordTorn, Admits
    <2>3. CASE MeasureKnown(ref)
        BY <1>0, <2>2, <2>3 DEF MeasureKnown, journal, AtMostOnce
    <2>4. CASE Record(ref)
        BY <1>0, <2>2, <2>4 DEF Record, AtMostOnce
    <2>5. CASE RecordFails(ref)
        BY <1>0, <2>2, <2>5 DEF RecordFails, journal, AtMostOnce
    <2>6. CASE RecordTorn(ref)
        BY <1>0, <2>2, <2>6 DEF RecordTorn, AtMostOnce
    <2> QED BY <2>1, <2>3, <2>4, <2>5, <2>6
<1>6. CASE MeasureExtend
    <2>1. cur \in Digests /\ cur \notin Held(reg)
        BY <1>6 DEF RegisterExtend, MeasureExtend
    <2>2. AtMostOnce' /\ Held(reg') = Held(reg) \cup {cur}
        BY <1>0, <1>6, <2>1, ExtendNew DEF RegisterExtend, MeasureExtend
    <2> QED BY <1>0, <1>6, <2>2 DEF RegisterExtend, MeasureExtend
<1>7. CASE ExtendFails
    BY <1>0, <1>7 DEF ExtendFails, AtMostOnce
<1>8. CASE Rollback
    BY <1>0, <1>8 DEF Rollback, journal, AtMostOnce
<1>9. CASE RollbackFails
    BY <1>0, <1>9 DEF RollbackFails, journal, AtMostOnce
<1>10. CASE Crash
    BY <1>0, <1>10 DEF Crash, AtMostOnce
<1>11. CASE ForeignExtend
    <2>1. Other \notin Digests /\ Other \notin Held(reg)
        BY NamesDistinct DEF Held
    <2>2. AtMostOnce' /\ Held(reg') = Held(reg)
        BY <1>0, <1>11, <2>1, ExtendNew DEF RegisterExtend, ForeignExtend
    <2> QED BY <1>0, <1>11, <2>2 DEF RegisterExtend, ForeignExtend, journal
<1>12. CASE UNCHANGED vars
    BY <1>0, <1>12 DEF vars, journal, AtMostOnce
<1> QED BY <1>1, <1>2, <1>3, <1>4, <1>5, <1>6, <1>7, <1>8, <1>9, <1>10,
           <1>11, <1>12 DEF Next

(* Under every failure but an unreadable register, no image is extended    *)
(* twice and none is reported that was not extended.                       *)
THEOREM MeasuredExactlyOnce ==
    ASSUME "unreadable" \notin Faults
    PROVE  Spec => [](AtMostOnce /\ AckedIsMeasured)
<1>1. Init => ExactlyOnce
    BY InitExactlyOnce
<1>2. ExactlyOnce /\ [Next]_vars => ExactlyOnce'
    BY NextExactlyOnce
<1>3. ExactlyOnce => AtMostOnce /\ AckedIsMeasured
    BY DEF ExactlyOnce
<1> QED BY <1>1, <1>2, <1>3, PTL DEF Spec

-----------------------------------------------------------------------------
(* A register that cannot be read at some opens.  What the journal then    *)
(* holds may run ahead of the register; it never runs behind, as long as   *)
(* no append is cut short: a line that a fragment spoils is read back by   *)
(* no open, and what it recorded would be extended again.                  *)
Named(s) == {s[i] : i \in 1..Len(s)}

Unspoilt(f) == f.tail = None /\ f.lines \in Seq(Digests)

NeverBehind ==
    /\ TypeOK
    /\ AtMostOnce
    /\ Unspoilt(file)
    /\ Held(reg) \subseteq Recorded(file)
    /\ pc # "down" => Held(reg) \subseteq measured /\ Held(reg) \subseteq Named(order)
    /\ pc = "recorded" => /\ cur \notin measured /\ cur \in Recorded(file)
                          /\ Len(order) > 0 /\ order[Len(order)] = cur
    /\ pc = "repairing" => /\ cur \notin Held(reg) /\ cur \in Recorded(file)
                           /\ cur \in measured /\ cur \in Named(order)

(* One digest more. *)
LEMMA NamedAppend ==
    ASSUME NEW o \in Seq(Digests), NEW d \in Digests
    PROVE  Named(Append(o, d)) = Named(o) \cup {d}
<1> DEFINE q == Append(o, d)
<1>1. /\ Len(q) = Len(o) + 1 /\ Len(o) \in Nat /\ q[Len(o) + 1] = d
      /\ \A i \in 1..Len(o) : q[i] = o[i]
    OBVIOUS
<1> HIDE DEF q
<1>2. ASSUME NEW x \in Named(q) PROVE x \in Named(o) \cup {d}
    <2>1. PICK i \in 1..Len(q) : x = q[i]
        BY DEF Named
    <2>2. CASE i = Len(o) + 1
        BY <1>1, <2>1, <2>2
    <2>3. CASE i \in 1..Len(o)
        BY <1>1, <2>1, <2>3 DEF Named
    <2> QED BY <1>1, <2>2, <2>3
<1>3. ASSUME NEW x \in Named(o) \cup {d} PROVE x \in Named(q)
    BY <1>1 DEF Named
<1> QED BY <1>2, <1>3 DEF q

(* A whole line more, and the list as it is written anew. *)
LEMMA UnspoiltFile ==
    /\ \A f : Unspoilt(f) => Recorded(f) = Named(f.lines)
    /\ \A f, d : Unspoilt(f) /\ d \in Digests =>
          /\ Unspoilt(AppendLine(f, d))
          /\ Recorded(AppendLine(f, d)) = Recorded(f) \cup {d}
    /\ \A o \in Seq(Digests) : Unspoilt(Rendered(o)) /\ Recorded(Rendered(o)) = Named(o)
<1>1. ASSUME NEW f, Unspoilt(f) PROVE Recorded(f) = Named(f.lines)
    <2>1. Split(f) = f.lines /\ \A i \in 1..Len(f.lines) : f.lines[i] \in Digests
        BY <1>1 DEF Unspoilt, Split
    <2> QED BY <2>1 DEF Recorded, Named
<1>2. ASSUME NEW f, NEW d \in Digests, Unspoilt(f)
      PROVE  /\ Unspoilt(AppendLine(f, d))
             /\ Recorded(AppendLine(f, d)) = Recorded(f) \cup {d}
    <2> DEFINE g == AppendLine(f, d)
    <2>1. g.tail = None /\ g.lines = Append(f.lines, d) /\ f.lines \in Seq(Digests)
        BY <1>2 DEF AppendLine, Unspoilt, Join
    <2> HIDE DEF g
    <2>2. Unspoilt(g)
        BY <2>1 DEF Unspoilt
    <2>3. Named(g.lines) = Named(f.lines) \cup {d}
        BY <2>1, NamedAppend
    <2>4. Recorded(g) = Named(g.lines) /\ Recorded(f) = Named(f.lines)
        BY <1>1, <1>2, <2>2
    <2> QED BY <2>2, <2>3, <2>4 DEF g
<1>3. ASSUME NEW o \in Seq(Digests)
      PROVE  Unspoilt(Rendered(o)) /\ Recorded(Rendered(o)) = Named(o)
    <2>1. Rendered(o).tail = None /\ Rendered(o).lines = o
        BY DEF Rendered
    <2>2. Unspoilt(Rendered(o))
        BY <2>1 DEF Unspoilt
    <2> QED BY <1>1, <2>1, <2>2
<1> QED BY <1>1, <1>2, <1>3

(* What the register holds, the journal knows: any open reads it back from *)
(* the file, and the file is never written without it.                     *)
LEMMA NextNeverBehind ==
    ASSUME "torn" \notin Faults, "record" \notin Faults
    PROVE  NeverBehind /\ [Next]_vars => NeverBehind'
<1> SUFFICES ASSUME NeverBehind, [Next]_vars PROVE NeverBehind'
    OBVIOUS
<1>0. TypeOK /\ TypeOK'
    BY NextTypeOK DEF NeverBehind
<1>1. ASSUME NEW o \in Orders, Load(o), reg' = reg, file' = file
      PROVE  /\ measured' = Recorded(file) /\ Named(order') = Recorded(file)
             /\ order' = o /\ o \in Seq(Digests)
             /\ \A i, j \in 1..Len(o) : o[i] = o[j] => i = j
    <2>1. o \in Seq(Digests) /\ DOMAIN o = 1..Len(o)
          /\ \A i, j \in 1..Len(o) : o[i] = o[j] => i = j
        BY OrdersType
    <2> QED BY <1>1, <2>1 DEF Load, parseJournal, Named
<1>2. CASE Open
    <2>1. PICK o \in Orders :
            /\ Load(o)
            /\ \/ pc' = "idle"
               \/ OneBehind(o) /\ pc' = "repairing" /\ cur' = o[Len(o)]
        BY <1>2 DEF Open
    <2>2. reg' = reg /\ file' = file
        BY <1>2 DEF Open
    <2>3. /\ measured' = Recorded(file) /\ Named(order') = Recorded(file) /\ order' = o
          /\ o \in Seq(Digests) /\ \A i, j \in 1..Len(o) : o[i] = o[j] => i = j
        BY <1>1, <2>1, <2>2
    <2>4. CASE pc' = "idle"
        BY <1>0, <2>2, <2>3, <2>4 DEF NeverBehind, AtMostOnce
    <2>5. CASE OneBehind(o) /\ pc' = "repairing" /\ cur' = o[Len(o)]
        <3>1. Len(o) > 0 /\ reg = FromDigestsSeeded(seed, ButLast(o))
            BY <2>5 DEF OneBehind, Extension
        <3>2. /\ ButLast(o) \in Seq(Digests)
              /\ o[Len(o)] \notin {ButLast(o)[i] : i \in 1..Len(ButLast(o))}
            BY <2>3, <3>1, ButLastRange
        <3>3. cur' \notin Held(reg)
            BY <2>5, <3>1, <3>2, HeldFold
        <3>4. cur' \in Named(o)
            BY <2>3, <2>5, <3>1 DEF Named
        <3> QED BY <1>0, <2>2, <2>3, <2>5, <3>3, <3>4 DEF NeverBehind, AtMostOnce
    <2> QED BY <2>1, <2>4, <2>5
<1>3. CASE OpenUnreadable
    <2>1. PICK o \in Orders : Load(o)
        BY <1>3 DEF OpenUnreadable
    <2>2. reg' = reg /\ file' = file /\ pc' = "idle"
        BY <1>3 DEF OpenUnreadable
    <2>3. measured' = Recorded(file) /\ Named(order') = Recorded(file)
        BY <1>1, <2>1, <2>2
    <2> QED BY <1>0, <2>2, <2>3 DEF NeverBehind, AtMostOnce
<1>4. CASE RepairExtend
    <2>1. cur \in Digests /\ cur \notin Held(reg)
        BY <1>0, <1>4 DEF RepairExtend, NeverBehind, TypeOK
    <2>2. AtMostOnce' /\ Held(reg') = Held(reg) \cup {cur}
        BY <1>0, <1>4, <2>1, ExtendNew DEF RegisterExtend, RepairExtend, NeverBehind
    <2>3. file' = file /\ measured' = measured /\ order' = order /\ pc' = "idle"
        BY <1>4 DEF RepairExtend, journal
    <2> QED BY <1>0, <1>4, <2>2, <2>3 DEF RepairExtend, NeverBehind
<1>5. CASE RepairFails
    BY <1>0, <1>5 DEF RepairFails, NeverBehind, AtMostOnce
<1>6. CASE Measure
    <2>1. PICK ref \in Refs : MeasureKnown(ref) \/ Record(ref)
        BY <1>6 DEF Measure, RecordFails, RecordTorn, Fault
    <2>2. CanonicalDigest(ref) \in Digests /\ pc = "idle" /\ reg' = reg
        BY <2>1, CanonicalType DEF MeasureKnown, Record, Admits
    <2>3. CASE MeasureKnown(ref)
        BY <1>0, <2>2, <2>3 DEF MeasureKnown, journal, NeverBehind, AtMostOnce
    <2>4. CASE Record(ref)
        <3> DEFINE d == CanonicalDigest(ref)
        <3>1. /\ file' = AppendLine(file, d) /\ order' = Append(order, d) /\ cur' = d
              /\ measured' = measured /\ d \notin measured /\ pc' = "recorded"
            BY <2>4 DEF Record
        <3> HIDE DEF d
        <3>2. d \in Digests /\ order \in Seq(Digests)
            BY <1>0, <2>2 DEF TypeOK, d
        <3>3. Unspoilt(file') /\ Recorded(file') = Recorded(file) \cup {d}
            BY <3>1, <3>2, UnspoiltFile DEF NeverBehind
        <3>4. /\ Named(order') = Named(order) \cup {d}
              /\ Len(order') > 0 /\ order'[Len(order')] = d
            <4>1. Named(order') = Named(order) \cup {d}
                BY <3>1, <3>2, NamedAppend
            <4> QED BY <3>1, <3>2, <4>1
        <3>5. AtMostOnce'
            BY <2>2 DEF NeverBehind, AtMostOnce
        <3> QED BY <1>0, <2>2, <3>1, <3>3, <3>4, <3>5 DEF NeverBehind
    <2> QED BY <2>1, <2>3, <2>4
<1>7. CASE MeasureExtend
    <2>1. /\ cur \in Digests /\ cur \notin Held(reg) /\ cur \in Recorded(file)
          /\ order \in Seq(Digests) /\ Len(order) > 0 /\ order[Len(order)] = cur
        BY <1>0, <1>7 DEF MeasureExtend, NeverBehind, TypeOK
    <2>2. AtMostOnce' /\ Held(reg') = Held(reg) \cup {cur}
        BY <1>0, <1>7, <2>1, ExtendNew DEF RegisterExtend, MeasureExtend, NeverBehind
    <2>3. file' = file /\ measured' = measured \cup {cur} /\ order' = order /\ pc' = "idle"
        BY <1>7 DEF MeasureExtend
    <2>4. cur \in Named(order)
        BY <2>1 DEF Named
    <2> QED BY <1>0, <1>7, <2>1, <2>2, <2>3, <2>4 DEF MeasureExtend, NeverBehind
<1>8. CASE ExtendFails
    <2>1. /\ reg' = reg /\ file' = file /\ measured' = measured /\ pc' = "rollback"
          /\ pc = "recorded"
        BY <1>8 DEF ExtendFails
    <2>2. /\ order \in Seq(Digests) /\ Len(order) > 0 /\ order[Len(order)] = cur
          /\ cur \notin Held(reg) /\ Held(reg) \subseteq Named(order)
        BY <1>0, <2>1 DEF NeverBehind, TypeOK
    <2>3. order' = ButLast(order)
        BY <1>8, <2>2 DEF ExtendFails
    <2>4. ASSUME NEW d \in Held(reg) PROVE d \in Named(order')
        <3>1. PICK i \in 1..Len(order) : order[i] = d
            BY <2>2 DEF Named
        <3>2. i \in 1..(Len(order) - 1) /\ Len(order) \in Nat
            BY <2>2, <3>1
        <3>3. Len(order') = Len(order) - 1 /\ order'[i] = order[i]
            BY <2>2, <2>3, <3>2, SequenceSteps
        <3> QED BY <3>1, <3>2, <3>3 DEF Named
    <2> QED BY <1>0, <2>1, <2>4 DEF NeverBehind, AtMostOnce
<1>9. ASSUME pc = "rollback", file' \in {file, Rendered(order)}, pc' = "idle",
             UNCHANGED <<reg, journal>>
      PROVE  NeverBehind'
    <2>1. order \in Seq(Digests)
        BY <1>0 DEF TypeOK
    <2>2. Unspoilt(file') /\ Held(reg) \subseteq Recorded(file')
        BY <1>9, <2>1, UnspoiltFile DEF NeverBehind
    <2> QED BY <1>0, <1>9, <2>2 DEF NeverBehind, AtMostOnce, journal
<1>10. CASE Rollback
    BY <1>9, <1>10 DEF Rollback
<1>11. CASE RollbackFails
    BY <1>9, <1>11 DEF RollbackFails
<1>12. CASE Crash
    BY <1>0, <1>12 DEF Crash, NeverBehind, AtMostOnce
<1>13. CASE ForeignExtend
    <2>1. Other \notin Digests /\ Other \notin Held(reg)
        BY NamesDistinct DEF Held
    <2>2. AtMostOnce' /\ Held(reg') = Held(reg)
        BY <1>0, <1>13, <2>1, ExtendNew DEF RegisterExtend, ForeignExtend, NeverBehind
    <2> QED BY <1>0, <1>13, <2>2 DEF ForeignExtend, journal, NeverBehind
<1>14. CASE UNCHANGED vars
    BY <1>0, <1>14 DEF vars, journal, NeverBehind, AtMostOnce
<1> QED BY <1>2, <1>3, <1>4, <1>5, <1>6, <1>7, <1>8, <1>10, <1>11, <1>12, <1>13, <1>14 DEF Next

(* However often the register cannot be read at open, no image is extended *)
(* twice by a journal none of whose appends failed or was cut short        *)
(* (OpenJournalSeeded, record, unrecordLast).                              *)
THEOREM UnreadNeverTwice ==
    ASSUME "torn" \notin Faults, "record" \notin Faults
    PROVE  Spec => []AtMostOnce
<1>1. Init => NeverBehind
    <2> SUFFICES ASSUME Init PROVE NeverBehind
        OBVIOUS
    <2>1. TypeOK /\ AtMostOnce
        BY InitExactlyOnce DEF ExactlyOnce
    <2>2. Unspoilt(file)
        BY DEF Init, EmptyFile, Unspoilt
    <2>3. Held(reg) = {}
        <3>1. reg = << [sha384 |-> Anchor] >>
            BY DEF Init, seed, Seed, Extend, Zero
        <3>2. \A d \in Digests : [sha384 |-> Anchor] # Event(d)
            BY NamesDistinct DEF Event
        <3> QED BY <3>1, <3>2 DEF Held
    <2> QED BY <2>1, <2>2, <2>3 DEF NeverBehind, Init
<1>2. NeverBehind /\ [Next]_vars => NeverBehind'
    BY NextNeverBehind
<1>3. NeverBehind => AtMostOnce
    BY DEF NeverBehind
<1> QED BY <1>1, <1>2, <1>3, PTL DEF Spec

-----------------------------------------------------------------------------
(* Refinement.  The launch binding stays at the bottom of the register, so *)
(* what lies above it is the log.                                          *)
Seeded == Len(reg) > 0 /\ reg[1] = [sha384 |-> Anchor]

LEMMA InitSeeded == Init => Seeded
BY DEF Init, Seeded, seed, Seed, Extend, Zero

LEMMA SeededExtend ==
    ASSUME TypeOK, Seeded, NEW x \in Digests \cup {Anchor, Other},
           reg' = Extend(reg, Event(x))
    PROVE  Seeded' /\ Measurements' = Append(Measurements, x)
<1>1. reg \in Seq(Events) /\ Event(x) \in Events /\ Event(x).sha384 = x
    BY DEF TypeOK, Events, Event
<1>2. /\ Len(reg) \in Nat /\ Len(reg) > 0
      /\ Len(reg') = Len(reg) + 1
      /\ reg'[Len(reg) + 1] = Event(x)
      /\ \A i \in 1..Len(reg) : reg'[i] = reg[i]
    BY <1>1 DEF Extend, Seeded
<1>3. Seeded'
    BY <1>2 DEF Seeded
<1> DEFINE n == Len(reg) - 1
           m == Measurements
<1>4. n \in Nat /\ Len(reg') - 1 = n + 1
    BY <1>2
<1>5. m = [i \in 1..n |-> reg[i + 1].sha384]
    BY DEF Measurements
<1>6. m \in Seq(Digests \cup {Anchor, Other})
    <2>1. \A i \in 1..n : reg[i + 1] \in Events
        BY <1>1, <1>2
    <2>2. \A i \in 1..n : reg[i + 1].sha384 \in Digests \cup {Anchor, Other}
        BY <2>1 DEF Events
    <2> HIDE DEF m, n
    <2> QED BY <1>4, <1>5, <2>2
<1>7. Len(m) = n
    BY <1>4, <1>5
<1>8. Measurements' = [i \in 1..(n + 1) |-> reg'[i + 1].sha384]
    BY <1>4 DEF Measurements
<1> HIDE DEF m
<1>9. Append(m, x) = [i \in 1..(n + 1) |-> IF i = n + 1 THEN x ELSE m[i]]
    <2> DEFINE q == Append(m, x)
    <2>1. /\ q \in Seq(Digests \cup {Anchor, Other}) /\ Len(q) = Len(m) + 1
          /\ \A i \in 1..Len(m) : q[i] = m[i]
          /\ q[Len(m) + 1] = x
        BY <1>6, AppendProperties
    <2> HIDE DEF q, n
    <2>2. q = [i \in 1..(n + 1) |-> q[i]]
        BY <1>7, <2>1
    <2>3. \A i \in 1..(n + 1) : q[i] = IF i = n + 1 THEN x ELSE m[i]
        BY <1>4, <1>7, <2>1
    <2>4. q = [i \in 1..(n + 1) |-> IF i = n + 1 THEN x ELSE m[i]]
        BY <2>2, <2>3
    <2> QED BY <2>4 DEF q
<1>10. ASSUME NEW i \in 1..(n + 1)
       PROVE  reg'[i + 1].sha384 = IF i = n + 1 THEN x ELSE m[i]
    <2>1. CASE i = n + 1
        BY <1>1, <1>2, <2>1
    <2>2. CASE i # n + 1
        <3>1. i \in 1..n /\ i + 1 \in 1..Len(reg)
            BY <1>4, <2>2
        <3> QED BY <1>2, <1>5, <2>2, <3>1
    <2> QED BY <2>1, <2>2
<1>11. Measurements' = Append(m, x)
    BY <1>8, <1>9, <1>10
<1> QED BY <1>3, <1>11 DEF m

LEMMA InLogIsHeld ==
    ASSUME TypeOK, Seeded, NEW d \in Digests
    PROVE  Log!InLog(d) <=> d \in Held(reg)
<1>1. reg \in Seq(Events) /\ Len(reg) \in Nat
    BY DEF TypeOK, Events
<1>2. /\ Len(Measurements) = Len(reg) - 1
      /\ \A i \in 1..(Len(reg) - 1) : Measurements[i] = reg[i + 1].sha384
    BY <1>1 DEF Measurements, Seeded
<1>3. \A i \in 1..Len(reg) : reg[i] = Event(d) <=> reg[i].sha384 = d
    <2>1. \A e \in Events : e = [sha384 |-> e.sha384]
        BY DEF Events
    <2>2. \A i \in 1..Len(reg) : reg[i] \in Events
        BY <1>1
    <2>3. \A e \in Events : e = [sha384 |-> d] <=> e.sha384 = d
        BY <2>1
    <2> QED BY <2>2, <2>3 DEF Event
<1>4. reg[1] # Event(d)
    BY NamesDistinct DEF Seeded, Event
<1>5. ASSUME Log!InLog(d) PROVE d \in Held(reg)
    <2>1. PICK i \in 1..(Len(reg) - 1) : Measurements[i] = d
        BY <1>2, <1>5 DEF Log!InLog
    <2>2. i + 1 \in 1..Len(reg) /\ reg[i + 1].sha384 = d
        BY <1>1, <1>2, <2>1
    <2> QED BY <1>3, <2>2 DEF Held
<1>6. ASSUME d \in Held(reg) PROVE Log!InLog(d)
    <2>1. PICK i \in 1..Len(reg) : reg[i] = Event(d)
        BY <1>6 DEF Held
    <2>2. i - 1 \in 1..(Len(reg) - 1) /\ (i - 1) + 1 = i
        BY <1>1, <1>4, <2>1
    <2>3. Measurements[i - 1] = d
        BY <1>2, <1>3, <2>1, <2>2
    <2> QED BY <1>2, <2>2, <2>3 DEF Log!InLog
<1> QED BY <1>5, <1>6

(* Every step of the journal is a step of the log or a stutter. *)
LEMMA StepSimulation ==
    ASSUME ExactlyOnce, Seeded, [Next]_vars, "unreadable" \notin Faults
    PROVE  Seeded' /\ [Log!Next]_<<Measurements, acked>>
<1>0. TypeOK
    BY DEF ExactlyOnce
<1>1. CASE RepairExtend \/ MeasureExtend
    <2>1. /\ cur \in Digests \ Held(reg) /\ reg' = Extend(reg, Event(cur))
          /\ acked' \in {acked, acked \cup {cur}}
        BY <1>1 DEF RegisterExtend, RepairExtend, MeasureExtend, ExactlyOnce,
                    MemoryMatchesRegister
    <2>2. Seeded' /\ Measurements' = Append(Measurements, cur)
        BY <1>0, <2>1, SeededExtend
    <2>3. ~Log!InLog(cur)
        BY <1>0, <2>1, InLogIsHeld
    <2>4. Log!Measure(cur)
        BY <2>1, <2>2, <2>3 DEF Log!Measure
    <2> QED BY <2>1, <2>2, <2>4 DEF Log!Next
<1>2. CASE ForeignExtend
    <2>1. reg' = Extend(reg, Event(Other)) /\ acked' = acked
        BY <1>2 DEF RegisterExtend, ForeignExtend
    <2>2. Seeded' /\ Measurements' = Append(Measurements, Other)
        BY <1>0, <2>1, SeededExtend
    <2> QED BY <2>1, <2>2 DEF Log!Next, Log!Foreign
<1>3. CASE \E ref \in Refs : MeasureKnown(ref)
    <2>1. PICK ref \in Refs : MeasureKnown(ref)
        BY <1>3
    <2> DEFINE d == CanonicalDigest(ref)
    <2>2. /\ d \in Digests /\ d \in Held(reg)
          /\ reg' = reg /\ acked' = acked \cup {d}
        BY <2>1, CanonicalType
           DEF MeasureKnown, Admits, ExactlyOnce, MemoryMatchesRegister
    <2>3. Seeded' /\ Measurements' = Measurements
        BY <2>2 DEF Seeded, Measurements
    <2> HIDE DEF d
    <2>4. Log!Report(d)
        BY <1>0, <2>2, <2>3, InLogIsHeld DEF Log!Report
    <2> QED BY <2>2, <2>3, <2>4 DEF Log!Next
<1>4. CASE reg' = reg /\ acked' = acked
    BY <1>4 DEF Seeded, Measurements
<1>5. \/ RepairExtend \/ MeasureExtend \/ ForeignExtend
      \/ \E ref \in Refs : MeasureKnown(ref)
      \/ reg' = reg /\ acked' = acked
    BY DEF Next, Open, OpenUnreadable, RepairFails, Measure, Record,
           RecordFails, RecordTorn, ExtendFails, Rollback, RollbackFails,
           Crash, vars
<1> QED BY <1>1, <1>2, <1>3, <1>4, <1>5

LEMMA InitSimulation == Init => Log!Init
BY DEF Init, Log!Init, Measurements, seed, Seed, Extend, Zero

(* The journal implements the exactly-once log under every failure but an  *)
(* unreadable register.                                                    *)
THEOREM JournalImplementsLog ==
    ASSUME "unreadable" \notin Faults
    PROVE  Spec => ImplementsLog
<1>1. Init => ExactlyOnce /\ Seeded /\ Log!Init
    BY InitExactlyOnce, InitSeeded, InitSimulation
<1>2. ExactlyOnce /\ [Next]_vars => ExactlyOnce'
    BY NextExactlyOnce
<1>3. ExactlyOnce /\ Seeded /\ [Next]_vars
        => Seeded' /\ [Log!Next]_<<Measurements, acked>>
    BY StepSimulation
<1> QED BY <1>1, <1>2, <1>3, PTL DEF Spec, ImplementsLog, Log!Spec


-----------------------------------------------------------------------------
(* A file as record and writeAtomic leave it. *)
NoRepeat(s) == \A i, j \in 1..Len(s) : s[i] = s[j] => i = j
Clean(f) == f.tail = None /\ f.lines \in Seq(Digests) /\ NoRepeat(f.lines)

(* What such a file records, and where. *)
LEMMA CleanFile ==
    ASSUME NEW f, Clean(f)
    PROVE  /\ Split(f) = f.lines
           /\ Recorded(f) = Named(f.lines)
           /\ \A i \in 1..Len(f.lines) : FirstLine(f, f.lines[i]) = i
<1>1. Split(f) = f.lines /\ f.lines \in Seq(Digests) /\ NoRepeat(f.lines)
    BY DEF Clean, Split
<1>2. \A i \in 1..Len(f.lines) : f.lines[i] \in Digests
    BY <1>1
<1>3. Recorded(f) = Named(f.lines)
    BY <1>1, <1>2 DEF Recorded, Named
<1>4. ASSUME NEW i \in 1..Len(f.lines) PROVE FirstLine(f, f.lines[i]) = i
    <2> DEFINE P(k) == /\ Split(f)[k] = f.lines[i]
                       /\ \A j \in 1..(k - 1) : Split(f)[j] # f.lines[i]
    <2>1. Len(f.lines) \in Nat /\ P(i)
        BY <1>1 DEF NoRepeat
    <2>2. \A k \in 1..Len(f.lines) : P(k) => k = i
        BY <1>1 DEF NoRepeat
    <2>3. FirstLine(f, f.lines[i]) = CHOOSE k \in 1..Len(f.lines) : P(k)
        BY <1>1 DEF FirstLine
    <2> HIDE DEF P
    <2> QED BY <2>1, <2>2, <2>3
<1> QED BY <1>1, <1>3, <1>4

(* parseJournal gives back the lines of such a file, and nothing else. *)
LEMMA ParsedIsLines ==
    ASSUME NEW f, Clean(f), NEW o \in Orders, parseJournal(f, o)
    PROVE  o = f.lines
<1> DEFINE l == f.lines
           n == Len(o)
           m == Len(l)
           g == [i \in 1..n |-> FirstLine(f, o[i])]
<1>1. /\ o \in Seq(Digests) /\ DOMAIN o = 1..n /\ n \in Nat
      /\ l \in Seq(Digests) /\ m \in Nat
    BY OrdersType DEF Clean
<1>2. Named(o) = Named(l)
    BY <1>1, CleanFile DEF parseJournal, Named
<1>3. \A i \in 1..m : FirstLine(f, l[i]) = i
    BY CleanFile
<1>4. \A i \in 1..n : g[i] \in 1..m /\ l[g[i]] = o[i]
    <2> TAKE i \in 1..n
    <2>1. o[i] \in Named(l)
        BY <1>2 DEF Named
    <2>2. PICK k \in 1..m : l[k] = o[i]
        BY <2>1 DEF Named
    <2> QED BY <1>3, <2>2
<1>5. \A i, j \in 1..n : i < j => g[i] < g[j]
    BY <1>1 DEF parseJournal
<1>6. \A k \in 1..m : \E i \in 1..n : g[i] = k
    <2> TAKE k \in 1..m
    <2>1. l[k] \in Named(o)
        BY <1>2 DEF Named
    <2>2. PICK i \in 1..n : o[i] = l[k]
        BY <2>1 DEF Named
    <2> QED BY <1>3, <2>2
<1>7. g \in [1..n -> 1..m]
    BY <1>4
<1> HIDE DEF g, n, m, l
<1>8. n = m /\ \A i \in 1..n : g[i] = i
    <2>1. n \in Nat /\ m \in Nat
        BY <1>1
    <2>2. IncreasesOnto(g, n, m)
        BY <1>5, <1>6, <1>7, <2>1 DEF IncreasesOnto
    <2> QED BY <2>2, IncreasingOnto
<1>9. \A i \in 1..n : o[i] = l[i]
    BY <1>4, <1>8
<1>10. Len(o) = Len(l) /\ \A i \in 1..Len(o) : o[i] = l[i]
    BY <1>8, <1>9 DEF n, m
<1>11. o = l
    BY <1>1, <1>10
<1> QED BY <1>11 DEF l

(* And it can be parsed. *)
LEMMA LinesParse ==
    ASSUME NEW f, Clean(f)
    PROVE  f.lines \in Orders /\ parseJournal(f, f.lines)
<1> DEFINE l == f.lines
           m == Len(l)
<1>1. l \in Seq(Digests) /\ m \in Nat /\ NoRepeat(l) /\ DOMAIN l = 1..m /\ l \in [1..m -> Digests]
    BY DEF Clean
<1>2. m <= Cardinality(Digests)
    <2>1. l \in Injection(1..m, Digests)
        BY <1>1 DEF Injection, IsInjective, NoRepeat
    <2>2. Cardinality(1..m) <= Cardinality(Digests)
        BY <2>1, DigestsFinite, FS_Injection
    <2>3. Cardinality(1..m) = m
        BY <1>1, FS_Interval
    <2> QED BY <2>2, <2>3
<1>3. m \in 0..Cardinality(Digests)
    BY <1>1, <1>2, DigestsFinite, FS_CardinalityType
<1>4. l \in Orders
    BY <1>1, <1>3 DEF Orders, NoRepeat
<1>5. parseJournal(f, l)
    BY <1>1, CleanFile DEF parseJournal, Named
<1> QED BY <1>4, <1>5

-----------------------------------------------------------------------------
(* What one more line does, and one less. *)
LEMMA OneMore ==
    ASSUME NEW s \in Seq(Digests), NEW d \in Digests
    PROVE  LET t == Append(s, d)
           IN  /\ t \in Seq(Digests) /\ Len(t) > 0 /\ t[Len(t)] = d
               /\ ButLast(t) = s
               /\ Named(t) = Named(s) \cup {d}
               /\ NoRepeat(s) /\ d \notin Named(s) => NoRepeat(t)
<1> DEFINE t == Append(s, d)
<1>1. /\ t \in Seq(Digests) /\ Len(t) = Len(s) + 1 /\ Len(s) \in Nat
      /\ t[Len(s) + 1] = d /\ \A i \in 1..Len(s) : t[i] = s[i]
    OBVIOUS
<1> HIDE DEF t
<1>2. Len(t) > 0 /\ t[Len(t)] = d
    BY <1>1
<1>3. ButLast(t) = s
    <2>1. /\ ButLast(t) \in Seq(Digests) /\ Len(ButLast(t)) = Len(t) - 1
          /\ \A i \in 1..(Len(t) - 1) : ButLast(t)[i] = t[i]
        BY <1>1, <1>2, SequenceSteps
    <2>2. Len(ButLast(t)) = Len(s) /\ \A i \in 1..Len(s) : ButLast(t)[i] = s[i]
        BY <1>1, <2>1
    <2> QED BY <2>1, <2>2
<1>4. Named(t) = Named(s) \cup {d}
    <2>1. ASSUME NEW x \in Named(t) PROVE x \in Named(s) \cup {d}
        <3>1. PICK i \in 1..Len(t) : x = t[i]
            BY DEF Named
        <3>2. CASE i = Len(s) + 1
            BY <1>1, <3>1, <3>2
        <3>3. CASE i # Len(s) + 1
            BY <1>1, <3>1, <3>3 DEF Named
        <3> QED BY <3>2, <3>3
    <2>2. ASSUME NEW x \in Named(s) PROVE x \in Named(t)
        BY <1>1 DEF Named
    <2>3. d \in Named(t)
        BY <1>1 DEF Named
    <2> QED BY <2>1, <2>2, <2>3
<1>5. NoRepeat(s) /\ d \notin Named(s) => NoRepeat(t)
    BY <1>1 DEF NoRepeat, Named
<1> QED BY <1>1, <1>2, <1>3, <1>4, <1>5 DEF t

LEMMA OneLess ==
    ASSUME NEW s \in Seq(Digests), Len(s) > 0, NoRepeat(s)
    PROVE  /\ ButLast(s) \in Seq(Digests) /\ NoRepeat(ButLast(s))
           /\ s[Len(s)] \in Digests \ Named(ButLast(s))
           /\ s = Append(ButLast(s), s[Len(s)])
<1> DEFINE b == ButLast(s)
<1>1. /\ b \in Seq(Digests) /\ Len(b) = Len(s) - 1 /\ Len(s) \in Nat
      /\ \A i \in 1..(Len(s) - 1) : b[i] = s[i]
    BY SequenceSteps
<1> HIDE DEF b
<1>2. NoRepeat(b)
    BY <1>1 DEF NoRepeat
<1>3. s[Len(s)] \in Digests
    BY <1>1
<1>4. s[Len(s)] \notin Named(b)
    BY <1>1 DEF NoRepeat, Named
<1>5. s = Append(b, s[Len(s)])
    <2> DEFINE t == Append(b, s[Len(s)])
    <2>1. /\ t \in Seq(Digests) /\ Len(t) = Len(s)
          /\ t[Len(s)] = s[Len(s)] /\ \A i \in 1..(Len(s) - 1) : t[i] = s[i]
        BY <1>1, <1>3
    <2> HIDE DEF t
    <2>2. \A i \in 1..Len(s) : t[i] = s[i]
        BY <1>1, <2>1
    <2>3. t = s
        BY <2>1, <2>2
    <2> QED BY <2>3 DEF t
<1> QED BY <1>1, <1>2, <1>3, <1>4, <1>5 DEF b

(* The register the journal o stands for. *)
Fold(o) == FromDigestsSeeded(seed, o)

LEMMA FoldEmpty == Fold(<< >>) = seed
<1>1. seed = << [sha384 |-> Anchor] >>
    BY DEF seed, Seed, Extend, Zero
<1> QED BY <1>1 DEF Fold, FromDigestsSeeded

(* An extend with the next digest is the fold of one more line. *)
LEMMA FoldMore ==
    ASSUME NEW o \in Seq(Digests), NEW d \in Digests
    PROVE  Fold(Append(o, d)) = Extend(Fold(o), Event(d))
<1> DEFINE t == Append(o, d)
           f == [i \in 1..Len(o) |-> Event(o[i])]
           g == [i \in 1..Len(t) |-> Event(t[i])]
<1>1. /\ Len(t) = Len(o) + 1 /\ Len(o) \in Nat
      /\ t[Len(o) + 1] = d /\ \A i \in 1..Len(o) : t[i] = o[i]
    OBVIOUS
<1> HIDE DEF t
<1>2. /\ Event(d) \in Events
      /\ f \in Seq(Events) /\ Len(f) = Len(o)
    BY DEF Events, Event
<1>3. seed \in Seq(Events)
    BY DEF seed, Seed, Extend, Zero, Events
<1>4. g = Append(f, Event(d))
    <2> DEFINE h == Append(f, Event(d))
    <2>1. /\ h \in Seq(Events) /\ Len(h) = Len(t)
          /\ h[Len(o) + 1] = Event(d) /\ \A i \in 1..Len(o) : h[i] = f[i]
        BY <1>1, <1>2
    <2>2. \A i \in 1..Len(o) : f[i] = Event(t[i])
        BY <1>1
    <2> HIDE DEF h, f
    <2>3. \A i \in 1..Len(t) : h[i] = Event(t[i])
        BY <1>1, <2>1, <2>2
    <2>4. h = [i \in 1..Len(t) |-> h[i]]
        BY <2>1
    <2>5. h = g
        BY <2>3, <2>4
    <2> QED BY <2>5 DEF h, f
<1>5. Fold(t) = seed \o g /\ Fold(o) = seed \o f
    BY DEF Fold, FromDigestsSeeded
<1> HIDE DEF f, g
<1>6. seed \o Append(f, Event(d)) = Append(seed \o f, Event(d))
    BY <1>2, <1>3
<1> QED BY <1>4, <1>5, <1>6 DEF Extend, t

-----------------------------------------------------------------------------
(* The register is what the file folds to, or lacks its last line. *)
Settled == reg = Fold(file.lines)
Owing == Len(file.lines) > 0 /\ reg = Fold(ButLast(file.lines))

(* At every point of every handler the file accounts for the journal in    *)
(* memory and, while nothing else extends it, for the register.            *)
Memory ==
    /\ pc \in {"idle", "repairing", "recorded"} => order = file.lines
    /\ pc = "rollback" => order = ButLast(file.lines)
    /\ pc \in {"idle", "repairing"} => measured = Named(file.lines)
    /\ pc \in {"recorded", "rollback"} => measured = Named(ButLast(file.lines))
    /\ pc \in {"repairing", "recorded", "rollback"} =>
          Len(file.lines) > 0 /\ cur = file.lines[Len(file.lines)]

Register ==
    ~foreign => /\ ~diverged
                /\ pc = "idle" => Settled
                /\ pc \in {"repairing", "recorded", "rollback"} => Owing
                /\ pc = "down" => Settled \/ Owing

Accounted == TypeOK /\ Clean(file) /\ Memory /\ Register

LEMMA InitAccounted == Init => Accounted
<1> SUFFICES ASSUME Init PROVE Accounted
    OBVIOUS
<1>1. TypeOK
    BY InitTypeOK
<1>2. file.tail = None /\ file.lines = << >> /\ pc = "down" /\ ~diverged /\ reg = seed
    BY DEF Init, EmptyFile
<1>3. Clean(file)
    BY <1>2 DEF Clean, NoRepeat
<1>4. Memory
    BY <1>2 DEF Memory
<1>5. Register
    BY <1>2, FoldEmpty DEF Register, Settled
<1> QED BY <1>1, <1>3, <1>4, <1>5 DEF Accounted

(* Reopening finds the register where the file says it is. *)
LEMMA OpenAccounted ==
    ASSUME Accounted, TypeOK', Open
    PROVE  Accounted'
<1> USE DEF Accounted
<1>1. PICK o \in Orders :
        /\ Load(o)
        /\ \/ /\ Matches(o)
              /\ pc' = "idle" /\ diverged' = FALSE
           \/ /\ ~Matches(o) /\ OneBehind(o)
              /\ pc' = "repairing" /\ diverged' = FALSE /\ cur' = o[Len(o)]
           \/ /\ ~Matches(o) /\ ~OneBehind(o)
              /\ pc' = "idle" /\ diverged' = TRUE
    BY DEF Open
<1>2. pc = "down" /\ reg' = reg /\ file' = file /\ foreign' = foreign
    BY DEF Open
<1>3. o = file.lines /\ order' = o /\ DOMAIN o = 1..Len(o)
    BY <1>1, ParsedIsLines, OrdersType DEF Load
<1>4. measured' = Named(file.lines)
    BY <1>1, <1>3 DEF Load, Named
<1>5. /\ Matches(o) <=> Settled
      /\ OneBehind(o) <=> Owing
    BY <1>3 DEF Matches, OneBehind, Extension, Settled, Owing, Fold
<1>6. Clean(file)'
    BY <1>2 DEF Clean
<1>7. CASE Matches(o) /\ pc' = "idle" /\ diverged' = FALSE
    BY <1>2, <1>3, <1>4, <1>5, <1>6, <1>7 DEF Memory, Register, Settled
<1>8. CASE OneBehind(o) /\ pc' = "repairing" /\ diverged' = FALSE /\ cur' = o[Len(o)]
    BY <1>2, <1>3, <1>4, <1>5, <1>6, <1>8 DEF Memory, Register, Owing
<1>9. CASE ~Matches(o) /\ ~OneBehind(o) /\ pc' = "idle"
    BY <1>2, <1>3, <1>4, <1>5, <1>6, <1>9 DEF Memory, Register
<1> QED BY <1>1, <1>7, <1>8, <1>9

(* The extend of a record that was owed settles it. *)
LEMMA ExtendSettles ==
    ASSUME Clean(file), Owing, reg' = Extend(reg, Event(file.lines[Len(file.lines)])),
           file' = file
    PROVE  Settled'
<1> DEFINE l == file.lines
<1>1. /\ ButLast(l) \in Seq(Digests) /\ l[Len(l)] \in Digests
      /\ l = Append(ButLast(l), l[Len(l)])
    BY OneLess DEF Clean, Owing
<1>2. Fold(l) = Extend(Fold(ButLast(l)), Event(l[Len(l)]))
    BY <1>1, FoldMore
<1> QED BY <1>2 DEF Settled, Owing

LEMMA NextAccounted ==
    ASSUME Faults \subseteq {"crash", "extend", "foreign"}
    PROVE  Accounted /\ [Next]_vars => Accounted'
<1> SUFFICES ASSUME Accounted, [Next]_vars PROVE Accounted'
    OBVIOUS
<1>0. TypeOK' /\ TypeOK /\ Clean(file) /\ Memory /\ Register
    BY NextTypeOK DEF Accounted
<1> DEFINE l == file.lines
<1>c. /\ file.tail = None /\ l \in Seq(Digests) /\ NoRepeat(l)
      /\ Len(l) > 0 => l = Append(ButLast(l), l[Len(l)]) /\ ButLast(l) \in Seq(Digests)
                       /\ l[Len(l)] \in Digests /\ NoRepeat(ButLast(l))
    BY <1>0, OneLess DEF Clean
<1>1. CASE Open
    BY <1>0, <1>1, OpenAccounted
<1>2. CASE OpenUnreadable
    BY <1>2 DEF OpenUnreadable, Fault
<1>3. CASE RepairExtend
    <2>1. /\ pc = "repairing" /\ pc' = "idle" /\ reg' = Extend(reg, Event(cur))
          /\ UNCHANGED <<file, order, measured, diverged, foreign>>
        BY <1>3 DEF RepairExtend, RegisterExtend, journal
    <2>2. ~foreign => Settled'
        BY <1>0, <2>1, ExtendSettles DEF Memory, Register
    <2>3. Memory'
        BY <1>0, <2>1 DEF Memory
    <2> QED BY <1>0, <2>1, <2>2, <2>3 DEF Accounted, Register, Clean
<1>4. CASE RepairFails
    BY <1>0, <1>4 DEF RepairFails, Accounted, Clean, Memory, Register, Settled, Owing
<1>5. CASE Measure
    <2>1. PICK ref \in Refs : MeasureKnown(ref) \/ Record(ref)
        BY <1>5 DEF Measure, RecordFails, RecordTorn, Fault
    <2>2. CASE MeasureKnown(ref)
        BY <1>0, <2>2 DEF MeasureKnown, journal, Accounted, Clean, Memory, Register,
                          Settled, Owing
    <2>3. CASE Record(ref)
        <3> DEFINE d == CanonicalDigest(ref)
        <3>1. /\ pc = "idle" /\ ~diverged /\ d \in Digests /\ d \notin measured
              /\ cur' = d /\ order' = Append(order, d) /\ pc' = "recorded"
              /\ file' = AppendLine(file, d)
              /\ UNCHANGED <<reg, measured, diverged, foreign>>
            BY <2>3, CanonicalType DEF Record, Admits
        <3> HIDE DEF d
        <3>2. file'.lines = Append(l, d) /\ file'.tail = None
            BY <1>c, <3>1 DEF AppendLine, Join
        <3>3. order = l /\ measured = Named(l) /\ (~foreign => Settled)
            BY <1>0, <3>1 DEF Memory, Register
        <3>4. /\ file'.lines \in Seq(Digests) /\ Len(file'.lines) > 0
              /\ file'.lines[Len(file'.lines)] = d /\ ButLast(file'.lines) = l
              /\ NoRepeat(file'.lines)
            BY <1>c, <3>1, <3>2, <3>3, OneMore
        <3>5. Clean(file)'
            BY <3>2, <3>4 DEF Clean
        <3>6. Memory'
            BY <3>1, <3>2, <3>3, <3>4 DEF Memory
        <3>7. Register'
            BY <1>0, <3>1, <3>3, <3>4 DEF Register, Settled, Owing
        <3> QED BY <1>0, <3>5, <3>6, <3>7 DEF Accounted
    <2> QED BY <2>1, <2>2, <2>3
<1>6. CASE MeasureExtend
    <2>1. /\ pc = "recorded" /\ pc' = "idle" /\ reg' = Extend(reg, Event(cur))
          /\ measured' = measured \cup {cur}
          /\ UNCHANGED <<file, order, diverged, foreign>>
        BY <1>6 DEF MeasureExtend, RegisterExtend
    <2>2. ~foreign => Settled'
        BY <1>0, <2>1, ExtendSettles DEF Memory, Register
    <2>3. Len(l) > 0 /\ cur = l[Len(l)] /\ measured = Named(ButLast(l))
        BY <1>0, <2>1 DEF Memory
    <2>4. Named(l) = Named(ButLast(l)) \cup {cur}
        BY <1>c, <2>3, OneMore
    <2>5. Memory'
        BY <1>0, <2>1, <2>3, <2>4 DEF Memory
    <2> QED BY <1>0, <2>1, <2>2, <2>5 DEF Accounted, Register, Clean
<1>7. CASE ExtendFails
    <2>1. /\ pc = "recorded" /\ pc' = "rollback"
          /\ order' = IF Len(order) > 0 /\ order[Len(order)] = cur
                      THEN ButLast(order) ELSE order
          /\ UNCHANGED <<reg, file, measured, diverged, cur, foreign>>
        BY <1>7 DEF ExtendFails
    <2>2. order = l /\ Len(l) > 0 /\ cur = l[Len(l)]
        BY <1>0, <2>1 DEF Memory
    <2>3. order' = ButLast(l)
        BY <2>1, <2>2
    <2> QED BY <1>0, <2>1, <2>2, <2>3 DEF Accounted, Clean, Memory, Register, Owing
<1>8. CASE Rollback
    <2>1. /\ pc = "rollback" /\ pc' = "idle" /\ file'.lines = order /\ file'.tail = None
          /\ UNCHANGED <<reg, order, measured, diverged, foreign>>
        BY <1>8 DEF Rollback, Rendered, journal
    <2>2. /\ order = ButLast(l) /\ Len(l) > 0 /\ measured = Named(ButLast(l))
          /\ (~foreign => ~diverged /\ reg = Fold(ButLast(l)))
        BY <1>0, <2>1 DEF Memory, Register, Owing
    <2>3. Clean(file)'
        BY <1>c, <2>1, <2>2 DEF Clean
    <2>4. Memory' /\ Register'
        BY <2>1, <2>2 DEF Memory, Register, Settled
    <2> QED BY <1>0, <2>3, <2>4 DEF Accounted
<1>9. CASE RollbackFails
    BY <1>9 DEF RollbackFails, Fault
<1>10. CASE Crash
    BY <1>0, <1>10 DEF Crash, TypeOK, Accounted, Clean, Memory, Register, Settled, Owing
<1>11. CASE ForeignExtend
    BY <1>0, <1>11 DEF ForeignExtend, journal, Accounted, Clean, Memory, Register
<1>12. CASE UNCHANGED vars
    BY <1>0, <1>12 DEF vars, journal, Accounted, Clean, Memory, Register, Settled, Owing
<1> QED BY <1>1, <1>2, <1>3, <1>4, <1>5, <1>6, <1>7, <1>8, <1>9, <1>10,
           <1>11, <1>12 DEF Next

-----------------------------------------------------------------------------
(* However often the measurer dies and the register refuses an extend, the *)
(* journal refuses to measure (ErrRegisterDiverged) only after something   *)
(* else extended the register.                                             *)
THEOREM OnlyForeignDiverges ==
    ASSUME Faults \subseteq {"crash", "extend", "foreign"}
    PROVE  Spec => []DivergedMeansForeign
<1>1. Init => Accounted
    BY InitAccounted
<1>2. Accounted /\ [Next]_vars => Accounted'
    BY NextAccounted
<1>3. Accounted => DivergedMeansForeign
    BY DEF Accounted, Register, DivergedMeansForeign
<1> QED BY <1>1, <1>2, <1>3, PTL DEF Spec

(* And the file explains the register up to one record at every point of   *)
(* every handler, so that reconcile recovers wherever the process died.    *)
THEOREM FileAlwaysExplains ==
    ASSUME Faults \subseteq {"crash", "extend", "foreign"}
    PROVE  Spec => []FileExplainsRegister
<1>1. Init => Accounted
    BY InitAccounted
<1>2. Accounted /\ [Next]_vars => Accounted'
    BY NextAccounted
<1>3. Accounted => FileExplainsRegister
    <2> SUFFICES ASSUME Accounted, ~foreign
                 PROVE  \E o \in Orders :
                            parseJournal(file, o) /\ (Matches(o) \/ OneBehind(o))
        BY DEF FileExplainsRegister
    <2>1. file.lines \in Orders /\ parseJournal(file, file.lines)
        BY LinesParse DEF Accounted
    <2>2. Settled \/ Owing
        BY DEF Accounted, Register, TypeOK
    <2>3. Matches(file.lines) \/ OneBehind(file.lines)
        BY <2>2 DEF Settled, Owing, Matches, OneBehind, Extension, Fold
    <2> QED BY <2>1, <2>3
<1> QED BY <1>1, <1>2, <1>3, PTL DEF Spec

(* No digest reaches the register before the file records it. *)
THEOREM RecordsComeFirst ==
    ASSUME Faults \subseteq {"crash", "extend", "foreign"}
    PROVE  Spec => WriteAhead
<1> DEFINE A == \A d \in Held(reg') \ Held(reg) : d \in Recorded(file)
<1>1. Init => Accounted
    BY InitAccounted
<1>2. Accounted /\ [Next]_vars => Accounted'
    BY NextAccounted
<1>3. Accounted /\ [Next]_vars => [A]_vars
    <2> SUFFICES ASSUME Accounted, [Next]_vars PROVE A
        OBVIOUS
    <2>0. /\ TypeOK /\ Memory /\ reg \in Seq(Events)
          /\ Recorded(file) = Named(file.lines)
        BY CleanFile DEF Accounted, TypeOK, Events
    <2>1. CASE RepairExtend \/ MeasureExtend
        <3>1. reg' = Extend(reg, Event(cur)) /\ cur \in Digests \cup {Anchor, Other}
              /\ Len(file.lines) > 0 /\ cur = file.lines[Len(file.lines)]
            BY <2>0, <2>1 DEF RepairExtend, MeasureExtend, RegisterExtend, Memory, TypeOK
        <3>2. Held(reg') \ Held(reg) \subseteq {cur}
            BY <2>0, <3>1, HeldExtend
        <3>3. cur \in Named(file.lines)
            BY <3>1 DEF Accounted, Clean, Named
        <3> QED BY <2>0, <3>2, <3>3
    <2>2. CASE ForeignExtend
        <3>1. Held(reg') = Held(reg) \cup (Digests \cap {Other})
            BY <2>0, <2>2, HeldExtend DEF ForeignExtend, RegisterExtend
        <3> QED BY <3>1, NamesDistinct
    <2>3. CASE reg' = reg
        BY <2>3
    <2>4. RepairExtend \/ MeasureExtend \/ ForeignExtend \/ reg' = reg
        BY DEF Next, Open, OpenUnreadable, RepairFails, Measure, MeasureKnown, Record,
               RecordFails, RecordTorn, ExtendFails, Rollback, RollbackFails, Crash, vars
    <2> QED BY <2>1, <2>2, <2>3, <2>4
<1> QED BY <1>1, <1>2, <1>3, PTL DEF Spec, WriteAhead

-----------------------------------------------------------------------------
(* The exchange with a verifier. *)

(* s is how t begins. *)
Starts(s, t) == Len(s) <= Len(t) /\ \A i \in 1..Len(s) : s[i] = t[i]

(* The lines of the file that no rollback takes back. *)
Firm == IF pc \in {"recorded", "rollback"} THEN ButLast(file.lines) ELSE file.lines

(* A list as ReadJournal publishes it. *)
Published(o) == [i \in 1..Len(o) |-> [form |-> "bare", digest |-> o[i]]]

(* The quote is a fold of firm lines, and the list, but for its last       *)
(* entry, is firm lines, whatever the measurer did since each was read.    *)
QuoteIsFirm ==
    (quote # None /\ ~quoteForeign) =>
        \E q \in Seq(Digests) : quote = Fold(q) /\ Starts(q, Firm)

ListIsFirm ==
    list # None =>
        \E o \in Seq(Digests) : /\ list = Published(o)
                                /\ Len(o) > 0 => Starts(ButLast(o), Firm)

Exchanged == QuoteIsFirm /\ ListIsFirm

(* Firm lines are lines of the file, without repetition. *)
FirmIsOnFile ==
    /\ Firm \in Seq(Digests) /\ NoRepeat(Firm)
    /\ Starts(Firm, file.lines)
    /\ Len(file.lines) > 0 => Starts(ButLast(file.lines), Firm)

LEMMA FirmLines == Accounted => FirmIsOnFile
<1> SUFFICES ASSUME Accounted PROVE FirmIsOnFile
    OBVIOUS
<1> DEFINE l == file.lines
           b == ButLast(l)
<1>1. l \in Seq(Digests) /\ NoRepeat(l) /\ Len(l) \in Nat
    BY DEF Accounted, Clean
<1>2. Starts(l, l)
    BY <1>1 DEF Starts
<1>3. Len(l) > 0 => /\ b \in Seq(Digests) /\ NoRepeat(b) /\ Len(b) = Len(l) - 1
                    /\ \A i \in 1..(Len(l) - 1) : b[i] = l[i]
    BY <1>1, OneLess, SequenceSteps
<1>4. pc \in {"recorded", "rollback"} => Len(l) > 0
    BY DEF Accounted, Memory
<1> HIDE DEF b
<1>5. Len(l) > 0 => Starts(b, l) /\ Starts(b, b)
    BY <1>1, <1>3 DEF Starts
<1>6. CASE pc \in {"recorded", "rollback"}
    <2>1. Firm = b
        BY <1>6 DEF Firm, b
    <2>2. Firm \in Seq(Digests) /\ NoRepeat(Firm) /\ Starts(Firm, l) /\ Starts(b, Firm)
        BY <1>3, <1>4, <1>5, <1>6, <2>1
    <2> QED BY <2>2 DEF b, FirmIsOnFile
<1>7. CASE pc \notin {"recorded", "rollback"}
    <2>1. Firm = l
        BY <1>7 DEF Firm
    <2> QED BY <1>1, <1>2, <1>5, <2>1 DEF b, FirmIsOnFile
<1> QED BY <1>6, <1>7

(* A beginning of a beginning is one. *)
LEMMA StartsTransitive ==
    ASSUME NEW r \in Seq(Digests), NEW s \in Seq(Digests), NEW t \in Seq(Digests),
           Starts(r, s), Starts(s, t)
    PROVE  Starts(r, t)
<1>1. Len(r) \in Nat /\ Len(s) \in Nat /\ Len(t) \in Nat
    OBVIOUS
<1>2. Len(r) <= Len(s) /\ Len(s) <= Len(t)
    BY DEF Starts
<1>3. \A i \in 1..Len(r) : i \in 1..Len(s) /\ r[i] = s[i] /\ s[i] = t[i]
    BY <1>1, <1>2 DEF Starts
<1> QED BY <1>1, <1>2, <1>3 DEF Starts

(* No step takes a firm line back. *)
LEMMA FirmGrows ==
    ASSUME Faults \subseteq {"crash", "extend", "foreign"}, Accounted, [Next]_vars
    PROVE  Starts(Firm, Firm')
<1> DEFINE l == file.lines
<1>0. Accounted'
    BY NextAccounted
<1>1. /\ Firm \in Seq(Digests) /\ Firm' \in Seq(Digests)
      /\ Starts(Firm, l) /\ Starts(Firm', file'.lines)
    <2>1. FirmIsOnFile
        BY FirmLines
    <2>2. (Accounted => FirmIsOnFile)'
        BY FirmLines, PTL
    <2> QED BY <1>0, <2>1, <2>2 DEF FirmIsOnFile
<1>2. Starts(Firm, Firm)
    BY <1>1 DEF Starts
<1>3. CASE file' = file /\ pc' \notin {"recorded", "rollback"}
    <2>1. Firm' = l
        BY <1>3 DEF Firm
    <2> QED BY <1>1, <2>1
<1>4. CASE /\ file' = file
           /\ (pc' \in {"recorded", "rollback"}) = (pc \in {"recorded", "rollback"})
    <2>1. Firm' = Firm
        BY <1>4 DEF Firm
    <2> QED BY <1>2, <2>1
<1>5. ASSUME NEW ref \in Refs, Record(ref) PROVE Starts(Firm, Firm')
    <2> DEFINE d == CanonicalDigest(ref)
    <2>1. pc = "idle" /\ pc' = "recorded" /\ d \in Digests /\ file' = AppendLine(file, d)
        BY <1>5, CanonicalType DEF Record, Admits
    <2> HIDE DEF d
    <2>2. file.tail = None /\ l \in Seq(Digests)
        BY DEF Accounted, Clean
    <2>3. file'.lines = Append(l, d)
        BY <2>1, <2>2 DEF AppendLine, Join
    <2>4. ButLast(file'.lines) = l
        BY <2>1, <2>2, <2>3, OneMore
    <2>5. Firm = l /\ Firm' = l
        BY <2>1, <2>4 DEF Firm
    <2> QED BY <1>2, <2>5
<1>6. CASE Rollback
    <2>1. pc = "rollback" /\ pc' = "idle" /\ file'.lines = order
        BY <1>6 DEF Rollback, Rendered
    <2>2. order = ButLast(l)
        BY <2>1 DEF Accounted, Memory
    <2>3. Firm = ButLast(l) /\ Firm' = ButLast(l)
        BY <2>1, <2>2 DEF Firm
    <2> QED BY <1>2, <2>3
<1>7. CASE Measure
    <2>1. PICK ref \in Refs : MeasureKnown(ref) \/ Record(ref)
        BY <1>7 DEF Measure, RecordFails, RecordTorn, Fault
    <2>2. CASE MeasureKnown(ref)
        BY <1>4, <2>2 DEF MeasureKnown
    <2> QED BY <1>5, <2>1, <2>2
<1>8. CASE Open \/ RepairExtend \/ RepairFails \/ MeasureExtend \/ Crash
    BY <1>3, <1>8 DEF Open, RepairExtend, RepairFails, MeasureExtend, Crash
<1>9. CASE ExtendFails \/ ForeignExtend \/ UNCHANGED vars
    BY <1>4, <1>9 DEF ExtendFails, ForeignExtend, vars
<1>10. ~OpenUnreadable /\ ~RollbackFails
    BY DEF OpenUnreadable, RollbackFails, Fault
<1> QED BY <1>6, <1>7, <1>8, <1>9, <1>10 DEF Next

(* While the journal alone extends it, the register folds firm lines. *)
LEMMA RegisterIsFirm ==
    ASSUME Accounted, ~foreign
    PROVE  \E q \in Seq(Digests) : /\ reg = Fold(q) /\ Starts(q, Firm) /\ NoRepeat(q)
                                   /\ Len(file.lines) <= Len(q) + 1
<1> DEFINE l == file.lines
           b == ButLast(l)
<1>1. l \in Seq(Digests) /\ NoRepeat(l) /\ Len(l) \in Nat
    BY DEF Accounted, Clean
<1>2. Len(l) > 0 => /\ b \in Seq(Digests) /\ NoRepeat(b) /\ Len(b) = Len(l) - 1
                    /\ Starts(b, Firm)
    BY <1>1, OneLess, SequenceSteps, FirmLines DEF FirmIsOnFile
<1>3. CASE Owing
    <2>1. reg = Fold(b) /\ Len(l) > 0
        BY <1>3 DEF Owing
    <2> HIDE DEF b, l
    <2>2. Len(l) <= Len(b) + 1
        BY <1>1, <1>2, <2>1
    <2> QED BY <1>2, <2>1, <2>2 DEF l
<1>4. CASE Settled /\ pc \in {"idle", "down"}
    <2>1. reg = Fold(l) /\ Firm = l
        BY <1>4 DEF Settled, Firm
    <2>2. Starts(l, l) /\ Len(l) <= Len(l) + 1
        BY <1>1 DEF Starts
    <2> QED BY <1>1, <2>1, <2>2
<1>5. Owing \/ (Settled /\ pc \in {"idle", "down"})
    BY DEF Accounted, TypeOK, Register
<1> QED BY <1>3, <1>4, <1>5

(* The exchange keeps this up: what was read stays firm. *)
LEMMA ExchangedStep ==
    ASSUME Faults \subseteq {"crash", "extend", "foreign"}, Accounted, Exchanged,
           [LogNext]_<<vars, exchange>>
    PROVE  Exchanged'
<1>0. FirmIsOnFile /\ file.lines \in Seq(Digests)
    BY FirmLines DEF Accounted, Clean
<1>1. CASE [Next]_vars /\ UNCHANGED exchange
    <2>1. Accounted' /\ Starts(Firm, Firm')
        BY <1>1, NextAccounted, FirmGrows
    <2>2. Firm \in Seq(Digests) /\ Firm' \in Seq(Digests)
        <3>1. (Accounted => FirmIsOnFile)'
            BY FirmLines, PTL
        <3> QED BY <1>0, <2>1, <3>1 DEF FirmIsOnFile
    <2>3. ASSUME NEW s \in Seq(Digests), Starts(s, Firm) PROVE Starts(s, Firm')
        BY <2>1, <2>2, <2>3, StartsTransitive
    <2>4. quote' = quote /\ quoteForeign' = quoteForeign /\ list' = list
        BY <1>1 DEF exchange
    <2>5. QuoteIsFirm'
        <3> SUFFICES ASSUME quote # None, ~quoteForeign
                     PROVE  \E q \in Seq(Digests) : quote = Fold(q) /\ Starts(q, Firm')
            BY <2>4 DEF QuoteIsFirm, Fold, FromDigestsSeeded
        <3>1. PICK q \in Seq(Digests) : quote = Fold(q) /\ Starts(q, Firm)
            BY DEF Exchanged, QuoteIsFirm
        <3> QED BY <2>3, <3>1
    <2>6. ListIsFirm'
        <3> SUFFICES ASSUME list # None
                     PROVE  \E o \in Seq(Digests) : /\ list = Published(o)
                                                    /\ Len(o) > 0 => Starts(ButLast(o), Firm')
            BY <2>4 DEF ListIsFirm
        <3>1. PICK o \in Seq(Digests) : /\ list = Published(o)
                                        /\ Len(o) > 0 => Starts(ButLast(o), Firm)
            BY DEF Exchanged, ListIsFirm
        <3>2. Len(o) > 0 => ButLast(o) \in Seq(Digests)
            BY SequenceSteps
        <3> QED BY <2>3, <3>1, <3>2
    <2> QED BY <2>5, <2>6 DEF Exchanged
<1>2. CASE TakeQuote
    <2>1. quote' = reg /\ quoteForeign' = foreign /\ list' = list /\ Firm' = Firm
        BY <1>2 DEF TakeQuote, vars, Firm
    <2>2. QuoteIsFirm'
        <3> SUFFICES ASSUME ~foreign
                     PROVE  \E q \in Seq(Digests) : reg = Fold(q) /\ Starts(q, Firm)
            BY <2>1 DEF QuoteIsFirm
        <3> QED BY RegisterIsFirm
    <2>3. ListIsFirm'
        BY <2>1 DEF Exchanged, ListIsFirm
    <2> QED BY <2>2, <2>3 DEF Exchanged
<1>3. CASE ReadJournal
    <2>1. quote' = quote /\ quoteForeign' = quoteForeign /\ Firm' = Firm
        BY <1>3 DEF ReadJournal, vars, Firm
    <2>2. PICK o \in Orders :
            /\ parseJournal(file, o)
            /\ list' = [i \in DOMAIN o |-> [form |-> "bare", digest |-> o[i]]]
        BY <1>3 DEF ReadJournal
    <2>3. o = file.lines /\ DOMAIN o = 1..Len(o)
        BY <2>2, ParsedIsLines, OrdersType DEF Accounted
    <2>4. list' = Published(file.lines)
        BY <2>2, <2>3 DEF Published
    <2>5. Len(file.lines) > 0 => Starts(ButLast(file.lines), Firm)
        BY <1>0 DEF FirmIsOnFile
    <2>6. ListIsFirm'
        BY <1>0, <2>1, <2>4, <2>5 DEF ListIsFirm
    <2>7. QuoteIsFirm'
        BY <2>1 DEF Exchanged, QuoteIsFirm
    <2> QED BY <2>6, <2>7 DEF Exchanged
<1> QED BY <1>1, <1>2, <1>3 DEF LogNext, Measurer

(* A verified result for a register of this value. *)
ResultOf(value) ==
    [SignatureValid |-> TRUE,
     Platform |-> [tag |-> "tdx", canonical |-> TRUE],
     Claims |-> [RTMR |-> [i \in {3} |-> value], InitData |-> None]]

(* A verifier given a quote and a list that begins with what was folded    *)
(* finds where the list stops explaining the quote.                        *)
LEMMA BeginningReplays ==
    ASSUME NEW q \in Seq(Digests), NEW o \in Seq(Digests), Starts(q, o)
    PROVE  MatchBindingPrefix(ResultOf(Fold(q)), Anchor, Published(o)) # {}
<1> DEFINE r == ResultOf(Fold(q))
           p == [tag |-> "tdx", canonical |-> TRUE]
           c == Published(o)
           d == [sha384 |-> Anchor]
<1>1. r.Platform = p /\ r.SignatureValid /\ r.Claims.RTMR = [i \in {3} |-> Fold(q)]
    BY DEF ResultOf
<1>2. Family(p) = "tdx" /\ HasRegisters(p) /\ checkBindingPlatform(p)
    BY DEF Family, NormalizePlatform, HasRegisters, checkBindingPlatform
<1>3. Fold(q) \in Binding(r)
    BY <1>1, <1>2 DEF Binding
<1>4. d \in LaunchFileDigest(Family(p), Anchor)
    <2>1. "sha384" \in launchFileHash("tdx") /\ Anchor # EmptyBytes
        BY AnchorIsAFile DEF launchFileHash
    <2>2. [f \in {"sha384"} |-> Anchor] = d
        OBVIOUS
    <2> HIDE DEF d
    <2> QED BY <1>2, <2>1, <2>2 DEF LaunchFileDigest
<1>5. CheckLaunchFileDigest("tdx", d)
    BY AnchorIsAFile DEF CheckLaunchFileDigest, launchFileHash
<1>6. bindingFromDigest(p, d, << >>) = {seed}
    <2>1. bindingFromDigest(p, d, << >>) = {FromDigestsSeeded(Extend(Zero, d), << >>)}
        BY <1>2, <1>5 DEF bindingFromDigest
    <2>2. Extend(Zero, d) = seed
        BY DEF seed, Seed
    <2> QED BY <2>1, <2>2, FoldEmpty DEF Fold
<1>7. seed \in expectedBinding(p, Anchor, << >>)
    BY <1>4, <1>6 DEF expectedBinding
<1>8. /\ Len(q) \in Nat /\ Len(o) \in Nat /\ Len(q) <= Len(o) /\ Len(c) = Len(o)
      /\ \A i \in 1..Len(o) : c[i] = [form |-> "bare", digest |-> o[i]] /\ o[i] \in Digests
      /\ \A i \in 1..Len(q) : q[i] = o[i]
    BY DEF Published, Starts
<1> HIDE DEF c, r, p, d
<1>9. \A i \in 1..Len(c) : CanonicalEntry(c[i]) /\ CanonicalDigest(c[i]) = o[i]
    <2> TAKE i \in 1..Len(c)
    <2>1. c[i] = [form |-> "bare", digest |-> o[i]] /\ o[i] \in Digests
        BY <1>8
    <2>2. o[i] # None
        BY <2>1, NoneIsNoDigest
    <2>3. c[i].form = "bare" /\ c[i].digest = o[i]
        BY <2>1
    <2> QED BY <2>2, <2>3 DEF CanonicalEntry, CanonicalDigest
<1>10. Fold(q) = FromDigestsSeeded(seed, Listed(c, Len(q)))
    <2>1. Listed(c, Len(q)) = q
        <3>1. \A i \in 1..Len(q) : CanonicalDigest(c[i]) = q[i]
            BY <1>8, <1>9
        <3>2. q = [i \in 1..Len(q) |-> q[i]]
            OBVIOUS
        <3> QED BY <3>1, <3>2 DEF Listed
    <2> QED BY <2>1 DEF Fold
<1> DEFINE Hits == {k \in 0..Len(c) : Fold(q) = FromDigestsSeeded(seed, Listed(c, k))}
<1>11. Len(q) \in Hits /\ Hits \in SUBSET Nat
    BY <1>8, <1>10
<1>12. PICK k \in Hits : \A j \in Hits : k <= j
    BY <1>11, LeastNatural
<1>13. k \in matchBindingPrefix(r, c, expectedBinding(p, Anchor, << >>))
    <2> DEFINE First(ks) == {n \in ks : \A j \in ks : n <= j}
               H(got, want) == {n \in 0..Len(c) : got = FromDigestsSeeded(want, Listed(c, n))}
               E == expectedBinding(p, Anchor, << >>)
    <2>1. k \in First(H(Fold(q), seed))
        BY <1>12
    <2>2. matchBindingPrefix(r, c, E) = UNION {First(H(got, want)) : got \in Binding(r), want \in E}
        BY <1>1, <1>2, <1>9 DEF matchBindingPrefix
    <2> HIDE DEF First, H, E
    <2>3. k \in UNION {First(H(got, want)) : got \in Binding(r), want \in E}
        BY <1>3, <1>7, <2>1 DEF E
    <2> QED BY <2>2, <2>3 DEF E
<1> QED BY <1>1, <1>13 DEF MatchBindingPrefix, c, r

(* A list whose first entries are firm begins with every list of firm      *)
(* lines that it names all of.                                             *)
LEMMA CoveringBegins ==
    ASSUME NEW f \in Seq(Digests), NoRepeat(f), NEW q \in Seq(Digests), Starts(q, f),
           NEW o \in Seq(Digests), Len(o) > 0 => Starts(ButLast(o), f),
           Named(q) \subseteq Named(o)
    PROVE  Starts(q, o)
<1> DEFINE n == Len(o)
<1>1. /\ n \in Nat /\ Len(q) \in Nat /\ Len(f) \in Nat /\ Len(q) <= Len(f)
      /\ \A i \in 1..Len(q) : i \in 1..Len(f) /\ q[i] = f[i]
    BY DEF Starts
<1>2. \A i \in 1..Len(q) : \E j \in 1..n : q[i] = o[j]
    BY DEF Named
<1>3. CASE n = 0
    <2>1. Len(q) = 0
        <3> SUFFICES ASSUME 1 \in 1..Len(q) PROVE FALSE
            BY <1>1
        <3> QED BY <1>2, <1>3
    <2> QED BY <1>3, <2>1 DEF Starts
<1>4. CASE n > 0
    <2>1. /\ Len(ButLast(o)) = n - 1 /\ n - 1 <= Len(f)
          /\ \A i \in 1..(n - 1) : ButLast(o)[i] = o[i] /\ ButLast(o)[i] = f[i]
        BY <1>1, <1>4, SequenceSteps DEF Starts
    <2>2. \A i \in 1..(n - 1) : i \in 1..Len(f) /\ o[i] = f[i]
        BY <1>1, <2>1
    <2>3. ASSUME n \in 1..Len(q) PROVE q[n] = o[n]
        <3>1. PICK j \in 1..n : q[n] = o[j]
            BY <1>2, <2>3
        <3>2. ASSUME j # n PROVE FALSE
            <4>1. j \in 1..(n - 1) /\ j \in 1..Len(f) /\ n \in 1..Len(f)
                BY <1>1, <2>2, <2>3, <3>2
            <4>2. f[j] = f[n]
                BY <1>1, <2>2, <2>3, <3>1, <4>1
            <4> QED BY <3>2, <4>1, <4>2 DEF NoRepeat
        <3> QED BY <3>1, <3>2
    <2>4. \A i \in 1..Len(q) : i <= n => q[i] = o[i]
        <3> SUFFICES ASSUME NEW i \in 1..Len(q), i <= n PROVE q[i] = o[i]
            OBVIOUS
        <3>1. CASE i = n
            BY <2>3, <3>1
        <3>2. CASE i < n
            <4>1. i \in 1..(n - 1)
                BY <1>1, <3>2
            <4> QED BY <1>1, <2>2, <4>1
        <3> QED BY <1>1, <3>1, <3>2
    <2>5. Len(q) <= n
        <3> SUFFICES ASSUME Len(q) > n PROVE FALSE
            BY <1>1
        <3>1. n + 1 \in 1..Len(q) /\ n + 1 \in 1..Len(f)
            BY <1>1
        <3>2. PICK j \in 1..n : q[n + 1] = o[j]
            BY <1>2, <3>1
        <3>3. j \in 1..Len(q) /\ j \in 1..Len(f) /\ j # n + 1 /\ o[j] = q[j]
            BY <1>1, <2>4
        <3>4. f[j] = f[n + 1]
            BY <1>1, <3>1, <3>2, <3>3
        <3> QED BY <3>1, <3>3, <3>4 DEF NoRepeat
    <2> QED BY <1>1, <2>4, <2>5 DEF Starts
<1> QED BY <1>1, <1>3, <1>4

(* A list of distinct digests names as many as it has entries. *)
LEMMA NamedIsCounted ==
    ASSUME NEW s \in Seq(Digests), NoRepeat(s)
    PROVE  Cardinality(Named(s)) = Len(s)
<1> DEFINE n == Len(s)
<1>1. n \in Nat /\ s \in [1..n -> Digests]
    OBVIOUS
<1>2. s \in Bijection(1..n, Named(s))
    <2>1. s \in [1..n -> Named(s)] /\ \A x \in Named(s) : \E i \in 1..n : s[i] = x
        BY <1>1 DEF Named
    <2>2. \A i, j \in 1..n : s[i] = s[j] => i = j
        BY DEF NoRepeat
    <2> QED BY <2>1, <2>2 DEF Bijection, Injection, Surjection, IsInjective
<1>3. IsFiniteSet(1..n) /\ Cardinality(1..n) = n
    BY <1>1, FS_Interval
<1>4. Cardinality(1..n) = Cardinality(Named(s))
    BY <1>2, <1>3, FS_Bijection DEF ExistsBijection
<1> QED BY <1>3, <1>4

(* What the run of module RuntimeLog reaches is accounted for too. *)
LEMMA LogAccounted ==
    ASSUME Faults \subseteq {"crash", "extend", "foreign"}
    PROVE  LogSpec => [](Accounted /\ Exchanged)
<1>1. LogInit => Accounted /\ Exchanged
    BY InitAccounted DEF LogInit, Exchanged, QuoteIsFirm, ListIsFirm
<1>2. [LogNext]_<<vars, exchange>> => [Next]_vars
    BY DEF LogNext, Measurer, TakeQuote, ReadJournal
<1>3. Accounted /\ Exchanged /\ [LogNext]_<<vars, exchange>> => Accounted' /\ Exchanged'
    BY <1>2, NextAccounted, ExchangedStep
<1> QED BY <1>1, <1>3, PTL DEF LogSpec

(* Whatever crashes, failed extends and rollbacks fall between a guest's   *)
(* quote and its list, and after them, a list that names every digest in   *)
(* the quote replays to it (MatchBindingPrefix, ReadJournal): a verifier   *)
(* refuses an honest guest for a list that is too old, and nothing else.   *)
THEOREM CoveringListsReplay ==
    ASSUME Faults \subseteq {"crash", "extend", "foreign"}
    PROVE  LogSpec => []CoveringListReplays
<1>1. Accounted /\ Exchanged => CoveringListReplays
    <2> SUFFICES ASSUME Accounted, Exchanged, Delivered, ~quoteForeign,
                        Held(quote) \subseteq {list[i].digest : i \in DOMAIN list}
                 PROVE  Proven # {}
        BY DEF CoveringListReplays
    <2>1. PICK q \in Seq(Digests) : quote = Fold(q) /\ Starts(q, Firm)
        BY DEF Exchanged, QuoteIsFirm, Delivered
    <2>2. PICK o \in Seq(Digests) : /\ list = Published(o)
                                    /\ Len(o) > 0 => Starts(ButLast(o), Firm)
        BY DEF Exchanged, ListIsFirm, Delivered
    <2>3. {list[i].digest : i \in DOMAIN list} = Named(o)
        BY <2>2 DEF Published, Named
    <2>4. Held(quote) = Named(q)
        BY <2>1, HeldFold DEF Fold, Named
    <2>5. Starts(q, o)
        BY <2>1, <2>2, <2>3, <2>4, FirmLines, CoveringBegins DEF FirmIsOnFile
    <2>6. MatchBindingPrefix(ResultOf(quote), Anchor, list) # {}
        BY <2>1, <2>2, <2>5, BeginningReplays
    <2> QED BY <2>6 DEF Proven, Result, ResultOf
<1>2. LogSpec => [](Accounted /\ Exchanged)
    BY LogAccounted
<1> QED BY <1>1, <1>2, PTL

(* And a list read after the quote is never too old: it replays, and runs  *)
(* at most one digest ahead of the register.                               *)
THEOREM LaterListsReplay ==
    ASSUME Faults \subseteq {"crash", "extend", "foreign"}
    PROVE  LogSpec => ListAfterQuoteReplays
<1> DEFINE A == (quote # None /\ ~quoteForeign /\ list = None /\ list' # None)
                    => /\ Proven' # {}
                       /\ ~foreign => Len(list') <= Cardinality(Held(reg)) + 1
<1>1. Accounted /\ Exchanged /\ [LogNext]_<<vars, exchange>> => [A]_<<vars, exchange>>
    <2> SUFFICES ASSUME Accounted, Exchanged, [LogNext]_<<vars, exchange>>,
                        quote # None, ~quoteForeign, list = None, list' # None
                 PROVE  /\ Proven' # {}
                        /\ ~foreign => Len(list') <= Cardinality(Held(reg)) + 1
        OBVIOUS
    <2>1. ReadJournal
        BY DEF LogNext, Measurer, TakeQuote, exchange
    <2>2. PICK o \in Orders :
            /\ parseJournal(file, o)
            /\ list' = [i \in DOMAIN o |-> [form |-> "bare", digest |-> o[i]]]
        BY <2>1 DEF ReadJournal
    <2>3. o = file.lines /\ o \in Seq(Digests) /\ DOMAIN o = 1..Len(o)
        BY <2>2, ParsedIsLines, OrdersType DEF Accounted
    <2>4. list' = Published(o) /\ quote' = quote
        BY <2>1, <2>2, <2>3 DEF Published, ReadJournal
    <2>5. PICK q \in Seq(Digests) : quote = Fold(q) /\ Starts(q, Firm)
        BY DEF Exchanged, QuoteIsFirm
    <2>6. Firm \in Seq(Digests) /\ Starts(Firm, o)
        BY <2>3, FirmLines DEF FirmIsOnFile
    <2>7. Starts(q, o)
        BY <2>3, <2>5, <2>6, StartsTransitive
    <2>8. MatchBindingPrefix(ResultOf(quote'), Anchor, list') # {}
        BY <2>3, <2>4, <2>5, <2>7, BeginningReplays
    <2>9. Proven' # {}
        BY <2>8 DEF Proven, Result, ResultOf
    <2>10. ASSUME ~foreign PROVE Len(list') <= Cardinality(Held(reg)) + 1
        <3>1. PICK s \in Seq(Digests) : /\ reg = Fold(s) /\ NoRepeat(s)
                                        /\ Len(file.lines) <= Len(s) + 1
            BY <2>10, RegisterIsFirm
        <3>2. Cardinality(Held(reg)) = Len(s)
            BY <3>1, HeldFold, NamedIsCounted DEF Fold, Named
        <3>3. Len(list') = Len(o)
            BY <2>3, <2>4 DEF Published
        <3> QED BY <2>3, <3>1, <3>2, <3>3
    <2> QED BY <2>9, <2>10
<1>2. LogSpec => [](Accounted /\ Exchanged)
    BY LogAccounted
<1> QED BY <1>1, <1>2, PTL DEF LogSpec, ListAfterQuoteReplays

=============================================================================
