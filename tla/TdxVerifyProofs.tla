-------------------------- MODULE TdxVerifyProofs --------------------------
(***************************************************************************)
(* What an accepted TDX quote means, for every call, every collateral and  *)
(* every way the network changes it between two fetches.                   *)
(*                                                                         *)
(* The invariant Established says what each step of the verification has   *)
(* made sure of when the next one starts: the documents the evaluation     *)
(* reads are the ones whose signature was checked (Trusted), and the       *)
(* result is what they say of this quote (Evaluated).  How a quote is      *)
(* rated by one pair of documents is a matter of the operators of          *)
(* TcbStatus, and of the lemmas on them that come first.                   *)
(*                                                                         *)
(* That a register and a log agree is not read off the code's replay: the  *)
(* register is what the hardware made of one event after the other, the    *)
(* log what its records say, and both are tied to the replay by the        *)
(* positions the register's events have (Tells).                           *)
(***************************************************************************)
EXTENDS TdxVerify, OrderingProofs

-----------------------------------------------------------------------------
(* Levels and ranks. *)

(* A known status has a rank (tcbStatusOrder). *)
LEMMA RankIsNatural ==
    ASSUME NEW s, ParseTCBStatus(s)
    PROVE  Rank(s) \in Nat
<1>1. DOMAIN tcbStatusOrder = 1..7
    BY DEF tcbStatusOrder
<1>2. PICK i \in DOMAIN tcbStatusOrder : tcbStatusOrder[i] = s
    BY DEF ParseTCBStatus
<1>3. Rank(s) \in DOMAIN tcbStatusOrder
    BY <1>2 DEF Rank
<1> QED BY <1>1, <1>3

(* A list is a function on an interval from 1. *)
LEMMA ListedDomain ==
    ASSUME NEW levels, Listed(levels)
    PROVE  Len(levels) \in Nat /\ DOMAIN levels = 1..Len(levels)
<1> QED BY DEF Listed

(* firstLevel returns a level at a matching position, at most one, and one *)
(* whenever a position matches.                                            *)
LEMMA FirstLevel ==
    ASSUME NEW levels, Listed(levels), NEW M \in SUBSET DOMAIN levels
    PROVE  /\ \A l \in firstLevel(levels, M) :
                 \E i \in M : levels[i] = l /\ \A j \in M : i <= j
           /\ \A l, k \in firstLevel(levels, M) : l = k
           /\ M # {} => firstLevel(levels, M) # {}
<1>1. M \in SUBSET Nat
    BY ListedDomain
<1>2. \A l \in firstLevel(levels, M) : \E i \in M : levels[i] = l /\ \A j \in M : i <= j
    BY DEF firstLevel
<1>3. ASSUME NEW l \in firstLevel(levels, M), NEW k \in firstLevel(levels, M)
      PROVE  l = k
    <2>1. PICK i \in M : levels[i] = l /\ \A j \in M : i <= j
        BY <1>2
    <2>2. PICK h \in M : levels[h] = k /\ \A j \in M : h <= j
        BY <1>2
    <2>3. i <= h /\ h <= i /\ i \in Nat /\ h \in Nat
        BY <1>1, <2>1, <2>2
    <2>4. i = h
        BY <2>3
    <2> QED BY <2>1, <2>2, <2>4
<1>4. ASSUME M # {} PROVE firstLevel(levels, M) # {}
    <2>1. PICK i \in M : \A j \in M : i <= j
        BY <1>1, <1>4, LeastNatural
    <2>2. levels[i] \in firstLevel(levels, M)
        BY <2>1 DEF firstLevel
    <2> QED BY <2>2
<1> QED BY <1>2, <1>3, <1>4

(* A platform that meets more levels of a well ordered list gets one no    *)
(* worse.                                                                  *)
LEMMA MoreIsNoWorse ==
    ASSUME NEW levels, Listed(levels), WellListed(levels),
           NEW M \in SUBSET DOMAIN levels, NEW N \in SUBSET DOMAIN levels, M \subseteq N,
           NEW l \in firstLevel(levels, M)
    PROVE  /\ firstLevel(levels, N) # {}
           /\ \A k \in firstLevel(levels, N) :
                 /\ Rank(k.status) <= Rank(l.status)
                 /\ ParseTCBStatus(k.status) /\ ParseTCBStatus(l.status)
<1>1. PICK i \in M : levels[i] = l
    BY FirstLevel
<1>2. firstLevel(levels, N) # {}
    BY <1>1, FirstLevel
<1>3. ASSUME NEW k \in firstLevel(levels, N)
      PROVE  /\ Rank(k.status) <= Rank(l.status)
             /\ ParseTCBStatus(k.status) /\ ParseTCBStatus(l.status)
    <2>1. PICK j \in N : levels[j] = k /\ \A h \in N : j <= h
        BY FirstLevel
    <2>2. j <= i /\ i \in DOMAIN levels /\ j \in DOMAIN levels
        BY <1>1, <2>1
    <2> QED BY <1>1, <2>1, <2>2 DEF WellListed
<1> QED BY <1>2, <1>3

-----------------------------------------------------------------------------
(* The levels of a platform. *)

AtMostOne(S) == \A a, b \in S : a = b

IsQuote(q, n) ==
    /\ n \in 1..15 /\ q.tee \in [0..n -> Nat] /\ q.qe \in Nat
    /\ q.pck.cpu \in Seq(Nat) /\ q.pck.pce \in Nat

IsEnclaveList(levels) ==
    Listed(levels) /\ \A i \in DOMAIN levels : levels[i].isvsvn \in Nat

IsInfo(info) ==
    /\ Listed(info.levels) /\ Listed(info.modules)
    /\ \A i \in DOMAIN info.levels :
          /\ info.levels[i].sgx \in Seq(Nat) /\ info.levels[i].pce \in Nat
          /\ \A j \in DOMAIN info.levels[i].tdx : info.levels[i].tdx[j] \in Nat
    /\ \A i \in DOMAIN info.modules : IsEnclaveList(info.modules[i].levels)

(* The levels of the three components, as matchTCBLevels joins them. *)
PlatformLevel(info, q) == matchPlatformLevel(info.levels, q.tee, q.pck)
EnclaveLevel(qe, q) == matchEnclaveLevel(qe, q.qe)
ModuleLevel(info, q) == IF q.tee[1] > 0 THEN matchModuleLevel(info.modules, q.tee) ELSE {}

(* Each component matches one level of its list, or none. *)
LEMMA OneLevelEach ==
    ASSUME NEW info, IsInfo(info), NEW qe, IsEnclaveList(qe), NEW q, NEW n, IsQuote(q, n)
    PROVE  /\ AtMostOne(PlatformLevel(info, q)) /\ AtMostOne(EnclaveLevel(qe, q))
           /\ AtMostOne(ModuleLevel(info, q))
<1>1. AtMostOne(PlatformLevel(info, q))
    BY FirstLevel DEF PlatformLevel, matchPlatformLevel, AtMostOne, IsInfo
<1>2. AtMostOne(EnclaveLevel(qe, q))
    BY FirstLevel DEF EnclaveLevel, matchEnclaveLevel, AtMostOne, IsEnclaveList
<1>3. AtMostOne(ModuleLevel(info, q))
    <2> DEFINE own == {i \in DOMAIN info.modules : info.modules[i].version = q.tee[1]}
    <2>1. /\ \A m \in firstLevel(info.modules, own) :
                \E i \in DOMAIN info.modules : info.modules[i] = m
          /\ AtMostOne(firstLevel(info.modules, own))
        <3>1. Listed(info.modules) /\ own \in SUBSET DOMAIN info.modules
            BY DEF IsInfo
        <3> HIDE DEF own
        <3>2. /\ \A m \in firstLevel(info.modules, own) :
                    \E i \in own : info.modules[i] = m
              /\ \A l, k \in firstLevel(info.modules, own) : l = k
            BY <3>1, FirstLevel
        <3> QED BY <3>1, <3>2 DEF AtMostOne
    <2>2. ASSUME NEW m \in firstLevel(info.modules, own)
          PROVE  AtMostOne(matchEnclaveLevel(m.levels, q.tee[0]))
        <3>1. IsEnclaveList(m.levels)
            BY <2>1 DEF IsInfo
        <3> QED BY <3>1, FirstLevel DEF matchEnclaveLevel, AtMostOne, IsEnclaveList
    <2>3. AtMostOne(matchModuleLevel(info.modules, q.tee))
        <3>1. ASSUME NEW a \in matchModuleLevel(info.modules, q.tee),
                     NEW b \in matchModuleLevel(info.modules, q.tee)
              PROVE  a = b
            <4>1. PICK m \in firstLevel(info.modules, own) :
                     a \in matchEnclaveLevel(m.levels, q.tee[0])
                BY DEF matchModuleLevel
            <4>2. PICK k \in firstLevel(info.modules, own) :
                     b \in matchEnclaveLevel(k.levels, q.tee[0])
                BY DEF matchModuleLevel
            <4>3. m = k
                BY <2>1, <4>1, <4>2 DEF AtMostOne
            <4> QED BY <2>2, <4>1, <4>2, <4>3 DEF AtMostOne
        <3> QED BY <3>1 DEF AtMostOne
    <2> QED BY <2>3 DEF ModuleLevel, AtMostOne
<1> QED BY <1>1, <1>2, <1>3

(* A quote has levels exactly when every component has one. *)
LEMMA MatchedLevels ==
    ASSUME NEW info, NEW qe, NEW q, NEW ls
    PROVE  ls \in matchTCBLevels(info, qe, q) <=>
             /\ PlatformLevel(info, q) # {} /\ EnclaveLevel(qe, q) # {}
             /\ q.tee[1] > 0 => ModuleLevel(info, q) # {}
             /\ ls = PlatformLevel(info, q) \cup EnclaveLevel(qe, q)
                        \cup ModuleLevel(info, q)
<1> QED BY DEF matchTCBLevels, PlatformLevel, EnclaveLevel, ModuleLevel

(* Of up to three levels with known statuses one is the least favourable,  *)
(* and its status is the summary's.                                        *)
LEMMA SummaryIsWorst ==
    ASSUME NEW P, NEW E, NEW M, AtMostOne(P), AtMostOne(E), AtMostOne(M), P # {},
           \A l \in P \cup E \cup M : ParseTCBStatus(l.status)
    PROVE  \E w \in P \cup E \cup M :
              /\ Summary(P \cup E \cup M).TCBStatus = w.status
              /\ \A k \in P \cup E \cup M : Rank(k.status) <= Rank(w.status)
<1> DEFINE all == P \cup E \cup M
           Worst(l) == \A k \in all : Rank(k.status) <= Rank(l.status)
<1>1. \A l \in all : Rank(l.status) \in Nat
    BY RankIsNatural
<1>2. PICK p \in P : \A k \in P : k = p
    BY DEF AtMostOne
<1>3. \E a \in P \cup E : \A k \in P \cup E : Rank(k.status) <= Rank(a.status)
    <2>1. CASE E = {}
        BY <1>1, <1>2, <2>1
    <2>2. CASE E # {}
        <3>1. PICK e \in E : \A k \in E : k = e
            BY <2>2 DEF AtMostOne
        <3>2. Rank(p.status) <= Rank(e.status) \/ Rank(e.status) <= Rank(p.status)
            BY <1>1, <1>2, <3>1
        <3> QED BY <1>1, <1>2, <3>1, <3>2
    <2> QED BY <2>1, <2>2
<1>4. PICK a \in P \cup E : \A k \in P \cup E : Rank(k.status) <= Rank(a.status)
    BY <1>3
<1>5. \E l \in all : Worst(l)
    <2>1. CASE M = {}
        BY <1>4, <2>1
    <2>2. CASE M # {}
        <3>1. PICK m \in M : \A k \in M : k = m
            BY <2>2 DEF AtMostOne
        <3>2. CASE Rank(a.status) <= Rank(m.status)
            <4>1. ASSUME NEW k \in all PROVE Rank(k.status) <= Rank(m.status)
                <5>1. CASE k \in M
                    BY <1>1, <3>1, <5>1
                <5>2. CASE k \in P \cup E
                    <6>1. Rank(k.status) <= Rank(a.status)
                        BY <1>4, <5>2
                    <6> QED BY <1>1, <3>1, <3>2, <6>1
                <5> QED BY <5>1, <5>2
            <4> QED BY <3>1, <4>1
        <3>3. CASE Rank(m.status) <= Rank(a.status)
            BY <1>4, <3>1, <3>3
        <3> QED BY <1>1, <3>1, <3>2, <3>3
    <2> QED BY <2>1, <2>2
<1> DEFINE w == CHOOSE l \in all : Worst(l)
<1>6. w \in all /\ Worst(w)
    BY <1>5
<1>7. Summary(all).TCBStatus = w.status
    BY DEF Summary
<1> QED BY <1>6, <1>7

-----------------------------------------------------------------------------
(* Upgrades. *)

(* No SVN is lower, and the TDX module is the same. *)
AtLeast(r, q) ==
    /\ r.tee[1] = q.tee[1] /\ r.qe >= q.qe /\ r.pck.pce >= q.pck.pce
    /\ \A i \in DOMAIN q.tee : r.tee[i] >= q.tee[i]
    /\ Len(r.pck.cpu) = Len(q.pck.cpu)
    /\ \A i \in DOMAIN q.pck.cpu : r.pck.cpu[i] >= q.pck.cpu[i]

AllWellListed(info, qe) ==
    /\ WellListed(info.levels) /\ WellListed(qe)
    /\ \A i \in DOMAIN info.modules : WellListed(info.modules[i].levels)

(* Levels found where others were, of statuses no worse than theirs. *)
NoWorse(new, old) ==
    old # {} =>
        /\ new # {}
        /\ \A k \in new, l \in old :
              /\ Rank(k.status) <= Rank(l.status)
              /\ ParseTCBStatus(k.status) /\ ParseTCBStatus(l.status)

(* A raised QE or module SVN matches a level that is no worse. *)
LEMMA EnclaveUpgrade ==
    ASSUME NEW levels, IsEnclaveList(levels), WellListed(levels),
           NEW new \in Nat, NEW old \in Nat, new >= old
    PROVE  NoWorse(matchEnclaveLevel(levels, new), matchEnclaveLevel(levels, old))
<1> DEFINE M == {i \in DOMAIN levels : old >= levels[i].isvsvn}
           N == {i \in DOMAIN levels : new >= levels[i].isvsvn}
<1>1. M \subseteq N
    BY DEF IsEnclaveList
<1>2. Listed(levels) /\ M \in SUBSET DOMAIN levels /\ N \in SUBSET DOMAIN levels
    BY DEF IsEnclaveList
<1>3. /\ matchEnclaveLevel(levels, new) = firstLevel(levels, N)
      /\ matchEnclaveLevel(levels, old) = firstLevel(levels, M)
    BY DEF matchEnclaveLevel
<1> HIDE DEF M, N
<1> QED BY <1>1, <1>2, <1>3, MoreIsNoWorse DEF NoWorse

(* SVNs are numbers. *)
LEMMA EntryOfSequence ==
    ASSUME NEW s \in Seq(Nat), NEW j \in DOMAIN s
    PROVE  s[j] \in Nat
<1> QED OBVIOUS

(* So does a platform with SVNs raised anywhere. *)
LEMMA PlatformUpgrade ==
    ASSUME NEW info, IsInfo(info), WellListed(info.levels),
           NEW n, NEW q, IsQuote(q, n), NEW r, IsQuote(r, n), AtLeast(r, q)
    PROVE  NoWorse(PlatformLevel(info, r), PlatformLevel(info, q))
<1> DEFINE M == {i \in DOMAIN info.levels : PlatformMeets(info.levels[i], q.tee, q.pck)}
           N == {i \in DOMAIN info.levels : PlatformMeets(info.levels[i], r.tee, r.pck)}
<1>1. ASSUME NEW i \in DOMAIN info.levels, PlatformMeets(info.levels[i], q.tee, q.pck)
      PROVE  PlatformMeets(info.levels[i], r.tee, r.pck)
    <2> DEFINE l == info.levels[i]
    <2>1. /\ l.sgx \in Seq(Nat) /\ l.pce \in Nat
          /\ \A j \in DOMAIN l.tdx : l.tdx[j] \in Nat
        BY DEF IsInfo
    <2>2. /\ q.pck.cpu \in Seq(Nat) /\ r.pck.cpu \in Seq(Nat)
          /\ Len(r.pck.cpu) = Len(q.pck.cpu) /\ Len(l.sgx) = Len(q.pck.cpu)
          /\ DOMAIN r.pck.cpu = DOMAIN q.pck.cpu /\ DOMAIN l.sgx = DOMAIN q.pck.cpu
        BY <1>1, <2>1 DEF PlatformMeets, IsQuote, AtLeast
    <2>3. \A j \in DOMAIN r.pck.cpu : r.pck.cpu[j] >= l.sgx[j]
        <3>1. ASSUME NEW j \in DOMAIN r.pck.cpu PROVE r.pck.cpu[j] >= l.sgx[j]
            <4>1. r.pck.cpu[j] \in Nat /\ q.pck.cpu[j] \in Nat /\ l.sgx[j] \in Nat
                BY <2>1, <2>2, EntryOfSequence
            <4>2. r.pck.cpu[j] >= q.pck.cpu[j] /\ q.pck.cpu[j] >= l.sgx[j]
                BY <1>1, <2>2 DEF AtLeast, PlatformMeets
            <4> QED BY <4>1, <4>2
        <3> QED BY <3>1
    <2>4. r.pck.pce >= l.pce
        BY <1>1, <2>1 DEF PlatformMeets, AtLeast, IsQuote
    <2>5. DOMAIN r.tee = DOMAIN q.tee /\ DOMAIN l.tdx = DOMAIN q.tee /\ r.tee[1] = q.tee[1]
        BY <1>1 DEF PlatformMeets, AtLeast, IsQuote
    <2>6. ASSUME NEW j \in DOMAIN r.tee, j >= (IF r.tee[1] > 0 THEN 2 ELSE 0)
          PROVE  r.tee[j] >= l.tdx[j]
        <3>1. q.tee[j] >= l.tdx[j]
            BY <1>1, <2>5, <2>6 DEF PlatformMeets
        <3>2. r.tee[j] >= q.tee[j] /\ r.tee[j] \in Nat /\ q.tee[j] \in Nat /\ l.tdx[j] \in Nat
            BY <2>1, <2>5 DEF AtLeast, IsQuote
        <3> QED BY <3>1, <3>2
    <2> QED BY <2>2, <2>3, <2>4, <2>5, <2>6 DEF PlatformMeets
<1>2. /\ Listed(info.levels) /\ M \subseteq N
      /\ M \in SUBSET DOMAIN info.levels /\ N \in SUBSET DOMAIN info.levels
    BY <1>1 DEF IsInfo
<1>3. /\ PlatformLevel(info, r) = firstLevel(info.levels, N)
      /\ PlatformLevel(info, q) = firstLevel(info.levels, M)
    BY DEF PlatformLevel, matchPlatformLevel
<1> HIDE DEF M, N
<1> QED BY <1>2, <1>3, MoreIsNoWorse DEF NoWorse

(* And a module of the same version. *)
LEMMA ModuleUpgrade ==
    ASSUME NEW info, IsInfo(info), NEW qe, AllWellListed(info, qe),
           NEW n, NEW q, IsQuote(q, n), NEW r, IsQuote(r, n), AtLeast(r, q)
    PROVE  NoWorse(ModuleLevel(info, r), ModuleLevel(info, q))
<1> DEFINE own == {i \in DOMAIN info.modules : info.modules[i].version = q.tee[1]}
<1>1. /\ r.tee[1] = q.tee[1] /\ r.tee[0] >= q.tee[0]
      /\ r.tee[0] \in Nat /\ q.tee[0] \in Nat /\ q.tee[1] \in Nat
    BY DEF AtLeast, IsQuote
<1>2. CASE ~(q.tee[1] > 0)
    BY <1>2 DEF ModuleLevel, NoWorse
<1>3. CASE q.tee[1] > 0 /\ firstLevel(info.modules, own) = {}
    BY <1>3 DEF ModuleLevel, matchModuleLevel, NoWorse
<1>4. CASE q.tee[1] > 0 /\ firstLevel(info.modules, own) # {}
    <2>1. Listed(info.modules) /\ own \in SUBSET DOMAIN info.modules
        BY DEF IsInfo
    <2>2. PICK m \in firstLevel(info.modules, own) : TRUE
        BY <1>4
    <2>3. firstLevel(info.modules, own) = {m}
        <3> HIDE DEF own
        <3> QED BY <2>1, <2>2, FirstLevel
    <2>4. /\ ModuleLevel(info, r) = matchEnclaveLevel(m.levels, r.tee[0])
          /\ ModuleLevel(info, q) = matchEnclaveLevel(m.levels, q.tee[0])
        <3>1. /\ ModuleLevel(info, r) = UNION {matchEnclaveLevel(x.levels, r.tee[0]) : x \in {m}}
              /\ ModuleLevel(info, q) = UNION {matchEnclaveLevel(x.levels, q.tee[0]) : x \in {m}}
            BY <1>1, <1>4, <2>3 DEF ModuleLevel, matchModuleLevel
        <3> QED BY <3>1
    <2>5. PICK i \in DOMAIN info.modules : info.modules[i] = m
        <3> HIDE DEF own
        <3> QED BY <2>1, <2>2, FirstLevel
    <2>6. IsEnclaveList(m.levels) /\ WellListed(m.levels)
        BY <2>5 DEF IsInfo, AllWellListed
    <2> QED BY <1>1, <2>4, <2>6, EnclaveUpgrade
<1> QED BY <1>2, <1>3, <1>4

(* The summary of the upgraded platform's levels is no worse.              *)
LEMMA UpgradeRates ==
    ASSUME NEW info, IsInfo(info), NEW qe, IsEnclaveList(qe), AllWellListed(info, qe),
           NEW n, NEW q, IsQuote(q, n), NEW r, IsQuote(r, n), AtLeast(r, q),
           NEW old \in matchTCBLevels(info, qe, q)
    PROVE  \E new \in matchTCBLevels(info, qe, r) :
              Rank(Summary(new).TCBStatus) <= Rank(Summary(old).TCBStatus)
<1> DEFINE P1 == PlatformLevel(info, q)
           E1 == EnclaveLevel(qe, q)
           M1 == ModuleLevel(info, q)
           P2 == PlatformLevel(info, r)
           E2 == EnclaveLevel(qe, r)
           M2 == ModuleLevel(info, r)
<1>1. r.tee[1] = q.tee[1] /\ q.tee[1] \in Nat /\ r.qe >= q.qe /\ r.qe \in Nat /\ q.qe \in Nat
    BY DEF AtLeast, IsQuote
<1>2. NoWorse(P2, P1) /\ NoWorse(E2, E1) /\ NoWorse(M2, M1)
    BY <1>1, PlatformUpgrade, EnclaveUpgrade, ModuleUpgrade DEF AllWellListed, EnclaveLevel
<1>3. /\ P1 # {} /\ E1 # {} /\ (q.tee[1] > 0 => M1 # {})
      /\ old = P1 \cup E1 \cup M1
    BY MatchedLevels
<1>4. P2 # {} /\ E2 # {} /\ (r.tee[1] > 0 => M2 # {})
    BY <1>1, <1>2, <1>3 DEF NoWorse
<1>5. /\ AtMostOne(P1) /\ AtMostOne(E1) /\ AtMostOne(M1)
      /\ AtMostOne(P2) /\ AtMostOne(E2) /\ AtMostOne(M2)
    BY OneLevelEach
<1>6. M1 = {} => M2 = {}
    BY <1>1, <1>3 DEF ModuleLevel
<1>7. P2 \cup E2 \cup M2 \in matchTCBLevels(info, qe, r)
    BY <1>4, MatchedLevels
<1> HIDE DEF P1, E1, M1, P2, E2, M2
<1>8. /\ \A l \in P1 \cup E1 \cup M1 : ParseTCBStatus(l.status)
      /\ \A l \in P2 \cup E2 \cup M2 : ParseTCBStatus(l.status)
      /\ \A k \in P2 \cup E2 \cup M2 :
            \E l \in P1 \cup E1 \cup M1 : Rank(k.status) <= Rank(l.status)
    BY <1>2, <1>3, <1>4, <1>6 DEF NoWorse
<1>9. PICK v \in P1 \cup E1 \cup M1 :
         /\ Summary(P1 \cup E1 \cup M1).TCBStatus = v.status
         /\ \A k \in P1 \cup E1 \cup M1 : Rank(k.status) <= Rank(v.status)
    BY <1>3, <1>5, <1>8, SummaryIsWorst
<1>10. PICK w \in P2 \cup E2 \cup M2 : Summary(P2 \cup E2 \cup M2).TCBStatus = w.status
    BY <1>4, <1>5, <1>8, SummaryIsWorst
<1>11. PICK l \in P1 \cup E1 \cup M1 : Rank(w.status) <= Rank(l.status)
    BY <1>8, <1>10
<1>12. Rank(w.status) \in Nat /\ Rank(l.status) \in Nat /\ Rank(v.status) \in Nat
    BY <1>8, <1>9, <1>10, <1>11, RankIsNatural
<1>13. Rank(w.status) <= Rank(v.status)
    BY <1>9, <1>11, <1>12
<1> QED BY <1>3, <1>7, <1>9, <1>10, <1>13

-----------------------------------------------------------------------------
(* What the operators of tcbstatus.go find is what the collateral says. *)

Statuses(levels) == {l.status : l \in levels}

(* firstLevel picks the entry that no other one precedes. *)
LEMMA FirstIsBest ==
    ASSUME NEW levels, Listed(levels), NEW M \in SUBSET DOMAIN levels, NEW x
    PROVE  x \in firstLevel(levels, M) <=>
             \E i \in DOMAIN levels :
                levels[i] = x /\ i \in M /\ \A j \in 1..(i - 1) : j \notin M
<1>1. Len(levels) \in Nat /\ DOMAIN levels = 1..Len(levels)
    BY ListedDomain
<1>2. ASSUME NEW i \in M, \A j \in M : i <= j PROVE \A j \in 1..(i - 1) : j \notin M
    BY <1>1, <1>2
<1>3. ASSUME NEW i \in M, \A j \in 1..(i - 1) : j \notin M PROVE \A j \in M : i <= j
    BY <1>1, <1>3
<1> QED BY <1>2, <1>3 DEF firstLevel

(* No SVN below the level's, as Intel reads it. *)
NoneBelow(l, q) ==
    /\ DOMAIN l.sgx = DOMAIN q.pck.cpu /\ DOMAIN l.tdx = DOMAIN q.tee
    /\ ~(q.pck.pce < l.pce)
    /\ ~(\E i \in DOMAIN l.sgx : q.pck.cpu[i] < l.sgx[i])
    /\ ~(\E i \in (IF q.tee[1] = 0 THEN DOMAIN q.tee ELSE DOMAIN q.tee \ {0, 1}) :
             q.tee[i] < l.tdx[i])

(* The loops of matchPlatformLevel compare the SVNs that Intel rates. *)
LEMMA MeetsIsNoneBelow ==
    ASSUME NEW l, l.sgx \in Seq(Nat), l.pce \in Nat, \A j \in DOMAIN l.tdx : l.tdx[j] \in Nat,
           NEW q, NEW n, IsQuote(q, n)
    PROVE  PlatformMeets(l, q.tee, q.pck) <=> NoneBelow(l, q)
<1> DEFINE rated == IF q.tee[1] = 0 THEN DOMAIN q.tee ELSE DOMAIN q.tee \ {0, 1}
<1>1. /\ q.pck.cpu \in Seq(Nat) /\ q.pck.pce \in Nat /\ n \in 1..15
      /\ q.tee \in [0..n -> Nat] /\ q.tee[1] \in Nat
    BY DEF IsQuote
<1>2. Len(l.sgx) = Len(q.pck.cpu) <=> DOMAIN l.sgx = DOMAIN q.pck.cpu
    <2>1. \A s \in Seq(Nat) : Len(s) \in Nat /\ DOMAIN s = 1..Len(s)
        OBVIOUS
    <2>2. \A a, b \in Nat : 1..a = 1..b => a = b
        <3>1. ASSUME NEW a \in Nat, NEW b \in Nat, 1..a = 1..b PROVE a = b
            <4>1. a \in 1..a \/ a = 0
                OBVIOUS
            <4>2. b \in 1..b \/ b = 0
                OBVIOUS
            <4> QED BY <3>1, <4>1, <4>2
        <3> QED BY <3>1
    <2> QED BY <1>1, <2>1, <2>2
<1>3. ASSUME DOMAIN l.sgx = DOMAIN q.pck.cpu
      PROVE  (\A i \in DOMAIN q.pck.cpu : q.pck.cpu[i] >= l.sgx[i])
               <=> ~(\E i \in DOMAIN l.sgx : q.pck.cpu[i] < l.sgx[i])
    <2>1. \A i \in DOMAIN l.sgx : q.pck.cpu[i] \in Nat /\ l.sgx[i] \in Nat
        BY <1>1, <1>3, EntryOfSequence
    <2>2. \A i \in DOMAIN l.sgx : q.pck.cpu[i] >= l.sgx[i] <=> ~(q.pck.cpu[i] < l.sgx[i])
        BY <2>1
    <2> QED BY <1>3, <2>2
<1>4. q.pck.pce >= l.pce <=> ~(q.pck.pce < l.pce)
    BY <1>1
<1>5. ASSUME DOMAIN l.tdx = DOMAIN q.tee
      PROVE  (\A i \in DOMAIN q.tee :
                 i >= (IF q.tee[1] > 0 THEN 2 ELSE 0) => q.tee[i] >= l.tdx[i])
               <=> ~(\E i \in rated : q.tee[i] < l.tdx[i])
    <2>1. \A i \in DOMAIN q.tee : i \in Nat /\ q.tee[i] \in Nat /\ l.tdx[i] \in Nat
        BY <1>1, <1>5
    <2>2. \A i \in DOMAIN q.tee : q.tee[i] >= l.tdx[i] <=> ~(q.tee[i] < l.tdx[i])
        BY <2>1
    <2>3. \A i \in DOMAIN q.tee : i >= (IF q.tee[1] > 0 THEN 2 ELSE 0) <=> i \in rated
        <3>1. CASE q.tee[1] = 0
            BY <2>1, <3>1
        <3>2. CASE q.tee[1] > 0
            <4>1. rated = DOMAIN q.tee \ {0, 1}
                BY <3>2
            <4> HIDE DEF rated
            <4>2. \A i \in DOMAIN q.tee : i >= 2 <=> i # 0 /\ i # 1
                BY <2>1
            <4> QED BY <3>2, <4>1, <4>2
        <3> QED BY <1>1, <3>1, <3>2
    <2>4. rated \subseteq DOMAIN q.tee
        OBVIOUS
    <2> HIDE DEF rated
    <2> QED BY <2>2, <2>3, <2>4
<1> QED BY <1>2, <1>3, <1>4, <1>5 DEF PlatformMeets, NoneBelow

(* The platform's level is the one Intel's list gives it. *)
LEMMA PlatformRating ==
    ASSUME NEW info, IsInfo(info), NEW qe, NEW n, IsQuote(quote, n)
    PROVE  TrueStatuses(info, qe).platform = Statuses(PlatformLevel(info, quote))
<1> DEFINE levels == info.levels
           Platform(l) == NoneBelow(l, quote)
           M == {i \in DOMAIN levels : PlatformMeets(levels[i], quote.tee, quote.pck)}
<1>1. TrueStatuses(info, qe).platform =
        {l.status : l \in {x \in {levels[i] : i \in DOMAIN levels} :
                              Best(levels, Platform, x)}}
    BY DEF TrueStatuses, NoneBelow
<1>2. ASSUME NEW x
      PROVE  x \in firstLevel(levels, M)
               <=> x \in {levels[i] : i \in DOMAIN levels} /\ Best(levels, Platform, x)
    <2>1. Listed(levels) /\ M \in SUBSET DOMAIN levels
        BY DEF IsInfo
    <2>2. Len(levels) \in Nat /\ DOMAIN levels = 1..Len(levels)
        BY <2>1, ListedDomain
    <2>3. \A i \in DOMAIN levels : \A j \in 1..(i - 1) : j \in DOMAIN levels
        BY <2>2
    <2>4. \A i \in DOMAIN levels : i \in M <=> Platform(levels[i])
        BY MeetsIsNoneBelow DEF IsInfo
    <2>5. Best(levels, Platform, x) <=>
            \E i \in DOMAIN levels : /\ levels[i] = x /\ i \in M
                                     /\ \A j \in 1..(i - 1) : j \notin M
        <3> HIDE DEF M
        <3> QED BY <2>3, <2>4 DEF Best
    <2>6. x \in firstLevel(levels, M) <=>
            \E i \in DOMAIN levels : /\ levels[i] = x /\ i \in M
                                     /\ \A j \in 1..(i - 1) : j \notin M
        <3> HIDE DEF M
        <3> QED BY <2>1, FirstIsBest
    <2> QED BY <2>5, <2>6
<1>3. PlatformLevel(info, quote) = firstLevel(levels, M)
    BY DEF PlatformLevel, matchPlatformLevel
<1> HIDE DEF M
<1> QED BY <1>1, <1>2, <1>3 DEF Statuses

(* matchEnclaveLevel finds the first level the SVN meets. *)
LEMMA EnclaveBest ==
    ASSUME NEW levels, Listed(levels), NEW svn, NEW x
    PROVE  x \in matchEnclaveLevel(levels, svn) <=>
             \E i \in DOMAIN levels :
                /\ levels[i] = x /\ svn >= x.isvsvn
                /\ \A j \in 1..(i - 1) : ~(svn >= levels[j].isvsvn)
<1> DEFINE M == {i \in DOMAIN levels : svn >= levels[i].isvsvn}
<1>1. Len(levels) \in Nat /\ DOMAIN levels = 1..Len(levels)
    BY ListedDomain
<1>2. \A i \in DOMAIN levels : \A j \in 1..(i - 1) : j \in DOMAIN levels
    BY <1>1
<1>3. matchEnclaveLevel(levels, svn) = firstLevel(levels, M)
    BY DEF matchEnclaveLevel
<1>4. \A i \in DOMAIN levels : i \in M <=> svn >= levels[i].isvsvn
    OBVIOUS
<1>5. x \in firstLevel(levels, M) <=>
        \E i \in DOMAIN levels : /\ levels[i] = x /\ i \in M
                                 /\ \A j \in 1..(i - 1) : j \notin M
    <2>1. M \in SUBSET DOMAIN levels
        OBVIOUS
    <2> HIDE DEF M
    <2> QED BY <2>1, FirstIsBest
<1> HIDE DEF M
<1> QED BY <1>2, <1>3, <1>4, <1>5

(* The QE's level is the one Intel's list gives it. *)
LEMMA EnclaveRating ==
    ASSUME NEW info, NEW qe, IsEnclaveList(qe)
    PROVE  TrueStatuses(info, qe).enclave = Statuses(EnclaveLevel(qe, quote))
<1> DEFINE Enclave(l) == quote.qe >= l.isvsvn
<1>1. TrueStatuses(info, qe).enclave =
        {l.status : l \in {x \in {qe[i] : i \in DOMAIN qe} : Best(qe, Enclave, x)}}
    BY DEF TrueStatuses
<1>2. ASSUME NEW x
      PROVE  x \in EnclaveLevel(qe, quote)
               <=> x \in {qe[i] : i \in DOMAIN qe} /\ Best(qe, Enclave, x)
    BY EnclaveBest DEF Best, IsEnclaveList, EnclaveLevel
<1> QED BY <1>1, <1>2 DEF Statuses

(* The module's level is the one of its version's own list. *)
LEMMA ModuleRating ==
    ASSUME NEW info, IsInfo(info), NEW qe, quote.tee[1] \in Nat
    PROVE  TrueStatuses(info, qe).module = Statuses(ModuleLevel(info, quote))
<1> DEFINE modules == info.modules
           Module(l) == quote.tee[0] >= l.isvsvn
           Own(m) == m.version = quote.tee[1]
           own == {i \in DOMAIN modules : modules[i].version = quote.tee[1]}
           Rated(levels) ==
               {l.status : l \in {x \in {levels[i] : i \in DOMAIN levels} :
                                     Best(levels, Module, x)}}
           Chosen == {x \in {modules[i] : i \in DOMAIN modules} : Best(modules, Own, x)}
<1>1. TrueStatuses(info, qe).module =
        IF quote.tee[1] = 0 THEN {} ELSE UNION {Rated(m.levels) : m \in Chosen}
    BY DEF TrueStatuses
<1>2. CASE quote.tee[1] = 0
    BY <1>1, <1>2 DEF ModuleLevel, Statuses
<1>3. CASE quote.tee[1] > 0
    <2>1. Listed(modules) /\ own \in SUBSET DOMAIN modules
        BY DEF IsInfo
    <2>2. ASSUME NEW m PROVE m \in firstLevel(modules, own) <=> m \in Chosen
        <3>1. Len(modules) \in Nat /\ DOMAIN modules = 1..Len(modules)
            BY <2>1, ListedDomain
        <3>2. \A i \in DOMAIN modules : \A j \in 1..(i - 1) : j \in DOMAIN modules
            BY <3>1
        <3>3. \A i \in DOMAIN modules : i \in own <=> Own(modules[i])
            OBVIOUS
        <3>4. m \in firstLevel(modules, own) <=>
                \E i \in DOMAIN modules : /\ modules[i] = m /\ i \in own
                                          /\ \A j \in 1..(i - 1) : j \notin own
            <4> HIDE DEF own
            <4> QED BY <2>1, FirstIsBest
        <3>5. Best(modules, Own, m) <=>
                \E i \in DOMAIN modules : /\ modules[i] = m /\ i \in own
                                          /\ \A j \in 1..(i - 1) : j \notin own
            BY <3>2, <3>3 DEF Best
        <3> QED BY <3>4, <3>5
    <2>3. ASSUME NEW m \in Chosen
          PROVE  Rated(m.levels) = Statuses(matchEnclaveLevel(m.levels, quote.tee[0]))
        <3>1. Listed(m.levels)
            BY DEF IsInfo, IsEnclaveList
        <3>2. ASSUME NEW x
              PROVE  x \in matchEnclaveLevel(m.levels, quote.tee[0])
                       <=> /\ x \in {m.levels[i] : i \in DOMAIN m.levels}
                           /\ Best(m.levels, Module, x)
            BY <3>1, EnclaveBest DEF Best
        <3> QED BY <3>2 DEF Statuses
    <2>4. ModuleLevel(info, quote) =
            UNION {matchEnclaveLevel(m.levels, quote.tee[0]) : m \in Chosen}
        <3>1. firstLevel(modules, own) = Chosen
            BY <2>2
        <3> HIDE DEF Chosen
        <3> QED BY <1>3, <3>1 DEF ModuleLevel, matchModuleLevel
    <2>5. UNION {Rated(m.levels) : m \in Chosen} =
            Statuses(UNION {matchEnclaveLevel(m.levels, quote.tee[0]) : m \in Chosen})
        <3> HIDE DEF Chosen, Rated
        <3> QED BY <2>3 DEF Statuses
    <2>6. quote.tee[1] # 0
        BY <1>3
    <2> HIDE DEF Chosen, Rated
    <2> QED BY <1>1, <2>4, <2>5, <2>6
<1> QED BY <1>2, <1>3

-----------------------------------------------------------------------------
(* What the verification has established when it gets where it is. *)

(* The arguments are those of one call. *)
Called ==
    \E c \in Calls : /\ quote \in c.quotes /\ ccel \in c.logs
                     /\ params \in c.params /\ opts \in c.options

(* Documents come from the network, and only where collateral is asked for. *)
Fetched ==
    /\ opts.GetCollateral =>
          DOMAIN served = URLs /\ \A u \in URLs : served[u] \in Bodies[u]
    /\ DOMAIN bodies = URLs
    /\ \A u \in URLs :
          bodies[u] # None => opts.GetCollateral /\ bodies[u] \in Bodies[u]

(* The documents that will be read are the ones whose signature was        *)
(* checked.                                                                *)
Trusted ==
    /\ checkAcceptedTCBStatuses(opts)
    /\ opts.GetCollateral => \A u \in URLs : bodies[u] # None
    /\ LibraryAccepts

(* The result is what they say of this quote, and the fields match. *)
Evaluated ==
    /\ validateOptions(params) /\ FieldsMatch(quote, params)
    /\ res.CollateralVerified = opts.GetCollateral
    /\ Recording => TCBStatus # {} /\ res.TCBStatus = CHOOSE s \in TCBStatus : TRUE

(* The log's events fold to the registers, and the result says so. *)
Replayed ==
    LET match == VerifyCCELAgainstRTMRs(ccel, Registers(quote))
    IN  /\ ccel # None /\ match # {}
        /\ res.RTMR3ReplayMatch = CHOOSE m \in match : TRUE

Established ==
    /\ Called /\ Fetched
    /\ pc = "fetching" => checkAcceptedTCBStatuses(opts)
    /\ pc \in {"signed", "valid"} \/ Accepted => Trusted
    /\ pc = "valid" => Evaluated /\ res \in Results /\ res.EventlogVerified = None
    /\ Accepted => Evaluated /\ (res.EventlogVerified = TRUE => Replayed)

(* Before the call nothing is established but where things come from. *)
LEMMA StartsEstablished == Init => Established
<1> SUFFICES ASSUME Init PROVE Established
    OBVIOUS
<1>1. Called
    BY DEF Init, Called
<1>2. Fetched
    <2>1. ASSUME opts.GetCollateral
          PROVE  DOMAIN served = URLs /\ \A u \in URLs : served[u] \in Bodies[u]
        <3>1. PICK info \in Bodies["tcbinfo"], id \in Bodies["qe"] :
                 served = [tcbinfo |-> info, qe |-> id]
            BY <2>1 DEF Init
        <3> QED BY <3>1 DEF URLs
    <2>2. DOMAIN bodies = URLs /\ \A u \in URLs : bodies[u] = None
        BY DEF Init
    <2> QED BY <2>1, <2>2 DEF Fetched
<1> QED BY <1>1, <1>2 DEF Init, Established, Accepted

(* What is established about the arguments and the documents lasts as long *)
(* as they do.                                                             *)
LEMMA ArgumentsDecide ==
    ASSUME UNCHANGED arguments
    PROVE  /\ Called' <=> Called
           /\ checkAcceptedTCBStatuses(opts)' <=> checkAcceptedTCBStatuses(opts)
<1> QED BY DEF arguments, Called, checkAcceptedTCBStatuses

(* Whether the signature check passes depends on what was fetched. *)
LEMMA DocumentsDecide ==
    ASSUME UNCHANGED <<arguments, bodies>>
    PROVE  Trusted' <=> Trusted
<1>1. LibraryAccepts' <=> LibraryAccepts
    BY DEF arguments, LibraryAccepts, Recording
<1> QED BY <1>1, ArgumentsDecide DEF arguments, Trusted

(* Nothing else that changes disturbs what a result says. *)
LEMMA ResultStays ==
    ASSUME UNCHANGED <<arguments, bodies, res>>
    PROVE  (Evaluated' <=> Evaluated) /\ (Replayed' <=> Replayed)
<1>1. TCBStatus' = TCBStatus
    BY DEF arguments, TCBStatus, body
<1>2. Evaluated' <=> Evaluated
    BY <1>1 DEF arguments, Evaluated, Recording, validateOptions, FieldsMatch
<1>3. Replayed' <=> Replayed
    BY DEF arguments, Replayed, Registers
<1> QED BY <1>2, <1>3

(* What the fetched documents say of the quote is a rating. *)
LEMMA StatusIsRating ==
    ASSUME Called, Fetched
    PROVE  TCBStatus \subseteq Ratings
<1> SUFFICES ASSUME NEW s \in TCBStatus PROVE s \in Ratings
    OBVIOUS
<1>1. PICK info \in body("tcbinfo"), qe \in body("qe") :
         s \in evaluateTCBStatus(info, qe, quote, opts.AcceptedTCBStatuses)
    BY DEF TCBStatus
<1>2. PICK b \in Bodies["tcbinfo"] : info = b.doc
    BY <1>1 DEF body, Fetched, URLs
<1>3. PICK c \in Bodies["qe"] : qe = c.doc
    BY <1>1 DEF body, Fetched, URLs
<1>4. quote \in Quotes
    BY DEF Called, Quotes
<1>5. PICK ls \in matchTCBLevels(info, qe, quote) : s = Summary(ls)
    BY <1>1 DEF evaluateTCBStatus
<1> QED BY <1>2, <1>3, <1>4, <1>5 DEF Ratings

(* One step of the verification, or one change of what the network serves. *)
LEMMA StepEstablishes == Established /\ [Next]_vars => Established'
<1> SUFFICES ASSUME Established, [Next]_vars PROVE Established'
    OBVIOUS
<1>0. UNCHANGED arguments
    BY DEF Next, vars, arguments, Parse, Serve, Fetch, FetchFails, VerifySignature, Validate,
           ReplayLog, Returned
<1>1. Called' /\ (checkAcceptedTCBStatuses(opts)' <=> checkAcceptedTCBStatuses(opts))
    BY <1>0, ArgumentsDecide DEF Established
<1>2. CASE UNCHANGED vars
    <2>1. UNCHANGED <<arguments, bodies, res>> /\ pc' = pc /\ served' = served
        BY <1>2 DEF vars
    <2>2. Fetched' /\ (Accepted' <=> Accepted)
        BY <2>1 DEF Established, Fetched, arguments, Accepted
    <2> QED BY <1>1, <2>1, <2>2, DocumentsDecide, ResultStays DEF Established
<1>3. CASE Parse
    <2>1. Fetched' /\ pc' \in {"fetching", "done"} /\ ~Accepted'
        BY <1>3 DEF Parse, Fail, Established, Fetched, arguments, Accepted
    <2>2. pc' = "fetching" => checkAcceptedTCBStatuses(opts)
        BY <1>3 DEF Parse, Fail
    <2> QED BY <1>1, <2>1, <2>2 DEF Established
<1>4. CASE Serve
    <2>1. UNCHANGED <<arguments, bodies, res>> /\ pc' = pc /\ (Accepted' <=> Accepted)
        BY <1>4 DEF Serve, Accepted
    <2>2. Fetched'
        BY <1>4 DEF Serve, Established, Fetched, arguments
    <2> QED BY <1>1, <2>1, <2>2, DocumentsDecide, ResultStays DEF Established
<1>5. ASSUME NEW url \in URLs, Fetch(url) PROVE Established'
    <2>1. pc = "fetching" /\ pc' = "fetching" /\ ~Accepted'
        BY <1>5 DEF Fetch, Accepted
    <2>2. Fetched'
        BY <1>5 DEF Fetch, Established, Fetched, arguments
    <2> QED BY <1>1, <2>1, <2>2 DEF Established
<1>6. CASE FetchFails
    <2>1. Fetched' /\ pc' = "done" /\ ~Accepted'
        BY <1>6 DEF FetchFails, Fail, Established, Fetched, arguments, Accepted
    <2> QED BY <1>1, <2>1 DEF Established
<1>7. CASE VerifySignature
    <2>1. Fetched' /\ pc' \in {"signed", "done"} /\ ~Accepted'
        BY <1>7 DEF VerifySignature, Fail, Established, Fetched, arguments, Accepted
    <2>2. pc' = "signed" => Trusted
        BY <1>7 DEF VerifySignature, Fail, Established, Trusted
    <2>3. UNCHANGED <<arguments, bodies>>
        BY <1>7 DEF VerifySignature
    <2> QED BY <1>1, <2>1, <2>2, <2>3, DocumentsDecide DEF Established
<1>8. CASE Validate
    <2>1. UNCHANGED <<arguments, bodies>> /\ pc = "signed" /\ Trusted
        BY <1>8 DEF Validate, Established
    <2>2. Fetched' /\ pc' \in {"valid", "done"} /\ ~Accepted'
        BY <1>8 DEF Validate, Fail, Established, Fetched, arguments, Accepted
    <2>3. TCBStatus' = TCBStatus /\ (Recording' <=> Recording)
        BY <2>1 DEF arguments, TCBStatus, body, Recording
    <2>4. ASSUME pc' = "valid"
          PROVE  Evaluated' /\ res' \in Results /\ res'.EventlogVerified = None
        <3>1. /\ validateOptions(params) /\ FieldsMatch(quote, params)
              /\ Recording => TCBStatus # {}
              /\ res' = [CollateralVerified |-> opts.GetCollateral,
                         TCBStatus |-> IF Recording THEN CHOOSE s \in TCBStatus : TRUE
                                                    ELSE None,
                         EventlogVerified |-> None, RTMR3ReplayMatch |-> None]
            BY <1>8, <2>4 DEF Validate, Fail
        <3>2. /\ validateOptions(params)' <=> validateOptions(params)
              /\ FieldsMatch(quote, params)' <=> FieldsMatch(quote, params)
              /\ opts' = opts
            BY <2>1 DEF arguments, validateOptions, FieldsMatch
        <3>3. Evaluated'
            BY <2>3, <3>1, <3>2 DEF Evaluated
        <3>4. opts.GetCollateral \in BOOLEAN
            BY OptionsAssumption DEF Established, Called
        <3>5. Recording => (CHOOSE s \in TCBStatus : TRUE) \in Ratings
            BY <3>1, StatusIsRating DEF Established
        <3> QED BY <3>1, <3>3, <3>4, <3>5 DEF Results
    <2>5. Trusted'
        BY <2>1, DocumentsDecide
    <2> QED BY <1>1, <2>2, <2>4, <2>5 DEF Established
<1>9. CASE ReplayLog
    <2>1. UNCHANGED <<arguments, bodies>> /\ pc = "valid" /\ Trusted /\ Evaluated
        BY <1>9 DEF ReplayLog, Established
    <2>2. Fetched' /\ pc' = "done"
        BY <1>9 DEF ReplayLog, Fail, Established, Fetched, arguments, Accepted
    <2>3. Trusted'
        BY <2>1, DocumentsDecide
    <2>4. CASE ccel = None
        <3>1. UNCHANGED res /\ res.EventlogVerified # TRUE
            BY <1>9, <2>4, NoneIsNoVerdict DEF ReplayLog, Established
        <3> QED BY <1>1, <2>1, <2>2, <2>3, <3>1, ResultStays DEF Established
    <2>5. CASE ccel # None
        <3> DEFINE match == VerifyCCELAgainstRTMRs(ccel, Registers(quote))
        <3>1. CASE match = {}
            <4>1. ~Accepted'
                BY <1>9, <2>5, <3>1 DEF ReplayLog, Fail, Accepted
            <4> QED BY <1>1, <2>2, <4>1 DEF Established
        <3>2. CASE match # {}
            <4>1. res' = [res EXCEPT !.EventlogVerified = TRUE,
                                     !.RTMR3ReplayMatch = CHOOSE m \in match : TRUE]
                BY <1>9, <2>5, <3>2 DEF ReplayLog
            <4>2. DOMAIN res = {"CollateralVerified", "TCBStatus", "EventlogVerified",
                                "RTMR3ReplayMatch"}
                BY <2>1 DEF Established, Results
            <4> HIDE DEF match
            <4>3. /\ res'.CollateralVerified = res.CollateralVerified
                  /\ res'.TCBStatus = res.TCBStatus
                  /\ res'.RTMR3ReplayMatch = CHOOSE m \in match : TRUE
                BY <4>1, <4>2
            <4>4. match' = match
                BY <2>1 DEF match, arguments, Registers
            <4>5. Replayed'
                <5>1. ccel' # None
                    BY <2>1, <2>5 DEF arguments
                <5> QED BY <3>2, <4>3, <4>4, <5>1 DEF match, Replayed
            <4>6. Evaluated'
                <5>1. TCBStatus' = TCBStatus /\ (Recording' <=> Recording)
                    BY <2>1 DEF arguments, TCBStatus, body, Recording
                <5>2. /\ validateOptions(params)' <=> validateOptions(params)
                      /\ FieldsMatch(quote, params)' <=> FieldsMatch(quote, params)
                      /\ opts' = opts
                    BY <2>1 DEF arguments, validateOptions, FieldsMatch
                <5> QED BY <2>1, <4>3, <5>1, <5>2 DEF Evaluated
            <4> QED BY <1>1, <2>2, <2>3, <4>5, <4>6 DEF Established
        <3> QED BY <3>1, <3>2
    <2> QED BY <2>4, <2>5
<1>10. CASE Returned
    BY <1>2, <1>10 DEF Returned
<1> QED BY <1>2, <1>3, <1>4, <1>5, <1>6, <1>7, <1>8, <1>9, <1>10 DEF Next

(* Every step of VerifyEvidence starts from what the ones before it have   *)
(* made sure of, whatever the network serves meanwhile.                    *)
THEOREM AlwaysEstablished == Spec => []Established
<1> QED BY StartsEstablished, StepEstablishes, PTL DEF Spec

-----------------------------------------------------------------------------
(* What that means for an accepted quote. *)

LEMMA DocumentsParse ==
    /\ \A b \in Bodies["tcbinfo"] : IsInfo(b.doc)
    /\ \A b \in Bodies["qe"] : IsEnclaveList(b.doc)
<1>1. ASSUME NEW b \in Bodies["tcbinfo"] PROVE IsInfo(b.doc)
    <2>1. /\ Listed(b.doc.levels) /\ Listed(b.doc.modules)
          /\ \A i \in DOMAIN b.doc.levels :
                /\ b.doc.levels[i].sgx \in Seq(Nat) /\ b.doc.levels[i].pce \in Nat
                /\ \A j \in DOMAIN b.doc.levels[i].tdx : b.doc.levels[i].tdx[j] \in Nat
        BY BodiesAssumption
    <2>2. \A i \in DOMAIN b.doc.modules : IsEnclaveList(b.doc.modules[i].levels)
        BY BodiesAssumption DEF IsEnclaveList
    <2> QED BY <2>1, <2>2 DEF IsInfo
<1>2. \A b \in Bodies["qe"] : IsEnclaveList(b.doc)
    BY BodiesAssumption DEF IsEnclaveList
<1> QED BY <1>1, <1>2

(* Every quote has an SVN for each PCK entry. *)
LEMMA QuotesHaveOneSize == \E n : \A q \in Quotes : IsQuote(q, n)
<1> QED BY QuotesAssumption DEF IsQuote

(* An evaluation that yields a result: the three components are rated, all *)
(* acceptably, and the result is the worst of them.                        *)
LEMMA EvaluationHolds ==
    ASSUME NEW info, IsInfo(info), NEW qe, IsEnclaveList(qe), NEW n, IsQuote(quote, n),
           NEW accepted, evaluateTCBStatus(info, qe, quote, accepted) # {}
    PROVE  LET s == TrueStatuses(info, qe)
               all == s.platform \cup s.module \cup s.enclave
               r == CHOOSE x \in evaluateTCBStatus(info, qe, quote, accepted) : TRUE
           IN  /\ s.platform # {} /\ s.enclave # {}
               /\ quote.tee[1] > 0 => s.module # {}
               /\ all \subseteq accepted
               /\ (\A x \in accepted : ParseTCBStatus(x)) =>
                     /\ r.TCBStatus \in all
                     /\ \A x \in all : Rank(x) <= Rank(r.TCBStatus)
<1> DEFINE s == TrueStatuses(info, qe)
           all == s.platform \cup s.module \cup s.enclave
           E == evaluateTCBStatus(info, qe, quote, accepted)
           r == CHOOSE x \in E : TRUE
<1>1. PICK ls \in matchTCBLevels(info, qe, quote) : \A l \in ls : l.status \in accepted
    BY DEF evaluateTCBStatus
<1> DEFINE P == PlatformLevel(info, quote)
           Q == EnclaveLevel(qe, quote)
           M == ModuleLevel(info, quote)
<1>2. /\ P # {} /\ Q # {} /\ (quote.tee[1] > 0 => M # {})
      /\ ls = P \cup Q \cup M
      /\ matchTCBLevels(info, qe, quote) = {ls}
    <2>1. P # {} /\ Q # {} /\ (quote.tee[1] > 0 => M # {}) /\ ls = P \cup Q \cup M
        BY MatchedLevels
    <2>2. \A x \in matchTCBLevels(info, qe, quote) : x = ls
        BY <2>1, MatchedLevels
    <2> QED BY <2>1, <2>2
<1>3. AtMostOne(P) /\ AtMostOne(Q) /\ AtMostOne(M)
    BY OneLevelEach
<1>4. quote.tee[1] \in Nat
    BY DEF IsQuote
<1>5. s.platform = Statuses(P) /\ s.enclave = Statuses(Q) /\ s.module = Statuses(M)
    BY <1>4, PlatformRating, EnclaveRating, ModuleRating
<1> HIDE DEF s, P, Q, M
<1>6. all = Statuses(ls)
    BY <1>2, <1>5 DEF Statuses
<1>7. s.platform # {} /\ s.enclave # {} /\ (quote.tee[1] > 0 => s.module # {})
    BY <1>2, <1>5 DEF Statuses
<1>8. all \subseteq accepted
    BY <1>1, <1>6 DEF Statuses
<1>9. r = Summary(ls)
    <2>1. E = {Summary(ls)}
        BY <1>1, <1>2 DEF evaluateTCBStatus
    <2> QED BY <2>1
<1>10. ASSUME \A x \in accepted : ParseTCBStatus(x)
       PROVE  r.TCBStatus \in all /\ \A x \in all : Rank(x) <= Rank(r.TCBStatus)
    <2>1. \A l \in P \cup Q \cup M : ParseTCBStatus(l.status)
        BY <1>1, <1>2, <1>10
    <2>2. PICK w \in P \cup Q \cup M :
             /\ Summary(P \cup Q \cup M).TCBStatus = w.status
             /\ \A k \in P \cup Q \cup M : Rank(k.status) <= Rank(w.status)
        BY <1>2, <1>3, <2>1, SummaryIsWorst
    <2>3. r.TCBStatus = w.status
        BY <1>2, <1>9, <2>2
    <2>4. ASSUME NEW x \in all PROVE Rank(x) <= Rank(w.status)
        <3>1. PICK k \in ls : k.status = x
            BY <1>6 DEF Statuses
        <3> QED BY <1>2, <2>2, <3>1
    <2>5. w.status \in all
        BY <1>2, <1>6, <2>2 DEF Statuses
    <2> QED BY <2>3, <2>4, <2>5
<1> HIDE DEF r
<1>11. /\ s.platform # {} /\ s.enclave # {}
       /\ quote.tee[1] > 0 => s.module # {}
       /\ all \subseteq accepted
       /\ (\A x \in accepted : ParseTCBStatus(x)) =>
             /\ r.TCBStatus \in all
             /\ \A x \in all : Rank(x) <= Rank(r.TCBStatus)
    BY <1>7, <1>8, <1>10
<1> QED BY <1>11 DEF s, r

(* Collateral counted as verified rates every component as accepted, for   *)
(* any lists Intel may sign and any order of fetches (evaluateTCBStatus,   *)
(* collateralRecorder).                                                    *)
THEOREM TCBHolds == Spec => []AcceptedTCBHolds
<1>1. Established => AcceptedTCBHolds
    <2> SUFFICES ASSUME Established, Accepted, res.CollateralVerified
                 PROVE  \E info \in Signed("tcbinfo"), qe \in Signed("qe") :
                           LET s == TrueStatuses(info, qe)
                               all == s.platform \cup s.module \cup s.enclave
                           IN  /\ s.platform # {} /\ s.enclave # {}
                               /\ quote.tee[1] > 0 => s.module # {}
                               /\ all \subseteq Allowed \ {"Revoked"}
                               /\ Recording =>
                                     /\ res.TCBStatus.TCBStatus \in all
                                     /\ \A x \in all : Rank(x) <= Rank(res.TCBStatus.TCBStatus)
        BY DEF AcceptedTCBHolds
    <2> DEFINE info == bodies["tcbinfo"].doc
               qe == bodies["qe"].doc
               evaluated == evaluateTCBStatus(info, qe, quote, Allowed)
    <2>1. Trusted /\ Evaluated /\ opts.GetCollateral /\ Fetched /\ Called
        BY DEF Established, Evaluated
    <2>2. \A u \in URLs : bodies[u] # None /\ bodies[u] \in Bodies[u] /\ bodies[u].signed
        BY <2>1 DEF Trusted, Fetched, LibraryAccepts
    <2>3. info \in Signed("tcbinfo") /\ qe \in Signed("qe")
        BY <2>2 DEF Signed, URLs
    <2>4. IsInfo(info) /\ IsEnclaveList(qe)
        BY <2>2, DocumentsParse DEF URLs
    <2>5. PICK n : IsQuote(quote, n)
        BY <2>1, QuotesHaveOneSize DEF Called, Quotes
    <2>6. /\ "Revoked" \notin Allowed
          /\ \A x \in Allowed : ParseTCBStatus(x)
        <3>1. CASE Recording
            BY <2>1, <3>1 DEF Trusted, checkAcceptedTCBStatuses, Allowed, Recording
        <3>2. CASE ~Recording
            BY <3>2 DEF Allowed, ParseTCBStatus, tcbStatusOrder
        <3> QED BY <3>1, <3>2
    <2>7. Recording => TCBStatus = evaluated
        <3>1. body("tcbinfo") = {info} /\ body("qe") = {qe}
            BY <2>2 DEF body, URLs
        <3>2. TCBStatus = evaluateTCBStatus(info, qe, quote, opts.AcceptedTCBStatuses)
            BY <3>1 DEF TCBStatus
        <3> QED BY <3>2 DEF Allowed
    <2>8. evaluated # {}
        <3>1. CASE Recording
            BY <2>1, <2>7, <3>1 DEF Evaluated
        <3>2. CASE ~Recording
            BY <2>1, <3>2 DEF Trusted, LibraryAccepts, AllUpToDate, Allowed
        <3> QED BY <3>1, <3>2
    <2>9. Recording => res.TCBStatus = CHOOSE x \in evaluated : TRUE
        BY <2>1, <2>7 DEF Evaluated
    <2> HIDE DEF info, qe
    <2>10. LET s == TrueStatuses(info, qe)
               all == s.platform \cup s.module \cup s.enclave
               r == CHOOSE x \in evaluated : TRUE
           IN  /\ s.platform # {} /\ s.enclave # {}
               /\ quote.tee[1] > 0 => s.module # {}
               /\ all \subseteq Allowed
               /\ (\A x \in Allowed : ParseTCBStatus(x)) =>
                     /\ r.TCBStatus \in all
                     /\ \A x \in all : Rank(x) <= Rank(r.TCBStatus)
        BY <2>4, <2>5, <2>8, EvaluationHolds
    <2> HIDE DEF evaluated
    <2> QED BY <2>3, <2>6, <2>9, <2>10
<1> QED BY <1>1, AlwaysEstablished, PTL

(* An upgrade never hurts, for any number of levels (firstLevel).          *)
THEOREM UpgradesNeverHurt == Spec => []UpgradeNeverHurts
<1>1. Established => UpgradeNeverHurts
    <2> SUFFICES ASSUME Established,
                        NEW info \in Signed("tcbinfo"), NEW qe \in Signed("qe"),
                        AllWellListed(info, qe),
                        NEW old \in matchTCBLevels(info, qe, quote),
                        NEW r \in Upgraded(quote)
                 PROVE  \E new \in matchTCBLevels(info, qe, r) :
                           Rank(Summary(new).TCBStatus) <= Rank(Summary(old).TCBStatus)
        BY DEF UpgradeNeverHurts, AllWellListed
    <2>1. IsInfo(info) /\ IsEnclaveList(qe)
        BY DocumentsParse DEF Signed
    <2>2. r \in Quotes /\ AtLeast(r, quote) /\ quote \in Quotes
        BY DEF Upgraded, AtLeast, Established, Called, Quotes
    <2>3. PICK n : \A q \in Quotes : IsQuote(q, n)
        BY QuotesHaveOneSize
    <2> QED BY <2>1, <2>2, <2>3, UpgradeRates
<1> QED BY <1>1, AlwaysEstablished, PTL

(* Expected values are in the quote to the last byte (validateOptions,     *)
(* pad).                                                                   *)
THEOREM BindsWholeValue == Spec => []AcceptedBindsWholeValue
<1>1. Established => AcceptedBindsWholeValue
    <2> SUFFICES ASSUME Established, Accepted PROVE AcceptedBindsWholeValue
        BY DEF AcceptedBindsWholeValue
    <2>1. /\ quote.genuine /\ validateOptions(params) /\ FieldsMatch(quote, params)
          /\ Called
        BY DEF Established, Trusted, Evaluated, LibraryAccepts
    <2>2. ASSUME NEW f, NEW v, v \in Seq(Nat), Len(v) <= Width, f = pad(v, Width),
                 NEW i \in 1..Len(v)
          PROVE  i \in DOMAIN f /\ f[i] = v[i]
        <3>1. Len(v) \in Nat /\ i \in 1..Width
            BY <2>2, WidthAssumption
        <3> QED BY <2>2, <3>1 DEF pad
    <2>3. ASSUME params.ExpectedReportData # None, NEW i \in 1..Len(params.ExpectedReportData)
          PROVE  /\ i \in DOMAIN quote.reportData
                 /\ quote.reportData[i] = params.ExpectedReportData[i]
        <3>1. params.ExpectedReportData \in Seq(Nat)
            BY <2>1, <2>3, ParamsAssumption DEF Called
        <3> QED BY <2>1, <2>2, <2>3, <3>1 DEF validateOptions, FieldsMatch
    <2>4. ASSUME params.ExpectedInitDataHash # None,
                 NEW i \in 1..Len(params.ExpectedInitDataHash)
          PROVE  /\ i \in DOMAIN quote.mrConfigId
                 /\ quote.mrConfigId[i] = params.ExpectedInitDataHash[i]
        <3>1. params.ExpectedInitDataHash \in Seq(Nat)
            BY <2>1, <2>4, ParamsAssumption DEF Called
        <3> QED BY <2>1, <2>2, <2>4, <3>1 DEF validateOptions, FieldsMatch
    <2>5. ASSUME NEW i \in DOMAIN params.ExpectedRTMRs, params.ExpectedRTMRs[i] # None
          PROVE  params.ExpectedRTMRs[i] = Registers(quote)[i]
        BY <2>1, <2>5 DEF FieldsMatch
    <2> QED BY <2>1, <2>3, <2>4, <2>5 DEF AcceptedBindsWholeValue
<1> QED BY <1>1, AlwaysEstablished, PTL

-----------------------------------------------------------------------------
(* Registers and replays. *)

(* Some events of a list, in its order, are a list of events. *)
LEMMA FilteredRecords ==
    ASSUME NEW list \in Seq(Records), NEW P \in SUBSET (1..Len(list))
    PROVE  /\ Filtered(list, P) \in Seq(Records)
           /\ \A k \in 1..Len(Filtered(list, P)) : \E i \in P : Filtered(list, P)[k] = list[i]
<1>1. Len(list) \in Nat /\ \A i \in 1..Len(list) : list[i] \in Records
    OBVIOUS
<1>2. P \in SUBSET Nat /\ IsFiniteSet(P)
    <2>1. IsFiniteSet(1..Len(list)) /\ 1..Len(list) \in SUBSET Nat
        BY <1>1, FS_Interval
    <2> QED BY <2>1, FS_Subset
<1>3. /\ Cardinality(P) \in Nat /\ DOMAIN Filtered(list, P) = 1..Cardinality(P)
      /\ \A k \in DOMAIN Filtered(list, P) : \E i \in P : Filtered(list, P)[k] = list[i]
    BY <1>2, FilteredElements
<1>4. Filtered(list, P) = [k \in 1..Cardinality(P) |-> Filtered(list, P)[k]]
    BY DEF Filtered
<1> DEFINE f == Filtered(list, P)
           n == Cardinality(P)
<1> HIDE DEF f, n
<1>5. \A k \in 1..n : f[k] \in Records
    BY <1>1, <1>3 DEF f, n
<1>6. f = [k \in 1..n |-> f[k]] /\ n \in Nat
    BY <1>3, <1>4 DEF f, n
<1>7. f \in [1..n -> Records]
    BY <1>5, <1>6
<1>8. f \in Seq(Records) /\ Len(f) = n
    BY <1>6, <1>7
<1> QED BY <1>3, <1>8 DEF f, n

(* The digests of a log's records at some positions, in the log's order,   *)
(* and a register that was extended with them and nothing else.            *)
DigestsAt(records, own) == [k \in 1..Cardinality(own) |-> records[Sorted(own)[k]].digest]

Tells(register, records, own) ==
    /\ Len(register) = Cardinality(own)
    /\ \A k \in own : register[Place(own, k)] = records[k].digest

(* There is only one such register. *)
LEMMA TellsOne ==
    ASSUME NEW X, NEW register \in Seq(X), NEW records,
           NEW own \in SUBSET Nat, IsFiniteSet(own)
    PROVE  Tells(register, records, own) <=> register = DigestsAt(records, own)
<1> DEFINE n == Cardinality(own)
<1>1. /\ n \in Nat
      /\ \A k \in 1..n : Sorted(own)[k] \in own /\ Place(own, Sorted(own)[k]) = k
      /\ \A x \in own : Place(own, x) \in 1..n /\ Sorted(own)[Place(own, x)] = x
    BY SortedPlaces, PlacesIncrease
<1>2. DigestsAt(records, own) = [k \in 1..n |-> records[Sorted(own)[k]].digest]
    BY DEF DigestsAt
<1>3. register = [k \in 1..Len(register) |-> register[k]] /\ Len(register) \in Nat
    OBVIOUS
<1> HIDE DEF n
<1>4. ASSUME Len(register) = n, \A k \in own : register[Place(own, k)] = records[k].digest
      PROVE  register = DigestsAt(records, own)
    <2>1. \A k \in 1..n : register[k] = records[Sorted(own)[k]].digest
        BY <1>1, <1>4
    <2> QED BY <1>2, <1>3, <1>4, <2>1
<1>5. ASSUME register = DigestsAt(records, own)
      PROVE  Len(register) = n /\ \A k \in own : register[Place(own, k)] = records[k].digest
    <2>1. DOMAIN register = 1..n /\ DOMAIN register = 1..Len(register)
        BY <1>2, <1>3, <1>5
    <2>2. Len(register) = n
        <3>1. Len(register) = 0 \/ Len(register) \in 1..Len(register)
            BY <1>3
        <3>2. n = 0 \/ n \in 1..n
            BY <1>1
        <3> QED BY <1>1, <1>3, <2>1, <3>1, <3>2
    <2>3. \A k \in 1..n : register[k] = records[Sorted(own)[k]].digest
        BY <1>2, <1>5
    <2> QED BY <1>1, <2>2, <2>3
<1> QED BY <1>4, <1>5 DEF Tells, n

(* A register replayed is the digests of the events of its MR index        *)
(* (ReplayRTMRs).                                                          *)
LEMMA ReplayedIsDigests ==
    ASSUME NEW events \in Seq(Records), NEW i \in 0..3
    PROVE  ReplayRTMRs(events)[i] =
             DigestsAt(events, {j \in 1..Len(events) : events[j].mr = i + 1})
<1> DEFINE P == {j \in 1..Len(events) : events[j].mr = i + 1}
           own == Filtered(events, P)
<1>1. P \in SUBSET (1..Len(events)) /\ P \in SUBSET Nat /\ IsFiniteSet(P)
    <2>1. Len(events) \in Nat /\ P \in SUBSET (1..Len(events))
        OBVIOUS
    <2>2. IsFiniteSet(1..Len(events)) /\ 1..Len(events) \in SUBSET Nat
        BY <2>1, FS_Interval
    <2> QED BY <2>1, <2>2, FS_Subset
<1>2. ReplayRTMRs(events)[i] = [k \in 1..Len(own) |-> own[k].digest]
    BY DEF ReplayRTMRs
<1> HIDE DEF P
<1>3. /\ Cardinality(P) \in Nat
      /\ own = [k \in 1..Cardinality(P) |-> events[Sorted(P)[k]]]
    BY <1>1, SortedLists DEF Filtered
<1>4. own \in Seq(Records)
    BY <1>1, FilteredRecords
<1> HIDE DEF own
<1>5. Len(own) = Cardinality(P)
    BY <1>3, <1>4
<1>6. ReplayRTMRs(events)[i] = DigestsAt(events, P)
    BY <1>2, <1>3, <1>5 DEF DigestsAt
<1> QED BY <1>6 DEF P

(* Of the events a reader kept, those of one register are those the log    *)
(* has for it.                                                             *)
LEMMA KeptDigests ==
    ASSUME NEW records \in Seq(Records), NEW D \in SUBSET (1..Len(records)), NEW i \in 0..3
    PROVE  ReplayRTMRs(Filtered(records, D))[i] =
             DigestsAt(records, {k \in D : records[k].mr = i + 1})
<1> DEFINE events == Filtered(records, D)
           P == {j \in 1..Len(events) : events[j].mr = i + 1}
           own == {k \in D : records[k].mr = i + 1}
           f == [j \in 1..Cardinality(P) |-> Sorted(D)[Sorted(P)[j]]]
<1>1. D \in SUBSET Nat /\ IsFiniteSet(D) /\ own \in SUBSET Nat /\ IsFiniteSet(own)
    <2>1. Len(records) \in Nat /\ own \in SUBSET D
        OBVIOUS
    <2>2. IsFiniteSet(1..Len(records)) /\ 1..Len(records) \in SUBSET Nat
        BY <2>1, FS_Interval
    <2>3. IsFiniteSet(D) /\ D \in SUBSET Nat
        BY <2>2, FS_Subset
    <2> HIDE DEF own
    <2> QED BY <2>1, <2>3, FS_Subset
<1>2. events \in Seq(Records)
    BY FilteredRecords
<1>3. /\ Cardinality(D) \in Nat
      /\ events = [k \in 1..Cardinality(D) |-> records[Sorted(D)[k]]]
      /\ Sorted(D) \in [1..Cardinality(D) -> D]
      /\ \A a, b \in 1..Cardinality(D) : a < b => Sorted(D)[a] < Sorted(D)[b]
      /\ \A x \in D : \E k \in 1..Cardinality(D) : Sorted(D)[k] = x
    BY <1>1, SortedLists DEF Filtered
<1>4. ReplayRTMRs(events)[i] = DigestsAt(events, P)
    BY <1>2, ReplayedIsDigests
<1> HIDE DEF events
<1>5. Len(events) = Cardinality(D)
    BY <1>2, <1>3
<1>6. /\ P \in SUBSET Nat /\ IsFiniteSet(P)
      /\ \A j : j \in P <=> j \in 1..Cardinality(D) /\ records[Sorted(D)[j]].mr = i + 1
    <2>1. P \in SUBSET (1..Cardinality(D))
        BY <1>5
    <2>2. IsFiniteSet(1..Cardinality(D)) /\ 1..Cardinality(D) \in SUBSET Nat
        BY <1>3, FS_Interval
    <2>3. \A j : j \in P <=> j \in 1..Cardinality(D) /\ records[Sorted(D)[j]].mr = i + 1
        BY <1>3, <1>5
    <2> HIDE DEF P
    <2> QED BY <2>1, <2>2, <2>3, FS_Subset
<1> HIDE DEF P
<1>7. /\ Cardinality(P) \in Nat
      /\ Sorted(P) \in [1..Cardinality(P) -> P]
      /\ \A a, b \in 1..Cardinality(P) : a < b => Sorted(P)[a] < Sorted(P)[b]
      /\ \A x \in P : \E k \in 1..Cardinality(P) : Sorted(P)[k] = x
    BY <1>6, SortedLists
<1>8. f \in [1..Cardinality(P) -> own]
    <2>1. ASSUME NEW j \in 1..Cardinality(P) PROVE Sorted(D)[Sorted(P)[j]] \in own
        <3>1. Sorted(P)[j] \in P
            BY <1>7
        <3>2. Sorted(P)[j] \in 1..Cardinality(D) /\ records[Sorted(D)[Sorted(P)[j]]].mr = i + 1
            BY <1>6, <3>1
        <3>3. Sorted(D)[Sorted(P)[j]] \in D
            BY <1>3, <3>2
        <3> QED BY <3>2, <3>3
    <2> HIDE DEF own
    <2> QED BY <2>1
<1>9. \A a, b \in 1..Cardinality(P) : a < b => f[a] < f[b]
    <2>1. ASSUME NEW a \in 1..Cardinality(P), NEW b \in 1..Cardinality(P), a < b
          PROVE  Sorted(D)[Sorted(P)[a]] < Sorted(D)[Sorted(P)[b]]
        <3>1. Sorted(P)[a] < Sorted(P)[b] /\ Sorted(P)[a] \in P /\ Sorted(P)[b] \in P
            BY <1>7, <2>1
        <3>2. Sorted(P)[a] \in 1..Cardinality(D) /\ Sorted(P)[b] \in 1..Cardinality(D)
            BY <1>6, <3>1
        <3> QED BY <1>3, <3>1, <3>2
    <2> QED BY <2>1
<1>10. \A x \in own : \E j \in 1..Cardinality(P) : f[j] = x
    <2>1. ASSUME NEW x \in own PROVE \E j \in 1..Cardinality(P) : f[j] = x
        <3>1. x \in D /\ records[x].mr = i + 1
            OBVIOUS
        <3>2. PICK k \in 1..Cardinality(D) : Sorted(D)[k] = x
            BY <1>3, <3>1
        <3>3. k \in P
            BY <1>6, <3>1, <3>2
        <3>4. PICK j \in 1..Cardinality(P) : Sorted(P)[j] = k
            BY <1>7, <3>3
        <3> QED BY <3>2, <3>4
    <2> QED BY <2>1
<1> HIDE DEF own
<1>11. /\ Cardinality(P) = Cardinality(own)
       /\ \A j \in 1..Cardinality(P) : f[j] = Sorted(own)[j]
    <2> HIDE DEF f
    <2> QED BY <1>1, <1>7, <1>8, <1>9, <1>10, SortedAlone
<1>12. \A j \in 1..Cardinality(P) : events[Sorted(P)[j]] = records[Sorted(own)[j]]
    <2>1. ASSUME NEW j \in 1..Cardinality(P)
          PROVE  events[Sorted(P)[j]] = records[Sorted(own)[j]]
        <3>1. Sorted(P)[j] \in 1..Cardinality(D)
            BY <1>6, <1>7
        <3>2. events[Sorted(P)[j]] = records[Sorted(D)[Sorted(P)[j]]]
            BY <1>3, <3>1
        <3>3. Sorted(D)[Sorted(P)[j]] = Sorted(own)[j]
            BY <1>11
        <3> QED BY <3>2, <3>3
    <2> QED BY <2>1
<1>13. DigestsAt(events, P) = DigestsAt(records, own)
    BY <1>11, <1>12 DEF DigestsAt
<1> QED BY <1>4, <1>13 DEF events, own

(* How many events of RTMR[i] the firmware had logged after n of them, and *)
(* what the register held then: each extend adds one event (the hardware). *)
LEMMA HeldDigests ==
    ASSUME NEW q \in Quotes, NEW i \in 0..3, NEW n \in 0..Len(q.boot)
    PROVE  /\ q.held[n][i] \in Seq(Digests)
           /\ Tells(q.held[n][i], q.boot, {k \in 1..n : q.boot[k].mr = i + 1})
<1> DEFINE boot == q.boot
           N == Len(boot)
           Own(m) == {k \in 1..m : boot[k].mr = i + 1}
           Good(m) == q.held[m][i] \in Seq(Digests) /\ Tells(q.held[m][i], boot, Own(m))
           bad == {m \in 0..N : ~Good(m)}
<1>1. /\ boot \in Seq(Records) /\ N \in Nat
      /\ \A k \in 1..N : boot[k].digest \in Digests
    <2>1. boot \in Seq(Records) /\ \A k \in DOMAIN boot : boot[k].digest # None
        BY LogsAssumption
    <2> HIDE DEF boot
    <2>2. N \in Nat /\ DOMAIN boot = 1..N /\ \A k \in 1..N : boot[k] \in Records
        BY <2>1
    <2> QED BY <2>1, <2>2 DEF Records
<1>2. /\ q.held[0][i] = << >>
      /\ \A m \in 1..N : q.held[m][i] = IF boot[m].mr = i + 1
                                        THEN Append(q.held[m - 1][i], boot[m].digest)
                                        ELSE q.held[m - 1][i]
    <2> DEFINE H == q.held
    <2>1. /\ H[0] = [j \in 0..3 |-> << >>]
          /\ \A m \in 1..N : H[m] = [j \in 0..3 |->
                                       IF boot[m].mr = j + 1
                                       THEN Append(H[m - 1][j], boot[m].digest)
                                       ELSE H[m - 1][j]]
        BY HeldAssumption
    <2> HIDE DEF H, boot, N
    <2>2. ASSUME NEW m \in 1..N
          PROVE  H[m][i] = IF boot[m].mr = i + 1 THEN Append(H[m - 1][i], boot[m].digest)
                                                 ELSE H[m - 1][i]
        BY <2>1
    <2>3. H[0][i] = << >>
        BY <2>1
    <2> QED BY <2>2, <2>3 DEF H
<1>3. \A m \in 0..N : Own(m) \in SUBSET Nat /\ IsFiniteSet(Own(m))
    <2>1. ASSUME NEW m \in 0..N PROVE Own(m) \in SUBSET Nat /\ IsFiniteSet(Own(m))
        <3>1. m \in Nat /\ Own(m) \in SUBSET (1..m)
            BY <1>1
        <3>2. IsFiniteSet(1..m) /\ 1..m \in SUBSET Nat
            BY <3>1, FS_Interval
        <3> HIDE DEF Own
        <3> QED BY <3>1, <3>2, FS_Subset
    <2> QED BY <2>1
<1>4. Good(0)
    <2>1. Own(0) = {}
        OBVIOUS
    <2>2. Cardinality({}) = 0 /\ Len(<< >>) = 0 /\ << >> \in Seq(Digests)
        BY FS_EmptySet
    <2> HIDE DEF Own
    <2> QED BY <1>2, <2>1, <2>2 DEF Tells
<1>5. ASSUME NEW m \in 1..N, Good(m - 1) PROVE Good(m)
    <2> DEFINE r == q.held[m - 1][i]
               S == Own(m - 1)
    <2>1. m \in Nat /\ m - 1 \in 0..N /\ boot[m].digest \in Digests
        BY <1>1
    <2>2. S \in SUBSET Nat /\ IsFiniteSet(S) /\ m \notin S /\ \A y \in S : y < m
        <3>1. S \in SUBSET Nat /\ IsFiniteSet(S)
            <4> HIDE DEF Own
            <4> QED BY <1>3, <2>1
        <3>2. \A y \in S : y \in 1..(m - 1)
            OBVIOUS
        <3> HIDE DEF S
        <3> QED BY <2>1, <3>1, <3>2
    <2>3. CASE boot[m].mr # i + 1
        <3>1. Own(m) = S
            BY <2>1, <2>3
        <3>2. q.held[m][i] = r
            BY <1>2, <2>3
        <3> HIDE DEF Own, S, r
        <3> QED BY <1>5, <3>1, <3>2 DEF S, r
    <2>4. CASE boot[m].mr = i + 1
        <3>1. Own(m) = S \cup {m}
            <4>1. \A k : k \in 1..m <=> k \in 1..(m - 1) \/ k = m
                BY <2>1
            <4> QED BY <2>4, <4>1
        <3>2. q.held[m][i] = Append(r, boot[m].digest)
            BY <1>2, <2>4
        <3>3. r \in Seq(Digests) /\ Tells(r, boot, S)
            BY <1>5
        <3> DEFINE T == S \cup {m}
                   new == Append(r, boot[m].digest)
                   c == Cardinality(S)
        <3> HIDE DEF S, r, boot
        <3>4. Cardinality(T) = c + 1 /\ c \in Nat
            BY <2>2, FS_AddElement, FS_CardinalityType
        <3>5. /\ new \in Seq(Digests) /\ Len(new) = Len(r) + 1
              /\ new[Len(r) + 1] = boot[m].digest
              /\ \A k \in 1..Len(r) : new[k] = r[k]
            BY <2>1, <3>3
        <3>6. Place(T, m) = c + 1
            <4>1. {y \in T : y <= m} = T
                <5>1. \A y \in T : y <= m
                    BY <2>1, <2>2
                <5> HIDE DEF T
                <5> QED BY <5>1
            <4> HIDE DEF T
            <4> QED BY <3>4, <4>1 DEF Place
        <3>7. \A k \in S : Place(T, k) = Place(S, k) /\ Place(S, k) \in 1..c
            <4>1. ASSUME NEW k \in S PROVE {y \in T : y <= k} = {y \in S : y <= k}
                BY <2>1, <2>2
            <4>2. \A k \in S : Place(S, k) \in 1..c
                BY <2>2, PlacesIncrease
            <4> HIDE DEF T
            <4> QED BY <4>1, <4>2 DEF Place
        <3>8. Len(r) = c /\ \A k \in S : r[Place(S, k)] = boot[k].digest
            BY <3>3 DEF Tells
        <3> HIDE DEF new, c
        <3>9. \A k \in T : new[Place(T, k)] = boot[k].digest
            <4>1. \A k \in S : new[Place(T, k)] = boot[k].digest
                <5> HIDE DEF T
                <5> QED BY <3>5, <3>7, <3>8
            <4>2. new[Place(T, m)] = boot[m].digest
                <5> HIDE DEF T
                <5> QED BY <3>5, <3>6, <3>8
            <4> QED BY <4>1, <4>2
        <3> HIDE DEF T, Own
        <3>10. Tells(new, boot, T)
            BY <3>4, <3>5, <3>8, <3>9 DEF Tells, c
        <3> QED BY <3>1, <3>2, <3>5, <3>10 DEF T, new
    <2> QED BY <2>3, <2>4
<1> HIDE DEF Good
<1>6. bad = {}
    <2> SUFFICES ASSUME bad # {} PROVE FALSE
        OBVIOUS
    <2>1. PICK m \in bad : \A y \in bad : m <= y
        <3>1. bad \in SUBSET Nat
            BY <1>1
        <3> HIDE DEF bad
        <3> QED BY <3>1, LeastNatural
    <2>2. m \in 0..N /\ ~Good(m) /\ m # 0
        BY <1>4, <2>1
    <2>3. m \in 1..N /\ m - 1 \in 0..N /\ m - 1 < m
        BY <1>1, <2>2
    <2>4. m - 1 \notin bad
        BY <1>1, <2>1, <2>3
    <2>5. Good(m - 1)
        BY <2>3, <2>4
    <2> QED BY <1>5, <2>2, <2>3, <2>5
<1>7. Good(n)
    BY <1>6
<1> QED BY <1>7 DEF Good

(* What a quoted register holds is a list of digests, and in RTMR[0-2] the *)
(* boot log's events, in RTMR[3] what the guest extended after them.       *)
LEMMA RegistersOfQuote ==
    ASSUME NEW q \in Quotes
    PROVE  /\ \A i \in 0..3 : Registers(q)[i] \in Seq(Digests)
           /\ \A i \in 0..2 : Registers(q)[i] = ReplayRTMRs(q.boot)[i]
           /\ Registers(q)[3] = ReplayRTMRs(q.boot)[3] \o q.runtime
<1> DEFINE N == Len(q.boot)
           booted == q.held[N]
<1>1. q.boot \in Seq(Records) /\ q.runtime \in Seq(Digests) /\ N \in Nat
    BY LogsAssumption
<1>2. DOMAIN booted = 0..3
    <2>1. DOMAIN q.held[0] = 0..3 /\ \A m \in 1..N : DOMAIN q.held[m] = 0..3
        BY HeldAssumption
    <2>2. N = 0 \/ N \in 1..N
        BY <1>1
    <2> QED BY <2>1, <2>2
<1>3. ASSUME NEW i \in 0..3
      PROVE  booted[i] \in Seq(Digests) /\ booted[i] = ReplayRTMRs(q.boot)[i]
    <2> DEFINE own == {k \in 1..N : q.boot[k].mr = i + 1}
    <2>1. booted[i] \in Seq(Digests) /\ Tells(booted[i], q.boot, own)
        <3>1. N \in 0..Len(q.boot)
            BY <1>1
        <3> QED BY <3>1, HeldDigests
    <2>2. own \in SUBSET Nat /\ IsFiniteSet(own)
        <3>1. own \in SUBSET (1..N)
            OBVIOUS
        <3>2. IsFiniteSet(1..N) /\ 1..N \in SUBSET Nat
            BY <1>1, FS_Interval
        <3> HIDE DEF own
        <3> QED BY <3>1, <3>2, FS_Subset
    <2>3. ReplayRTMRs(q.boot)[i] = DigestsAt(q.boot, own)
        BY <1>1, ReplayedIsDigests
    <2> HIDE DEF own, booted
    <2> QED BY <2>1, <2>2, <2>3, TellsOne
<1>4. Registers(q) = [booted EXCEPT ![3] = booted[3] \o q.runtime]
    BY DEF Registers
<1> HIDE DEF booted
<1>5. /\ \A i \in 0..2 : Registers(q)[i] = booted[i]
      /\ Registers(q)[3] = booted[3] \o q.runtime
    BY <1>2, <1>4
<1>6. booted[3] \o q.runtime \in Seq(Digests)
    BY <1>1, <1>3
<1>7. \A i \in 0..3 : Registers(q)[i] \in Seq(Digests)
    <2>1. \A i \in 0..3 : i \in 0..2 \/ i = 3
        OBVIOUS
    <2> QED BY <1>3, <1>5, <1>6, <2>1
<1>8. booted[3] = ReplayRTMRs(q.boot)[3] /\ \A i \in 0..2 : booted[i] = ReplayRTMRs(q.boot)[i]
    BY <1>3
<1> QED BY <1>5, <1>7, <1>8

-----------------------------------------------------------------------------
(* What a reader of a log finds. *)

IsEvent(rec) == rec.kind = "whole" /\ ~(rec.mr = 0 /\ rec.bare)

(* The parser keeps the events with a digest up to the first record that   *)
(* is none (ParseCCEL).                                                    *)
LEMMA ParsedPrefix ==
    ASSUME NEW log, log.records \in Seq(Records), NEW events \in ParseCCEL(log)
    PROVE  \E n \in 0..Len(log.records) :
              /\ events = Filtered(log.records, {i \in 1..n : log.records[i].digest # None})
              /\ \A k \in 1..Len(log.records) :
                    k <= n <=> \A j \in 1..k : IsEvent(log.records[j])
<1> DEFINE recs == log.records
           N == Len(recs)
           stops == {i \in 1..N : EndsLog(recs[i]) \/ recs[i].kind = "unknown"}
           Before(k) == Filtered(recs, {i \in 1..k : recs[i].digest # None})
           firsts == {k \in stops : (\A j \in stops : k <= j) /\ recs[k].kind # "unknown"}
<1>1. N \in Nat /\ \A k \in 1..N : recs[k] \in Records
    OBVIOUS
<1>2. \A k \in 1..N : k \in stops <=> ~IsEvent(recs[k])
    <2>1. \A k \in 1..N : recs[k].kind \in {"whole", "cut", "padding", "unknown"}
        <3> HIDE DEF recs, N
        <3> QED BY <1>1 DEF Records
    <2> QED BY <2>1 DEF EndsLog, IsEvent
<1>3. /\ stops = {} => events = Before(N)
      /\ stops # {} => \E s \in firsts : events = Before(s - 1)
    BY DEF ParseCCEL
<1>4. \A s \in stops : s \in 1..N
    OBVIOUS
<1>5. \A s \in firsts : s \in stops /\ \A j \in stops : s <= j
    OBVIOUS
<1> HIDE DEF stops, firsts, N
<1>6. CASE stops = {}
    <2>1. \A k \in 1..N : \A j \in 1..k : j \in 1..N
        BY <1>1
    <2>2. \A k \in 1..N : k <= N <=> \A j \in 1..k : IsEvent(recs[j])
        BY <1>1, <1>2, <1>6, <2>1
    <2>3. N \in 0..N
        BY <1>1
    <2> QED BY <1>3, <1>6, <2>2, <2>3 DEF N
<1>7. CASE stops # {}
    <2>1. PICK s \in firsts : events = Before(s - 1)
        BY <1>3, <1>7
    <2>2. s \in 1..N /\ s \in stops /\ \A j \in stops : s <= j
        BY <1>4, <1>5
    <2>3. ASSUME NEW k \in 1..N PROVE k <= s - 1 <=> \A j \in 1..k : IsEvent(recs[j])
        <3>1. ASSUME k <= s - 1, NEW j \in 1..k PROVE IsEvent(recs[j])
            <4>1. j \in 1..N /\ ~(s <= j)
                BY <1>1, <2>2, <3>1
            <4> QED BY <1>2, <2>2, <4>1
        <3>2. ASSUME ~(k <= s - 1) PROVE \E j \in 1..k : ~IsEvent(recs[j])
            <4>1. s \in 1..k
                BY <1>1, <2>2, <3>2
            <4> QED BY <1>2, <2>2, <4>1
        <3> QED BY <3>1, <3>2
    <2>4. s - 1 \in 0..N
        BY <1>1, <2>2
    <2> QED BY <2>1, <2>3, <2>4 DEF N
<1> QED BY <1>6, <1>7

(* So a register replayed from a parsed log is the one that was extended   *)
(* with the events the log has for it, and nothing else.                   *)
LEMMA ReplayTells ==
    ASSUME NEW log, log.records \in Seq(Records), NEW events \in ParseCCEL(log),
           NEW i \in 0..3, NEW X, NEW register \in Seq(X)
    PROVE  ReplayRTMRs(events)[i] = register
             <=> Tells(register, log.records, EventsOf(log, i))
<1> DEFINE recs == log.records
           own == EventsOf(log, i)
<1>1. PICK n \in 0..Len(recs) :
         /\ events = Filtered(recs, {k \in 1..n : recs[k].digest # None})
         /\ \A k \in 1..Len(recs) : k <= n <=> \A j \in 1..k : IsEvent(recs[j])
    BY ParsedPrefix
<1> DEFINE D == {k \in 1..n : recs[k].digest # None}
<1>2. Len(recs) \in Nat /\ DOMAIN recs = 1..Len(recs) /\ D \in SUBSET (1..Len(recs))
    BY <1>1
<1>3. own = {k \in D : recs[k].mr = i + 1}
    <2>1. \A k : k \in own <=> /\ k \in 1..Len(recs) /\ \A j \in 1..k : IsEvent(recs[j])
                               /\ recs[k].mr = i + 1 /\ recs[k].digest # None
        BY <1>2 DEF EventsOf, IsEvent
    <2>2. \A k : k \in 1..n <=> k \in 1..Len(recs) /\ k <= n
        BY <1>1, <1>2
    <2>3. \A k : k \in own <=> /\ k \in 1..n /\ recs[k].digest # None
                               /\ recs[k].mr = i + 1
        BY <1>1, <2>1, <2>2
    <2> HIDE DEF own
    <2> QED BY <2>3
<1>4. own \in SUBSET Nat /\ IsFiniteSet(own)
    <2>1. own \in SUBSET (1..Len(recs))
        BY <1>2, <1>3
    <2>2. IsFiniteSet(1..Len(recs)) /\ 1..Len(recs) \in SUBSET Nat
        BY <1>2, FS_Interval
    <2> HIDE DEF own
    <2> QED BY <2>1, <2>2, FS_Subset
<1>5. ReplayRTMRs(events)[i] = DigestsAt(recs, own)
    <2> HIDE DEF D, own, recs
    <2>1. recs \in Seq(Records) /\ events = Filtered(recs, D)
        BY <1>1 DEF D, recs
    <2> QED BY <1>2, <1>3, <2>1, KeptDigests
<1> HIDE DEF own, recs
<1>6. Tells(register, recs, own) <=> register = DigestsAt(recs, own)
    BY <1>4, TellsOne
<1> QED BY <1>5, <1>6 DEF own, recs

(* A log that was verified tells all that RTMR[0-2] were extended with, in *)
(* order, and the result says whether it does so of RTMR[3] (ParseCCEL,    *)
(* ReplayRTMRs, VerifyCCELAgainstRTMRs).                                   *)
THEOREM VerifiedLogsAreBootLogs == Spec => []VerifiedLogIsBootLog
<1>1. Established => VerifiedLogIsBootLog
    <2> SUFFICES ASSUME Established, Accepted, res.EventlogVerified = TRUE
                 PROVE  /\ \A i \in 0..2 : TellsAll(ccel, i)
                        /\ res.RTMR3ReplayMatch <=> TellsAll(ccel, 3)
        BY DEF VerifiedLogIsBootLog
    <2> DEFINE match == VerifyCCELAgainstRTMRs(ccel, Registers(quote))
    <2>1. Replayed /\ Called
        BY DEF Established
    <2>2. match # {} /\ res.RTMR3ReplayMatch = CHOOSE m \in match : TRUE
        BY <2>1 DEF Replayed
    <2>3. res.RTMR3ReplayMatch \in match
        BY <2>2
    <2>4. PICK events \in ParseCCEL(ccel) :
             /\ \A i \in 0..2 : ReplayRTMRs(events)[i] = Registers(quote)[i]
             /\ res.RTMR3ReplayMatch = (ReplayRTMRs(events)[3] = Registers(quote)[3])
        BY <2>3 DEF VerifyCCELAgainstRTMRs
    <2>5. ccel.records \in Seq(Records) /\ quote \in Quotes
        BY <2>1, LogsAssumption DEF Replayed, Called, Quotes
    <2>6. \A i \in 0..3 : Registers(quote)[i] \in Seq(Digests)
        BY <2>5, RegistersOfQuote
    <2>7. \A i \in 0..3 :
             ReplayRTMRs(events)[i] = Registers(quote)[i]
               <=> Tells(Registers(quote)[i], ccel.records, EventsOf(ccel, i))
        BY <2>5, <2>6, ReplayTells
    <2>8. \A i \in 0..3 : ReplayRTMRs(events)[i] = Registers(quote)[i] <=> TellsAll(ccel, i)
        BY <2>7 DEF TellsAll, Tells, Place
    <2>9. \A i \in 0..2 : i \in 0..3
        OBVIOUS
    <2>10. res.RTMR3ReplayMatch <=> ReplayRTMRs(events)[3] = Registers(quote)[3]
        BY <2>4
    <2>11. res.RTMR3ReplayMatch <=> TellsAll(ccel, 3)
        BY <2>8, <2>10
    <2> QED BY <2>4, <2>8, <2>9, <2>11
<1> QED BY <1>1, AlwaysEstablished, PTL

-----------------------------------------------------------------------------
(* The firmware's own log. *)

(* A register of the firmware's events is a list of digests. *)
LEMMA ReplayedDigests ==
    ASSUME NEW events \in Seq(Records), \A i \in DOMAIN events : events[i].digest # None,
           NEW i \in 0..3
    PROVE  ReplayRTMRs(events)[i] \in Seq(Digests)
<1> DEFINE P == {j \in 1..Len(events) : events[j].mr = i + 1}
           own == Filtered(events, P)
           reg == [k \in 1..Len(own) |-> own[k].digest]
<1>1. ReplayRTMRs(events)[i] = reg
    BY DEF ReplayRTMRs
<1>2. own \in Seq(Records) /\ \A k \in 1..Len(own) : \E j \in P : own[k] = events[j]
    <2>1. P \in SUBSET (1..Len(events))
        OBVIOUS
    <2> HIDE DEF P
    <2> QED BY <2>1, FilteredRecords
<1>3. \A j \in P : events[j].digest \in Digests
    <2>1. \A j \in P : j \in DOMAIN events /\ events[j] \in Records
        OBVIOUS
    <2> HIDE DEF P
    <2> QED BY <2>1 DEF Records
<1> HIDE DEF P, own
<1>4. Len(own) \in Nat /\ \A k \in 1..Len(own) : own[k].digest \in Digests
    BY <1>2, <1>3
<1>5. reg \in [1..Len(own) -> Digests]
    BY <1>4
<1>6. reg \in Seq(Digests)
    BY <1>4, <1>5
<1> QED BY <1>1, <1>6

(* The parser of the firmware's log, whatever follows in the table, meets  *)
(* the firmware's events and stops (ParseCCEL).                            *)
LEMMA FirmwareLogParses ==
    ASSUME NEW boot \in Seq(Records), NEW log, log.records \in Seq(Records), log.header,
           \A i \in DOMAIN boot : /\ boot[i].kind = "whole" /\ ~EndsLog(boot[i])
                                  /\ boot[i].digest # None,
           Len(boot) <= Len(log.records), SubSeq(log.records, 1, Len(boot)) = boot,
           Len(boot) < Len(log.records) => EndsLog(log.records[Len(boot) + 1])
    PROVE  ParseCCEL(log) = {boot}
<1> DEFINE recs == log.records
           n == Len(boot)
           stops == {i \in 1..Len(recs) : EndsLog(recs[i]) \/ recs[i].kind = "unknown"}
           Before(k) == Filtered(recs, {i \in 1..k : recs[i].digest # None})
           firsts == {k \in stops : (\A j \in stops : k <= j) /\ recs[k].kind # "unknown"}
<1>1. n \in Nat /\ Len(recs) \in Nat /\ DOMAIN boot = 1..n /\ boot = [k \in 1..n |-> boot[k]]
    OBVIOUS
<1>2. \A i \in 1..n : recs[i] = boot[i]
    <2>1. \A i \in 1..n : SubSeq(recs, 1, n)[i] = recs[i]
        BY <1>1
    <2> QED BY <2>1
<1>3. Before(n) = boot
    <2>1. {i \in 1..n : recs[i].digest # None} = 1..n
        BY <1>1, <1>2
    <2>2. Filtered(recs, 1..n) = [k \in 1..n |-> recs[k]]
        <3> HIDE DEF recs, n
        <3> QED BY <1>1, FilteredWhole
    <2>3. Before(n) = [k \in 1..n |-> recs[k]]
        BY <2>1, <2>2
    <2> QED BY <1>1, <1>2, <2>3
<1>4. \A i \in stops : i > n
    <2>1. ASSUME NEW i \in 1..n PROVE i \notin stops
        <3>1. ~EndsLog(recs[i]) /\ recs[i].kind = "whole"
            BY <1>1, <1>2
        <3> QED BY <3>1
    <2>2. \A i \in stops : i \in Nat /\ i >= 1
        BY <1>1
    <2> HIDE DEF stops
    <2> QED BY <1>1, <2>1, <2>2
<1>5. ParseCCEL(log) = IF stops = {} THEN {Before(Len(recs))}
                       ELSE {Before(i - 1) : i \in firsts}
    BY DEF ParseCCEL
<1>6. CASE Len(recs) = n
    <2>1. stops = {}
        BY <1>1, <1>4, <1>6
    <2> HIDE DEF stops, firsts, Before, recs
    <2> QED BY <1>3, <1>5, <1>6, <2>1
<1>7. CASE n < Len(recs)
    <2>1. n + 1 \in 1..Len(recs) /\ EndsLog(recs[n + 1])
        BY <1>1, <1>7
    <2>2. n + 1 \in stops /\ recs[n + 1].kind # "unknown"
        BY <2>1 DEF EndsLog
    <2>3. firsts = {n + 1}
        <3>1. \A j \in stops : j \in Nat /\ n + 1 <= j
            BY <1>1, <1>4
        <3>2. n + 1 \in firsts
            BY <2>2, <3>1
        <3>3. ASSUME NEW k \in firsts PROVE k = n + 1
            <4>1. k \in stops /\ k <= n + 1
                BY <2>2
            <4> HIDE DEF stops, firsts, n
            <4> QED BY <1>1, <3>1, <4>1
        <3> HIDE DEF firsts
        <3> QED BY <3>2, <3>3
    <2>4. (n + 1) - 1 = n
        BY <1>1
    <2> HIDE DEF stops, firsts, Before, recs, n
    <2> QED BY <1>3, <1>5, <2>2, <2>3, <2>4
<1> QED BY <1>1, <1>6, <1>7

(* Only nothing can be appended to a list without changing it. *)
LEMMA AppendsNothing ==
    ASSUME NEW s \in Seq(Digests), NEW t \in Seq(Digests)
    PROVE  s = s \o t <=> t = << >>
<1>1. Len(s \o t) = Len(s) + Len(t) /\ Len(s) \in Nat /\ Len(t) \in Nat
    OBVIOUS
<1>2. s = s \o t => Len(t) = 0
    BY <1>1
<1>3. Len(t) = 0 => t = << >>
    OBVIOUS
<1>4. s \o << >> = s
    OBVIOUS
<1> QED BY <1>2, <1>3, <1>4

(* A quote that passed is accepted with the firmware's own log, and        *)
(* RTMR3ReplayMatch says whether the guest extended RTMR[3] since          *)
(* (ParseCCEL, VerifyCCELAgainstRTMRs).                                    *)
THEOREM FirmwareLogsVerify == Spec => FirmwareLogVerifies
<1>1. ASSUME Established, [Next]_vars, pc = "valid", FirmwareLog(ccel, quote), pc' = "done"
      PROVE  res' # None /\ (res'.RTMR3ReplayMatch <=> quote.runtime = << >>)
    <2> DEFINE match == VerifyCCELAgainstRTMRs(ccel, Registers(quote))
               boot == quote.boot
    <2>1. ReplayLog /\ ccel # None
        BY <1>1 DEF Next, vars, Parse, Serve, Fetch, FetchFails, VerifySignature, Validate,
                    Returned, FirmwareLog
    <2>2. quote \in Quotes /\ ccel.records \in Seq(Records) /\ res \in Results
        BY <1>1, <2>1, LogsAssumption DEF Established, Called, Quotes
    <2>3. /\ boot \in Seq(Records) /\ quote.runtime \in Seq(Digests)
          /\ \A i \in DOMAIN boot : /\ boot[i].kind = "whole" /\ ~EndsLog(boot[i])
                                    /\ boot[i].digest # None
        BY <2>2, LogsAssumption
    <2>4. ParseCCEL(ccel) = {boot}
        <3>1. /\ ccel.header /\ Len(boot) <= Len(ccel.records)
              /\ SubSeq(ccel.records, 1, Len(boot)) = boot
              /\ Len(boot) < Len(ccel.records) => EndsLog(ccel.records[Len(boot) + 1])
            BY <1>1 DEF FirmwareLog
        <3> HIDE DEF boot
        <3> QED BY <2>2, <2>3, <3>1, FirmwareLogParses
    <2>5. /\ \A i \in 0..2 : Registers(quote)[i] = ReplayRTMRs(boot)[i]
          /\ Registers(quote)[3] = ReplayRTMRs(boot)[3] \o quote.runtime
        BY <2>2, RegistersOfQuote
    <2>6. (ReplayRTMRs(boot)[3] = Registers(quote)[3]) <=> quote.runtime = << >>
        <3>1. ReplayRTMRs(boot)[3] \in Seq(Digests)
            BY <2>3, ReplayedDigests
        <3> QED BY <2>3, <2>5, <3>1, AppendsNothing
    <2>7. match = {ReplayRTMRs(boot)[3] = Registers(quote)[3]}
        BY <2>4, <2>5 DEF VerifyCCELAgainstRTMRs
    <2>8. res' = [res EXCEPT !.EventlogVerified = TRUE,
                             !.RTMR3ReplayMatch = CHOOSE m \in match : TRUE]
        BY <2>1, <2>7 DEF ReplayLog
    <2>9. (CHOOSE m \in match : TRUE) = (ReplayRTMRs(boot)[3] = Registers(quote)[3])
        BY <2>7
    <2>10. (CHOOSE m \in match : TRUE) \in BOOLEAN
        BY <2>9
    <2> HIDE DEF match, boot
    <2>11. res' \in Results /\ res'.RTMR3ReplayMatch = CHOOSE m \in match : TRUE
        BY <2>2, <2>8, <2>10 DEF Results
    <2> QED BY <2>6, <2>9, <2>11, NoneIsNoResult
<1>2. Established /\ [Next]_vars
        => [(pc = "valid" /\ FirmwareLog(ccel, quote) /\ pc' = "done")
              => /\ res' # None
                 /\ res'.RTMR3ReplayMatch <=> quote.runtime = << >>]_vars
    BY <1>1
<1> QED BY <1>2, AlwaysEstablished, PTL DEF Spec, FirmwareLogVerifies

=============================================================================
