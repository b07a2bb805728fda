----------------------------- MODULE VTpmProofs -----------------------------
(***************************************************************************)
(* What an accepted piece of Azure evidence says of a guest, for any       *)
(* guests, registers, nonces and pieces of evidence a sender makes up, and *)
(* any number of extends, reboots and quotes.                              *)
(*                                                                         *)
(* A result came of evidence somebody could send (Explained).  What such   *)
(* evidence can be once it is accepted is lemma OneGuest: its report is a  *)
(* guest's own, the runtime data that the report binds names that guest's  *)
(* AK, and what that AK signed, if it says what a TPM says, is a quote     *)
(* that guest's vTPM made.  The registers are compared as bytes: for a     *)
(* quote of one bank they are told apart, and the bank's width is 32, as   *)
(* values of one width, joined, are (JoinedWidth, JoinedApart).            *)
(*                                                                         *)
(* That a guest's own evidence is accepted by the right callers needs what *)
(* registers and quotes hold (Held) and that the selection, as the         *)
(* verifier lists it, is the one quoted (OwnSelection).                    *)
(***************************************************************************)
EXTENDS VTpm, OrderingProofs

(* A signature is one a vTPM made or one the sender made up. *)
Signature(s) ==
    \/ \E g \in Guests : \E q \in quoted[g] : s = [key |-> <<"AK", g>>, over |-> Message(q)]
    \/ s \in Forged.signatures

(* Evidence a sender can put together. *)
Sent(e) ==
    /\ (\E g \in Guests : e.report = Report(g)) \/ ~e.report.genuine
    /\ e.quote # None => Signature(e.quote.signature)

(* The result is that of a verification of such evidence. *)
Explained ==
    res # None =>
        \E e, platform : Sent(e) /\ res \in VerifyEvidence(e, params, platform)

-----------------------------------------------------------------------------
(* The keys and the registers. *)

(* A guest's runtime data names its AK: the EK before it has another name  *)
(* (extractAKPubFromJWK).                                                  *)
LEMMA AKOfGuest ==
    ASSUME NEW g, NEW pub \in ExtractAKPub(VarData(g))
    PROVE  pub = <<"AK", g>>
<1> DEFINE v == VarData(g)
           named == {i \in DOMAIN v.keys : v.keys[i].kid = "HCLAkPub" /\ v.keys[i].rsa}
<1>1. /\ v.form = "jwk" /\ DOMAIN v.keys = 1..2
      /\ v.keys[1].kid = "HCLEkPub" /\ v.keys[2].kid = "HCLAkPub" /\ v.keys[2].rsa
      /\ v.keys[2].pub = <<"AK", g>>
    BY DEF VarData
<1>2. named = {2}
    BY <1>1
<1>3. Min(named) = 2
    BY <1>2 DEF Min
<1>4. extractAKPubFromTPM2BPublic(v) = {}
    BY <1>1 DEF extractAKPubFromTPM2BPublic
<1>5. extractAKPubFromJWK(v) = {v.keys[Min(named)].pub} \ {None}
    BY <1>1, <1>2 DEF extractAKPubFromJWK
<1> HIDE DEF v, named
<1> QED BY <1>1, <1>3, <1>4, <1>5 DEF ExtractAKPub, v

(* One bank's part is all there is (parseQuoteInfo, Message). *)
LEMMA OneBank ==
    ASSUME NEW x
    PROVE  FlattenSeq(<<x>>) = x
<1> DEFINE seqs == <<x>>
           Step(f) == [i \in 1..Len(seqs) |->
                          IF i = 1 THEN seqs[i] ELSE f[i - 1] \o seqs[i]]
           flatten == CHOOSE f : f = Step(f)
<1>1. Len(seqs) = 1 /\ seqs[1] = x
    OBVIOUS
<1> HIDE DEF seqs
<1>2. flatten = Step(flatten)
    <2> DEFINE one == [i \in 1..1 |-> seqs[1]]
    <2>1. one = Step(one)
        BY <1>1
    <2> HIDE DEF one, Step
    <2> QED BY <2>1
<1>3. FlattenSeq(seqs) = flatten[1]
    BY <1>1 DEF FlattenSeq
<1>4. flatten[1] = seqs[1]
    BY <1>1, <1>2
<1> QED BY <1>1, <1>3, <1>4 DEF seqs

(* A list of n values. *)
Listed(values, n) == values = [k \in 1..n |-> values[k]]

(* How many bytes joined values are (VerifyTPMPCRs). *)
LEMMA JoinedLength ==
    ASSUME NEW n \in Nat, NEW w \in Nat \ {0}, NEW values, Listed(values, n)
    PROVE  DOMAIN Joined(values, w) = 1..(n * w)
<1>1. Len(values) = n
    BY DEF Listed
<1> QED BY <1>1 DEF Joined

(* Where the j-th byte of the k-th value of w bytes is. *)
At(k, w, j) == (k - 1) * w + j

Byte(values, k, j) == values[k][j]

(* The bytes of joined values (VerifyTPMPCRs). *)
LEMMA JoinedBytes ==
    ASSUME NEW n \in Nat, NEW w \in Nat \ {0}, NEW values, Listed(values, n),
           NEW k \in 1..n, NEW j \in 1..w
    PROVE  Joined(values, w)[At(k, w, j)] = Byte(values, k, j)
<1>1. Len(values) = n
    BY DEF Listed
<1>2. Joined(values, w) =
         [b \in 1..(n * w) |-> values[1 + ((b - 1) \div w)][1 + ((b - 1) % w)]]
    BY <1>1 DEF Joined
<1> DEFINE b == At(k, w, j)
           h == k - 1
           i == j - 1
<1>3. b \in 1..(n * w)
    BY DEF At
<1>4. h \in Nat /\ i \in 0..(w - 1) /\ b - 1 = h * w + i
    BY DEF At
<1>5. (h * w + i) \div w = h /\ (h * w + i) % w = i
    <2> HIDE DEF h, i, b
    <2> QED BY <1>4
<1>6. 1 + ((b - 1) \div w) = k /\ 1 + ((b - 1) % w) = j
    <2>1. (b - 1) \div w = h /\ (b - 1) % w = i
        BY <1>4, <1>5
    <2> HIDE DEF b
    <2> QED BY <2>1
<1> HIDE DEF b
<1>7. Joined(values, w)[b] = values[k][j]
    BY <1>2, <1>3, <1>6
<1> QED BY <1>7 DEF b, Byte

(* As many values of two widths, joined, are of different length.          *)
LEMMA JoinedWidth ==
    ASSUME NEW n \in Nat \ {0}, NEW v \in Nat \ {0}, NEW w \in Nat \ {0},
           NEW xs, Listed(xs, n), NEW ys, Listed(ys, n),
           Joined(xs, v) = Joined(ys, w)
    PROVE  v = w
<1>1. n \in Nat
    OBVIOUS
<1>2. DOMAIN Joined(xs, v) = 1..(n * v)
    BY ONLY <1>1, v \in Nat \ {0}, Listed(xs, n), JoinedLength
<1>3. DOMAIN Joined(ys, w) = 1..(n * w)
    BY ONLY <1>1, w \in Nat \ {0}, Listed(ys, n), JoinedLength
<1> DEFINE a == n * v
           b == n * w
<1>4. a \in Nat /\ b \in Nat /\ 1..a = 1..b
    BY <1>2, <1>3
<1> HIDE DEF a, b
<1>5. a = b
    BY <1>4
<1> QED BY <1>5 DEF a, b

(* Values of one width are told apart by their bytes, joined.              *)
LEMMA JoinedApart ==
    ASSUME NEW n \in Nat, NEW w \in Nat \ {0},
           NEW xs, Listed(xs, n), NEW ys, Listed(ys, n),
           Joined(xs, w) = Joined(ys, w), NEW k \in 1..n, NEW j \in 1..w
    PROVE  Byte(xs, k, j) = Byte(ys, k, j)
<1>1. Joined(xs, w)[At(k, w, j)] = Byte(xs, k, j)
    BY JoinedBytes
<1>2. Joined(ys, w)[At(k, w, j)] = Byte(ys, k, j)
    BY JoinedBytes
<1> QED BY <1>1, <1>2

(* A register's value says which bank and which extends it is of. *)
LEMMA ValueApart ==
    ASSUME NEW a \in DOMAIN Width, NEW b \in DOMAIN Width, NEW x, NEW y, Value(a, x) = Value(b, y)
    PROVE  a = b /\ x = y
<1>1. Width[a] \in Nat \ {0} /\ Width[b] \in Nat \ {0}
    BY RegistersAssumption
<1>2. 1 \in 1..Width[a] /\ 1 \in 1..Width[b]
    BY <1>1
<1>3. /\ Value(a, x)[1] = [alg |-> a, of |-> x, byte |-> 1]
      /\ Value(b, y)[1] = [alg |-> b, of |-> y, byte |-> 1]
    BY <1>2 DEF Value
<1>4. Value(a, x)[1].alg = a /\ Value(b, y)[1].alg = b
    BY <1>3
<1>5. Value(a, x)[1].of = x /\ Value(b, y)[1].of = y
    BY <1>3
<1> QED BY <1>4, <1>5

(* What a quote of one bank is over, as the verifier reads it.             *)
LEMMA OwnSelection ==
    ASSUME NEW q \in Quotes, Len(q.selected) = 1
    PROVE  LET regs == q.selected[1].regs
               alg == q.selected[1].alg
           IN  /\ alg \in DOMAIN Width /\ regs \in SUBSET PCRs
               /\ Cardinality(regs) \in Nat
               /\ Sorted(regs) \in [1..Cardinality(regs) -> regs]
               /\ ToSet(Sorted(regs)) = regs
               /\ Message(q).digest = Covered(q.selected[1], q.pcrs)
               /\ parseQuoteInfo(Message(q)) =
                     {[selected |-> Sorted(regs), digest |-> Message(q).digest]}
               /\ SignedPCRSelection(Message(q)) = regs
<1> DEFINE sel == q.selected
           regs == sel[1].regs
           s == Sorted(regs)
<1>1. sel \in Seq([alg : DOMAIN Width, regs : SUBSET PCRs]) /\ Len(sel) = 1
    BY RegistersAssumption DEF Quotes
<1>2. DOMAIN sel = 1..1 /\ sel[1] \in [alg : DOMAIN Width, regs : SUBSET PCRs]
    <2> DEFINE T == [alg : DOMAIN Width, regs : SUBSET PCRs]
    <2>1. sel \in Seq(T) /\ Len(sel) = 1
        BY <1>1
    <2> HIDE DEF T, sel
    <2>2. DOMAIN sel = 1..1 /\ sel[1] \in T
        BY <2>1
    <2> QED BY <2>2 DEF T
<1>3. sel[1].alg \in DOMAIN Width /\ regs \in SUBSET PCRs
    BY <1>2
<1>4. regs \in SUBSET Nat /\ IsFiniteSet(regs)
    BY <1>3, RegistersAssumption, FS_Subset
<1>5. Message(q).digest = Covered(sel[1], q.pcrs)
    <2>1. [k \in DOMAIN sel |-> Covered(sel[k], q.pcrs)] = <<Covered(sel[1], q.pcrs)>>
        BY <1>2
    <2>2. Message(q).digest = FlattenSeq([k \in DOMAIN sel |-> Covered(sel[k], q.pcrs)])
        BY DEF Message
    <2> QED BY <2>1, <2>2, OneBank
<1>6. parseQuoteInfo(Message(q)) = {[selected |-> s, digest |-> Message(q).digest]}
    <2>1. Message(q).cut = "no" /\ Message(q).selections = sel
        BY DEF Message
    <2>2. [k \in DOMAIN sel |-> Sorted(sel[k].regs)] = <<s>>
        BY <1>2
    <2>3. FlattenSeq([k \in DOMAIN sel |-> Sorted(sel[k].regs)]) = s
        BY <2>2, OneBank
    <2> HIDE DEF sel, s
    <2> QED BY <2>1, <2>3 DEF parseQuoteInfo
<1> HIDE DEF sel, regs, s
<1>7. /\ Cardinality(regs) \in Nat
      /\ s \in [1..Cardinality(regs) -> regs]
      /\ \A x \in regs : \E k \in 1..Cardinality(regs) : s[k] = x
    BY <1>4, SortedLists DEF s
<1>8. ToSet(s) = regs
    BY <1>7 DEF ToSet
<1>9. SignedPCRSelection(Message(q)) = regs
    BY <1>6, <1>8 DEF SignedPCRSelection
<1> QED BY <1>3, <1>5, <1>6, <1>7, <1>8, <1>9 DEF s, regs, sel

(* The registers of a bank that were quoted, in the order of the digest.   *)
Quoted(q) ==
    LET bank == q.selected[1]
    IN  [k \in 1..Cardinality(bank.regs) |->
            Value(bank.alg, q.pcrs[Sorted(bank.regs)[k]])]

(* Registers that check against a vTPM's quote of one bank are, where the  *)
(* quote selects them, the registers that were quoted (VerifyTPMPCRs).     *)
LEMMA SignedRegisters ==
    ASSUME NEW q \in Quotes, Len(q.selected) = 1, NEW pcrs,
           VerifyTPMPCRs(Message(q), pcrs),
           NEW i \in SignedPCRSelection(Message(q))
    PROVE  i \in DOMAIN pcrs /\ pcrs[i] = Value(q.selected[1].alg, q.pcrs[i])
<1> DEFINE alg == q.selected[1].alg
           regs == q.selected[1].regs
           n == Cardinality(regs)
           s == Sorted(regs)
           sent == [k \in 1..n |-> pcrs[s[k]]]
<1>1. /\ alg \in DOMAIN Width /\ n \in Nat /\ s \in [1..n -> regs] /\ ToSet(s) = regs
      /\ Message(q).digest = Covered(q.selected[1], q.pcrs)
      /\ parseQuoteInfo(Message(q)) = {[selected |-> s, digest |-> Message(q).digest]}
      /\ i \in regs
    BY OwnSelection
<1>2. Len(s) = n
    <2> HIDE DEF s, n
    <2> QED BY <1>1
<1>3. /\ \A k \in DOMAIN pcrs : pcrs[k] \in [1..Slot -> ToSet(pcrs[k])]
      /\ regs \subseteq DOMAIN pcrs
      /\ Joined([k \in 1..Len(s) |-> pcrs[s[k]]], Slot) = Message(q).digest
    <2> HIDE DEF s, n, regs
    <2>1. PICK info \in parseQuoteInfo(Message(q)) :
             /\ ToSet(info.selected) \subseteq DOMAIN pcrs
             /\ Joined([k \in 1..Len(info.selected) |-> pcrs[info.selected[k]]], Slot)
                   = info.digest
        BY DEF VerifyTPMPCRs
    <2>2. info.selected = s /\ info.digest = Message(q).digest
        BY <1>1
    <2>3. \A k \in DOMAIN pcrs : pcrs[k] \in [1..Slot -> ToSet(pcrs[k])]
        BY DEF VerifyTPMPCRs
    <2> QED BY <1>1, <2>1, <2>2, <2>3
<1>4. Joined(sent, Slot) = Joined(Quoted(q), Width[alg])
    BY <1>1, <1>2, <1>3 DEF Covered, Quoted
<1>5. PICK k \in 1..n : s[k] = i
    <2> HIDE DEF s, n, regs
    <2> QED BY <1>1 DEF ToSet
<1>6. Slot \in Nat \ {0} /\ Width[alg] \in Nat \ {0} /\ n \in Nat \ {0}
    BY <1>1, <1>5, RegistersAssumption DEF Slot
<1>7. Listed(sent, n) /\ Listed(Quoted(q), n)
    BY DEF Quoted, Listed
<1>8. Slot = Width[alg] /\ \A j \in 1..Width[alg] : sent[k][j] = Quoted(q)[k][j]
    <2> DEFINE w == Width[alg]
               ys == Quoted(q)
    <2>1. Listed(sent, n) /\ Listed(ys, n) /\ Joined(sent, Slot) = Joined(ys, w)
        BY <1>4, <1>7
    <2>2. Slot \in Nat \ {0} /\ w \in Nat \ {0} /\ n \in Nat \ {0}
        BY <1>6
    <2> HIDE DEF w, ys, sent, n
    <2>3. Slot = w /\ \A h \in 1..n, j \in 1..w : sent[h][j] = ys[h][j]
        <3>1. Slot = w
            BY ONLY <2>1, <2>2, JoinedWidth
        <3>2. Joined(sent, w) = Joined(ys, w) /\ n \in Nat
            BY <2>1, <2>2, <3>1
        <3>3. ASSUME NEW h \in 1..n, NEW j \in 1..w PROVE sent[h][j] = ys[h][j]
            <4>1. Byte(sent, h, j) = Byte(ys, h, j)
                BY ONLY <2>1, <2>2, <3>2, JoinedApart, h \in 1..n, j \in 1..w
            <4> QED BY <4>1 DEF Byte
        <3> QED BY <3>1, <3>3
    <2> QED BY <1>5, <2>3 DEF w, ys
<1>9. sent[k] = pcrs[i]
    BY <1>5
<1>10. Quoted(q)[k] = Value(alg, q.pcrs[i])
    BY <1>5 DEF Quoted
<1> HIDE DEF sent, s, n, regs, alg
<1>11. i \in DOMAIN pcrs /\ pcrs[i] \in [1..Width[alg] -> ToSet(pcrs[i])]
    BY <1>1, <1>3, <1>8
<1>12. pcrs[i] = Value(alg, q.pcrs[i])
    BY <1>8, <1>9, <1>10, <1>11 DEF Value
<1> QED BY <1>11, <1>12 DEF alg

-----------------------------------------------------------------------------
(* Accepted evidence. *)

(* What VerifyEvidence returns has passed every check, and says what the   *)
(* vTPM layer found.                                                       *)
LEMMA Checked ==
    ASSUME NEW e, NEW p, NEW platform, NEW r \in VerifyEvidence(e, p, platform)
    PROVE  /\ e.quote # None
           /\ VerifyTPMSignature(e.quote.signature, e.quote.message, e.hcl.varData)
           /\ VerifyTPMPCRs(e.quote.message, e.quote.pcrs)
           /\ HardwareAccepts(e.report, hwParams(p), platform)
           /\ e.report.genuine /\ e.report.reportData = e.hcl.varData
           /\ r.report = e.report
           /\ r.tpm = ApplyTPMClaims(e.quote.pcrs, e.quote.message)
           /\ r.ReportDataMatch \in CheckReportData(e.quote.message, p.ExpectedReportData)
           /\ r.InitDataMatch \in
                 CheckInitData(e.quote.message, e.quote.pcrs, p.ExpectedInitDataHash)
<1>1. PICK hcl \in decode(e, platform) :
         /\ VerifyTPMSignature(e.quote.signature, e.quote.message, hcl.varData)
         /\ VerifyTPMPCRs(e.quote.message, e.quote.pcrs)
         /\ HardwareAccepts(e.report, hwParams(p), platform)
         /\ VerifyHCLVarDataBinding(e.report.reportData, hcl.varData)
         /\ \E rd \in CheckReportData(e.quote.message, p.ExpectedReportData),
               id \in CheckInitData(e.quote.message, e.quote.pcrs, p.ExpectedInitDataHash) :
               r = [report |-> e.report,
                    tpm |-> ApplyTPMClaims(e.quote.pcrs, e.quote.message),
                    ReportDataMatch |-> rd, InitDataMatch |-> id]
    BY DEF VerifyEvidence
<1>2. hcl = e.hcl /\ e.quote # None
    BY DEF decode, ParseHCLReport
<1>3. e.report.genuine /\ e.report.reportData = e.hcl.varData
    BY <1>1, <1>2 DEF HardwareAccepts, VerifyHCLVarDataBinding
<1> QED BY <1>1, <1>2, <1>3

(* Accepted evidence that carries a nonce is one guest's: the report, the  *)
(* key and the quote (VerifyTPMSignature, VerifyHCLVarDataBinding).        *)
LEMMA OneGuest ==
    ASSUME NEW e, Sent(e), NEW p, NEW platform, NEW r \in VerifyEvidence(e, p, platform),
           ExtractTPMNonce(e.quote.message) # {}
    PROVE  \E g \in Guests : \E q \in quoted[g] :
              r.report = Report(g) /\ e.quote.message = Message(q)
<1>1. PICK g \in Guests : e.report = Report(g)
    BY Checked DEF Sent
<1>2. e.hcl.varData = VarData(g)
    BY <1>1, Checked DEF Report
<1>3. e.quote.signature = [key |-> <<"AK", g>>, over |-> e.quote.message]
    <2>1. PICK pub \in ExtractAKPub(VarData(g)) :
             e.quote.signature = [key |-> pub, over |-> e.quote.message]
        BY <1>2, Checked DEF VerifyTPMSignature
    <2> QED BY <2>1, AKOfGuest
<1>4. e.quote.message.magic
    BY DEF ExtractTPMNonce
<1>5. e.quote.signature \notin Forged.signatures
    <2> SUFFICES ASSUME e.quote.signature \in Forged.signatures PROVE FALSE
        OBVIOUS
    <2>1. e.quote.signature.key = <<"AK", g>> /\ e.quote.signature.over = e.quote.message
        BY <1>3
    <2> QED BY <1>4, <2>1, ForgedAssumption
<1>6. PICK h \in Guests : \E x \in quoted[h] :
         e.quote.signature = [key |-> <<"AK", h>>, over |-> Message(x)]
    BY <1>5, Checked DEF Sent, Signature
<1>7. PICK q \in quoted[h] :
         e.quote.signature = [key |-> <<"AK", h>>, over |-> Message(q)]
    BY <1>6
<1>8. h = g /\ e.quote.message = Message(q)
    <2>1. /\ e.quote.signature.key = <<"AK", g>> /\ e.quote.signature.key = <<"AK", h>>
          /\ e.quote.signature.over = e.quote.message
          /\ e.quote.signature.over = Message(q)
        <3>1. e.quote.signature.key = <<"AK", g>> /\ e.quote.signature.over = e.quote.message
            BY <1>3
        <3>2. e.quote.signature.key = <<"AK", h>> /\ e.quote.signature.over = Message(q)
            BY <1>7
        <3> QED BY <3>1, <3>2
    <2>2. <<"AK", g>> = <<"AK", h>>
        BY <2>1
    <2> QED BY <2>1, <2>2
<1>9. r.report = Report(g)
    BY <1>1, Checked
<1> QED BY <1>6, <1>8, <1>9, <1>7

-----------------------------------------------------------------------------
(* Results are explained. *)

(* A piece a sender had it still has: vTPMs only quote more. *)
LEMMA SentLater ==
    ASSUME \A g \in Guests : quoted[g] \subseteq quoted'[g]
    PROVE  \A e : Sent(e) => Sent(e)'
<1>1. \A s : Signature(s) => Signature(s)'
    BY DEF Signature
<1> QED BY <1>1 DEF Sent

(* What the verifier returns is None or one of the results. *)
LEMMA VerifyExplains ==
    ASSUME NEW e, NEW platform, Verify(e, platform), Sent(e)
    PROVE  Explained'
<1>1. PICK p \in Params :
         /\ params' = p
         /\ LET result == VerifyEvidence(e, p, platform)
            IN  res' = IF result = {} THEN None ELSE CHOOSE r \in result : TRUE
    BY DEF Verify
<1> DEFINE result == VerifyEvidence(e, p, platform)
<1>2. ASSUME res' # None PROVE res' \in result
    <2> HIDE DEF result
    <2> QED BY <1>1, <1>2 DEF result
<1>3. Sent(e)'
    <2>1. \A g \in Guests : quoted[g] \subseteq quoted'[g]
        BY DEF Verify
    <2> QED BY <2>1, SentLater
<1>4. VerifyEvidence(e, params', platform) = result
    BY <1>1
<1> QED BY <1>2, <1>3, <1>4 DEF Explained

(* The evidence of the two actions is what a sender can put together. *)
LEMMA MixedIsSent ==
    ASSUME VerifyMixed
    PROVE  Explained'
<1>1. PICK q \in Sendable, hcl \in {HCL(g) : g \in Guests} \cup Forged.hcls,
           report \in {Report(g) : g \in Guests} \cup Forged.reports :
         Verify([version |-> 1, oversize |-> {}, garbled |-> {}, hcl |-> hcl,
                 report |-> report, quote |-> q], report.platform)
    BY DEF VerifyMixed
<1> DEFINE e == [version |-> 1, oversize |-> {}, garbled |-> {}, hcl |-> hcl,
                 report |-> report, quote |-> q]
<1>2. (\E g \in Guests : report = Report(g)) \/ ~report.genuine
    BY ForgedAssumption
<1>3. Signature(q.signature)
    <2> DEFINE genuine == {Quote(x.guest, x.quote).signature : x \in Made}
    <2>1. q.signature \in genuine \cup Forged.signatures
        <3> DEFINE pairs == {<<s, s.over>> : s \in genuine \cup Forged.signatures}
                               \cup {<<s, f.over>> : s \in genuine, f \in Forged.signatures}
        <3>1. PICK sm \in pairs : q.signature = sm[1]
            BY DEF Sendable
        <3> HIDE DEF genuine
        <3> QED BY <3>1
    <2>2. ASSUME NEW s \in genuine
          PROVE  \E g \in Guests : \E x \in quoted[g] :
                    s = [key |-> <<"AK", g>>, over |-> Message(x)]
        <3>1. PICK m \in Made : s = Quote(m.guest, m.quote).signature
            OBVIOUS
        <3>2. m.guest \in Guests /\ m.quote \in quoted[m.guest]
            BY DEF Made
        <3> QED BY <3>1, <3>2 DEF Quote
    <2> HIDE DEF genuine
    <2> QED BY <2>1, <2>2 DEF Signature
<1>4. Sent(e)
    BY <1>2, <1>3 DEF Sent
<1> HIDE DEF e
<1> QED BY <1>1, <1>4, VerifyExplains DEF e

(* The guest's own evidence, damaged, is explained like any other. *)
LEMMA DamagedIsSent ==
    ASSUME VerifyDamaged
    PROVE  Explained'
<1>1. PICK x \in Made, platform \in Platforms :
         \E e \in Damaged(Evidence(x.guest, x.quote)) : Verify(e, platform)
    BY DEF VerifyDamaged
<1>2. PICK e \in Damaged(Evidence(x.guest, x.quote)) : Verify(e, platform)
    BY <1>1
<1>3. x.guest \in Guests /\ x.quote \in quoted[x.guest]
    BY DEF Made
<1> DEFINE quote == Quote(x.guest, x.quote)
<1>4. e.report = Report(x.guest) /\ (e.quote = None \/ e.quote.signature = quote.signature)
    <2> DEFINE o == Evidence(x.guest, x.quote)
    <2>1. o.report = Report(x.guest) /\ o.quote.signature = quote.signature
        BY DEF Evidence
    <2>2. /\ DOMAIN o = {"version", "oversize", "garbled", "hcl", "report", "quote"}
          /\ DOMAIN o.quote = {"signature", "message", "pcrs"}
        BY DEF Evidence, Quote
    <2>3. e \in Damaged(o)
        BY <1>2
    <2> HIDE DEF o, quote
    <2> QED BY <2>1, <2>2, <2>3 DEF Damaged
<1>5. Signature(quote.signature)
    BY <1>3 DEF Signature, Quote
<1>6. Sent(e)
    BY <1>3, <1>4, <1>5 DEF Sent
<1> QED BY <1>2, <1>6, VerifyExplains

(* vTPMs extend, reboot and quote only before the call, and results are    *)
(* those of the one call.                                                  *)
LEMMA StepExplains ==
    ASSUME Explained, DOMAIN quoted = Guests, [Next]_vars
    PROVE  Explained' /\ DOMAIN quoted' = Guests
<1>1. DOMAIN quoted' = Guests /\ \A g \in Guests : quoted[g] \subseteq quoted'[g]
    <2>1. ASSUME NEW g \in Guests, MakeQuote(g)
          PROVE  DOMAIN quoted' = Guests /\ \A h \in Guests : quoted[h] \subseteq quoted'[h]
        BY <2>1 DEF MakeQuote
    <2>2. CASE quoted' = quoted
        BY <2>2
    <2> QED BY <2>1, <2>2 DEF Next, vars, Extend, Reboot, VerifyMixed, VerifyDamaged, Verify,
                              Returned
<1>2. CASE UNCHANGED <<params, res>>
    <2>1. ASSUME NEW e, NEW platform, res \in VerifyEvidence(e, params, platform)
          PROVE  res' \in VerifyEvidence(e, params', platform)
        BY <1>2, <2>1
    <2>2. \A e : Sent(e) => Sent(e)'
        BY <1>1, SentLater
    <2> QED BY <1>1, <1>2, <2>1, <2>2 DEF Explained
<1>3. CASE VerifyMixed
    BY <1>1, <1>3, MixedIsSent
<1>4. CASE VerifyDamaged
    BY <1>1, <1>4, DamagedIsSent
<1> QED BY <1>1, <1>2, <1>3, <1>4 DEF Next, vars, Extend, Reboot, MakeQuote, Returned

(* Whatever the verifier returns it found in evidence somebody could send  *)
(* (VerifyEvidence).                                                       *)
THEOREM AlwaysExplained == Spec => []Explained
<1>1. Init => Explained /\ DOMAIN quoted = Guests
    BY DEF Init, Explained
<1>2. Explained /\ DOMAIN quoted = Guests /\ [Next]_vars
        => (Explained /\ DOMAIN quoted = Guests)'
    BY StepExplains
<1> QED BY <1>1, <1>2, PTL DEF Spec

-----------------------------------------------------------------------------
(* The vTPMs. *)

(* Registers hold what was extended, and quotes what registers held.       *)
Held == pcr \in [Guests -> Registers] /\ quoted \in [Guests -> SUBSET Quotes]

(* Extends, reboots and quotes are of the registers of a guest's vTPM.     *)
LEMMA AlwaysHeld == Spec => []Held
<1>1. Init => Held
    <2>1. << >> \in Seq(Measurements)
        OBVIOUS
    <2>2. Zeros \in Registers
        BY <2>1 DEF Zeros, Registers
    <2> QED BY <2>2 DEF Init, Held
<1>2. ASSUME Held, [Next]_vars PROVE Held'
    <2>1. ASSUME NEW g \in Guests, Extend(g) PROVE Held'
        <3>1. PICK i \in PCRs, x \in Measurements : pcr' = [pcr EXCEPT ![g][i] = Append(@, x)]
            BY <2>1 DEF Extend
        <3>2. pcr[g] \in Registers /\ pcr[g][i] \in Seq(Measurements)
            BY <1>2 DEF Held, Registers
        <3>3. Append(pcr[g][i], x) \in Seq(Measurements)
            BY <3>2
        <3>4. [pcr[g] EXCEPT ![i] = Append(@, x)] \in Registers
            BY <3>2, <3>3 DEF Registers
        <3>5. pcr' = [pcr EXCEPT ![g] = [pcr[g] EXCEPT ![i] = Append(@, x)]]
            BY <3>1
        <3>6. quoted' = quoted
            BY <2>1 DEF Extend
        <3> QED BY <1>2, <3>4, <3>5, <3>6 DEF Held
    <2>2. ASSUME NEW g \in Guests, Reboot(g) PROVE Held'
        <3>1. << >> \in Seq(Measurements)
            OBVIOUS
        <3>2. Zeros \in Registers
            BY <3>1 DEF Zeros, Registers
        <3> QED BY <1>2, <2>2, <3>2 DEF Reboot, Held
    <2>3. ASSUME NEW g \in Guests, MakeQuote(g) PROVE Held'
        <3>1. PICK nonce \in Nonces, sel \in Selections :
                 quoted' = [quoted EXCEPT ![g] =
                               @ \cup {[nonce |-> nonce, selected |-> sel, pcrs |-> pcr[g]]}]
            BY <2>3 DEF MakeQuote
        <3>2. pcr[g] \in Registers /\ quoted[g] \in SUBSET Quotes
            BY <1>2 DEF Held
        <3>3. [nonce |-> nonce, selected |-> sel, pcrs |-> pcr[g]] \in Quotes
            BY <3>2 DEF Quotes
        <3>4. quoted[g] \cup {[nonce |-> nonce, selected |-> sel, pcrs |-> pcr[g]]} \in SUBSET Quotes
            BY <3>2, <3>3
        <3>5. pcr' = pcr
            BY <2>3 DEF MakeQuote
        <3> QED BY <1>2, <3>1, <3>4, <3>5 DEF Held
    <2>4. CASE UNCHANGED <<pcr, quoted>>
        BY <1>2, <2>4 DEF Held
    <2> QED BY <1>2, <2>1, <2>2, <2>3, <2>4
            DEF Next, vars, VerifyMixed, VerifyDamaged, Verify, Returned
<1> QED BY <1>1, <1>2, PTL DEF Spec

-----------------------------------------------------------------------------
(* What the caller may conclude. *)

(* A nonce that matched is of a quote by the reported guest's own vTPM.    *)
THEOREM NoncesAreTheGuests == Spec => []MatchedNonceIsTheGuests
<1>1. Explained => MatchedNonceIsTheGuests
    <2> SUFFICES ASSUME Explained, res # None, res.ReportDataMatch = TRUE
                 PROVE  \E q \in Reported : q.nonce = params.ExpectedReportData
        BY DEF MatchedNonceIsTheGuests
    <2>1. PICK e, platform : Sent(e) /\ res \in VerifyEvidence(e, params, platform)
        BY DEF Explained
    <2>2. params.ExpectedReportData \in ExtractTPMNonce(e.quote.message)
        <3>1. TRUE \in CheckReportData(e.quote.message, params.ExpectedReportData)
            BY <2>1, Checked
        <3> QED BY <3>1, NoneIsNoVerdict DEF CheckReportData, VerifyTPMNonce
    <2>3. PICK g \in Guests : \E q \in quoted[g] :
             res.report = Report(g) /\ e.quote.message = Message(q)
        BY <2>1, <2>2, OneGuest
    <2>4. PICK q \in quoted[g] : res.report = Report(g) /\ e.quote.message = Message(q)
        BY <2>3
    <2>5. q \in Reported
        BY <2>3, <2>4 DEF Reported
    <2>6. q.nonce = params.ExpectedReportData
        BY <2>2, <2>4 DEF ExtractTPMNonce, Message
    <2> QED BY <2>5, <2>6
<1> QED BY <1>1, AlwaysExplained, PTL

(* The quote an accepted nonce is of: the registers published, and the     *)
(* init-data register where it was compared, are those it was made over.   *)
LEMMA QuoteBehind ==
    ASSUME Explained, Held, res # None, res.tpm.nonce # {}, OneBankQuoted
    PROVE  \E q \in Reported :
              /\ res.tpm.nonce = {q.nonce}
              /\ \A i \in DOMAIN res.tpm.pcrs :
                    res.tpm.pcrs[i] = Value(q.selected[1].alg, q.pcrs[i])
              /\ res.InitDataMatch = TRUE =>
                    q.pcrs[InitPCR] = <<params.ExpectedInitDataHash>>
<1>1. PICK e, platform : Sent(e) /\ res \in VerifyEvidence(e, params, platform)
    BY DEF Explained
<1>2. /\ res.tpm = ApplyTPMClaims(e.quote.pcrs, e.quote.message)
      /\ VerifyTPMPCRs(e.quote.message, e.quote.pcrs)
      /\ res.InitDataMatch \in
            CheckInitData(e.quote.message, e.quote.pcrs, params.ExpectedInitDataHash)
    BY <1>1, Checked
<1>3. res.tpm.nonce = ExtractTPMNonce(e.quote.message)
    BY <1>2 DEF ApplyTPMClaims
<1>4. PICK g \in Guests : \E q \in quoted[g] :
         res.report = Report(g) /\ e.quote.message = Message(q)
    BY <1>1, <1>3, OneGuest
<1>5. PICK q \in quoted[g] : res.report = Report(g) /\ e.quote.message = Message(q)
    BY <1>4
<1>6. q \in Reported
    BY <1>4, <1>5 DEF Reported
<1>7. res.tpm.nonce = {q.nonce}
    BY <1>3, <1>5 DEF ExtractTPMNonce, Message
<1>8. q \in Quotes /\ Len(q.selected) = 1
    <2>1. q \in Quotes
        BY <1>4, <1>5 DEF Held
    <2> QED BY <1>6, <1>7, <2>1 DEF OneBankQuoted
<1>9. ASSUME NEW i \in DOMAIN res.tpm.pcrs
      PROVE  res.tpm.pcrs[i] = Value(q.selected[1].alg, q.pcrs[i])
    <2>1. /\ i \in SignedPCRSelection(Message(q))
          /\ res.tpm.pcrs[i] = e.quote.pcrs[i]
        BY <1>2, <1>5, <1>9 DEF ApplyTPMClaims
    <2> QED BY <1>2, <1>5, <1>8, <2>1, SignedRegisters
<1>10. ASSUME res.InitDataMatch = TRUE
       PROVE  q.pcrs[InitPCR] = <<params.ExpectedInitDataHash>>
    <2>1. /\ InitPCR \in SignedPCRSelection(Message(q))
          /\ e.quote.pcrs[InitPCR] = Value("sha256", <<params.ExpectedInitDataHash>>)
        BY <1>2, <1>5, <1>10, NoneIsNoVerdict DEF CheckInitData
    <2>2. e.quote.pcrs[InitPCR] = Value(q.selected[1].alg, q.pcrs[InitPCR])
        BY <1>2, <1>5, <1>8, <2>1, SignedRegisters
    <2>3. q.selected[1].alg \in DOMAIN Width /\ "sha256" \in DOMAIN Width
        BY <1>8, OwnSelection, RegistersAssumption
    <2> QED BY <2>1, <2>2, <2>3, ValueApart
<1> QED BY <1>6, <1>7, <1>9, <1>10

(* Registers published beside a nonce are those it was quoted with, if it  *)
(* was quoted over one bank, whatever values came along: a bank of another *)
(* width than 32 bytes does not pass (VerifyTPMPCRs, ApplyTPMClaims).      *)
THEOREM PublishedWereHeld == Spec => []PublishedPCRsWereHeld
<1>1. Explained /\ Held => PublishedPCRsWereHeld
    BY QuoteBehind DEF PublishedPCRsWereHeld
<1> QED BY <1>1, AlwaysExplained, AlwaysHeld, PTL

(* Init data that matched beside a nonce was PCR[8]'s only extend when the *)
(* nonce was quoted, if it was quoted over one bank (CheckInitData).       *)
THEOREM InitDataWasMeasured == Spec => []MatchedInitDataWasMeasured
<1>1. Explained /\ Held => MatchedInitDataWasMeasured
    BY QuoteBehind DEF MatchedInitDataWasMeasured
<1> QED BY <1>1, AlwaysExplained, AlwaysHeld, PTL

-----------------------------------------------------------------------------
(* A guest's own evidence. *)

(* A guest's runtime data names its AK, and it is the one extracted. *)
LEMMA OwnAK ==
    ASSUME NEW g \in Guests
    PROVE  <<"AK", g>> \in ExtractAKPub(VarData(g))
<1> DEFINE v == VarData(g)
           named == {i \in DOMAIN v.keys : v.keys[i].kid = "HCLAkPub" /\ v.keys[i].rsa}
<1>1. /\ v.form = "jwk" /\ DOMAIN v.keys = 1..2
      /\ v.keys[1].kid = "HCLEkPub" /\ v.keys[2].kid = "HCLAkPub" /\ v.keys[2].rsa
      /\ v.keys[2].pub = <<"AK", g>>
    BY DEF VarData
<1>2. named = {2}
    BY <1>1
<1>3. Min(named) = 2
    BY <1>2 DEF Min
<1>4. <<"AK", g>> # None
    BY ValuesAssumption
<1>5. extractAKPubFromJWK(v) = {v.keys[Min(named)].pub} \ {None}
    BY <1>1, <1>2 DEF extractAKPubFromJWK
<1> HIDE DEF v, named
<1>6. <<"AK", g>> \in extractAKPubFromJWK(v)
    BY <1>1, <1>3, <1>4, <1>5
<1> QED BY <1>6 DEF ExtractAKPub, v

(* The registers sent with a quote of the SHA-256 bank check against it    *)
(* (VerifyTPMPCRs).                                                        *)
LEMMA OwnRegisters ==
    ASSUME NEW q \in Quotes, Len(q.selected) = 1, q.selected[1].alg = "sha256"
    PROVE  VerifyTPMPCRs(Message(q), Sha256Bank(q))
<1> DEFINE regs == q.selected[1].regs
           s == Sorted(regs)
           n == Cardinality(regs)
           pcrs == Sha256Bank(q)
<1>1. DOMAIN pcrs = PCRs /\ \A i \in PCRs : pcrs[i] = Value("sha256", q.pcrs[i])
    BY DEF Sha256Bank
<1>2. \A i \in DOMAIN pcrs : pcrs[i] \in [1..Slot -> ToSet(pcrs[i])]
    <2> HIDE DEF pcrs
    <2>1. ASSUME NEW i \in PCRs PROVE pcrs[i] \in [1..Slot -> ToSet(pcrs[i])]
        <3>1. pcrs[i] = [k \in 1..Slot |-> pcrs[i][k]]
            BY <1>1 DEF Value, Slot
        <3> QED BY <3>1 DEF ToSet
    <2> QED BY <1>1, <2>1
<1>3. /\ regs \in SUBSET PCRs /\ n \in Nat /\ s \in [1..n -> regs] /\ ToSet(s) = regs
      /\ Message(q).digest = Covered(q.selected[1], q.pcrs)
      /\ parseQuoteInfo(Message(q)) = {[selected |-> s, digest |-> Message(q).digest]}
    BY OwnSelection
<1>4. Len(s) = n
    <2> HIDE DEF s, n
    <2> QED BY <1>3
<1>5. [k \in 1..n |-> pcrs[s[k]]] = [k \in 1..n |-> Value("sha256", q.pcrs[s[k]])]
    <2> HIDE DEF s, n, pcrs
    <2> QED BY <1>1, <1>3
<1>6. Joined([k \in 1..Len(s) |-> pcrs[s[k]]], Slot) = Message(q).digest
    BY <1>3, <1>4, <1>5 DEF Covered, Slot
<1> HIDE DEF s, n, pcrs, regs
<1>7. ToSet(s) \subseteq DOMAIN pcrs
    BY <1>1, <1>3
<1>8. VerifyTPMPCRs(Message(q), pcrs)
    <2> DEFINE info == [selected |-> s, digest |-> Message(q).digest]
    <2>1. info \in parseQuoteInfo(Message(q)) /\ info.selected = s /\ info.digest = Message(q).digest
        BY <1>3
    <2> HIDE DEF info
    <2>2. /\ ToSet(info.selected) \subseteq DOMAIN pcrs
          /\ Joined([k \in 1..Len(info.selected) |-> pcrs[info.selected[k]]], Slot) = info.digest
        BY <1>6, <1>7, <2>1
    <2>3. DOMAIN pcrs # {}
        BY <1>1, RegistersAssumption
    <2> QED BY <1>2, <2>1, <2>2, <2>3 DEF VerifyTPMPCRs
<1> QED BY <1>8 DEF pcrs

(* A guest's evidence is there: neither the quote nor what the report      *)
(* binds is the absent one.                                                *)
LEMMA OwnIsPresent ==
    ASSUME NEW g \in Guests, NEW q \in Quotes, Len(q.selected) = 1
    PROVE  Quote(g, q) # None
<1> DEFINE alg == q.selected[1].alg
           regs == q.selected[1].regs
           n == Cardinality(regs)
           s == Sorted(regs)
<1>1. ASSUME NEW a \in DOMAIN Width, NEW h \in Seq(Measurements)
      PROVE  Value(a, h) \in [1..Width[a] -> Bytes] /\ Value(a, h) \in Seq(Bytes)
    <2>1. Width[a] \in Nat
        BY RegistersAssumption
    <2>2. Value(a, h) \in [1..Width[a] -> Bytes]
        BY <2>1 DEF Value, Bytes
    <2> QED BY <2>1, <2>2
<1>2. q.nonce \in Nonces /\ q.selected \in Selections
      /\ \A i \in PCRs : q.pcrs[i] \in Seq(Measurements)
    BY DEF Quotes, Registers
<1>3. /\ alg \in DOMAIN Width /\ regs \in SUBSET PCRs /\ n \in Nat /\ s \in [1..n -> regs]
      /\ Message(q).digest = Covered(q.selected[1], q.pcrs)
    BY OwnSelection
<1>4. Message(q).digest \in Seq(Bytes)
    <2> DEFINE values == [k \in 1..n |-> Value(alg, q.pcrs[s[k]])]
               w == Width[alg]
    <2>1. Message(q).digest = Joined(values, w)
        BY <1>3 DEF Covered
    <2>2. w \in Nat \ {0}
        BY <1>3, RegistersAssumption
    <2> HIDE DEF n, s, alg, regs
    <2>3. values \in [1..n -> [1..w -> Bytes]]
        BY <1>1, <1>2, <1>3
    <2>4. Len(values) = n
        BY <1>3
    <2> HIDE DEF values, w
    <2>5. ASSUME NEW b \in 1..(n * w)
          PROVE  values[1 + ((b - 1) \div w)][1 + ((b - 1) % w)] \in Bytes
        <3>1. /\ (b - 1) \div w \in Nat /\ (b - 1) % w \in 0..(w - 1)
              /\ b - 1 = w * ((b - 1) \div w) + ((b - 1) % w)
            BY <1>3, <2>2
        <3>2. (b - 1) \div w < n
            BY <1>3, <2>2, <3>1
        <3> QED BY <1>3, <2>2, <2>3, <3>1, <3>2
    <2>6. Joined(values, w) \in [1..(n * w) -> Bytes]
        BY <2>4, <2>5 DEF Joined
    <2>7. n * w \in Nat
        BY <1>3, <2>2
    <2> QED BY <2>1, <2>6, <2>7
<1>5. Message(q) \in Statements
    BY <1>2, <1>4 DEF Message, Statements
<1>6. Sha256Bank(q) \in [PCRs -> Seq(Bytes)]
    BY <1>1, <1>2, RegistersAssumption DEF Sha256Bank
<1>7. Quote(g, q) \in [signature : [key : {<<"AK", h>> : h \in Guests}, over : Statements],
                       message : Statements, pcrs : [PCRs -> Seq(Bytes)]]
    BY <1>5, <1>6 DEF Quote
<1> QED BY <1>7, ValuesAssumption

(* The registers a result publishes of a guest's own evidence.             *)
LEMMA OwnClaims ==
    ASSUME NEW q \in Quotes, Len(q.selected) = 1
    PROVE  ApplyTPMClaims(Sha256Bank(q), Message(q)).pcrs =
              [i \in q.selected[1].regs |-> Value("sha256", q.pcrs[i])]
<1> DEFINE regs == q.selected[1].regs
           m == Message(q)
           bank == Sha256Bank(q)
<1>1. SignedPCRSelection(m) = regs /\ regs \in SUBSET PCRs
    BY OwnSelection
<1>2. DOMAIN bank = PCRs /\ \A i \in PCRs : bank[i] = Value("sha256", q.pcrs[i])
    BY DEF Sha256Bank
<1>3. ApplyTPMClaims(bank, m).pcrs = [i \in SignedPCRSelection(m) \cap DOMAIN bank |-> bank[i]]
    BY DEF ApplyTPMClaims
<1> HIDE DEF regs, m, bank
<1>4. regs \cap PCRs = regs
    BY <1>1
<1>5. ApplyTPMClaims(bank, m).pcrs = [i \in regs |-> Value("sha256", q.pcrs[i])]
    BY <1>1, <1>2, <1>3, <1>4
<1> QED BY <1>5 DEF regs, m, bank

(* The two values a caller may expect of the vTPM, of a guest's own quote. *)
LEMMA OwnMatches ==
    ASSUME NEW q \in Quotes, Len(q.selected) = 1, NEW p
    PROVE  /\ CheckReportData(Message(q), p.ExpectedReportData) =
                 IF p.ExpectedReportData = None THEN {None}
                 ELSE IF p.ExpectedReportData = q.nonce THEN {TRUE} ELSE {}
           /\ CheckInitData(Message(q), Sha256Bank(q), p.ExpectedInitDataHash) =
                 IF p.ExpectedInitDataHash = None THEN {None}
                 ELSE IF /\ InitPCR \in q.selected[1].regs
                         /\ q.pcrs[InitPCR] = <<p.ExpectedInitDataHash>>
                      THEN {TRUE} ELSE {}
<1> DEFINE hash == p.ExpectedInitDataHash
           regs == q.selected[1].regs
<1>1. Message(q).magic /\ Message(q).cut = "no" /\ Message(q).nonce = q.nonce
    BY DEF Message
<1>2. SignedPCRSelection(Message(q)) = regs /\ regs \in SUBSET PCRs
    BY OwnSelection
<1>3. \A i \in PCRs : i \in DOMAIN Sha256Bank(q) /\ Sha256Bank(q)[i] = Value("sha256", q.pcrs[i])
    BY DEF Sha256Bank
<1>4. ASSUME NEW i \in PCRs
      PROVE  /\ Value("sha256", q.pcrs[i]) = Value("sha256", <<hash>>) <=> q.pcrs[i] = <<hash>>
             /\ q.pcrs[i] = <<hash>> => hash # Wrong
    <2>1. "sha256" \in DOMAIN Width
        BY RegistersAssumption
    <2>2. q.pcrs[i] \in Seq(Measurements)
        BY DEF Quotes, Registers
    <2>3. <<hash>> \in Seq(Measurements) => hash \in Measurements
        <3>1. \A x \in Seq(Measurements) : \A k \in 1..Len(x) : x[k] \in Measurements
            OBVIOUS
        <3> QED BY <3>1
    <2>4. Value("sha256", q.pcrs[i]) = Value("sha256", <<hash>>) => q.pcrs[i] = <<hash>>
        BY <2>1, ValueApart
    <2> QED BY <2>2, <2>3, <2>4, ValuesAssumption
<1>5. CheckReportData(Message(q), p.ExpectedReportData) =
         IF p.ExpectedReportData = None THEN {None}
         ELSE IF p.ExpectedReportData = q.nonce THEN {TRUE} ELSE {}
    BY <1>1 DEF CheckReportData, VerifyTPMNonce, ExtractTPMNonce
<1> HIDE DEF hash, regs
<1>6. CheckInitData(Message(q), Sha256Bank(q), hash) =
         IF hash = None THEN {None}
         ELSE IF InitPCR \in regs /\ q.pcrs[InitPCR] = <<hash>> THEN {TRUE} ELSE {}
    BY <1>2, <1>3, <1>4 DEF CheckInitData
<1> QED BY <1>5, <1>6 DEF hash, regs

(* A guest's own evidence over the SHA-256 bank is accepted by the callers *)
(* whose expectations it meets and no others, with both matches reported   *)
(* and the quoted registers published (VerifyEvidence, hwParams,           *)
(* ApplyTPMClaims).                                                        *)
THEOREM HonestIsAccepted == Spec => []HonestEvidenceAccepted
<1>1. ASSUME Held PROVE HonestEvidenceAccepted
    <2> SUFFICES ASSUME NEW g \in Guests, NEW q \in quoted[g], NEW regs \in SUBSET PCRs,
                        q.selected = <<[alg |-> "sha256", regs |-> regs]>>, NEW p \in Params
                 PROVE  LET results == VerifyEvidence(Evidence(g, q), p, Machine[g].platform)
                        IN  /\ results # {} <=> p \in Expectations(g, q, regs)
                            /\ \A r \in results :
                                  /\ r.ReportDataMatch = IF p.ExpectedReportData = None THEN None ELSE TRUE
                                  /\ r.InitDataMatch = IF p.ExpectedInitDataHash = None THEN None ELSE TRUE
                                  /\ r.tpm.pcrs = [i \in regs |-> Value("sha256", q.pcrs[i])]
        BY DEF HonestEvidenceAccepted
    <2> DEFINE e == Evidence(g, q)
               m == Message(q)
               bank == Sha256Bank(q)
               platform == Machine[g].platform
               results == VerifyEvidence(e, p, platform)
               rd == IF p.ExpectedReportData = None THEN None ELSE TRUE
               id == IF p.ExpectedInitDataHash = None THEN None ELSE TRUE
    <2>1. /\ q \in Quotes /\ Len(q.selected) = 1
          /\ q.selected[1].alg = "sha256" /\ q.selected[1].regs = regs
        BY <1>1 DEF Held
    <2>2. /\ e.version = 1 /\ e.oversize = {} /\ e.garbled = {}
          /\ e.hcl = HCL(g) /\ e.report = Report(g) /\ e.quote = Quote(g, q)
          /\ e.quote.signature = [key |-> <<"AK", g>>, over |-> m]
          /\ e.quote.message = m /\ e.quote.pcrs = bank
        BY DEF Evidence, Quote
    <2>3. /\ CheckReportData(m, p.ExpectedReportData) =
                IF p.ExpectedReportData = None THEN {None}
                ELSE IF p.ExpectedReportData = q.nonce THEN {TRUE} ELSE {}
          /\ CheckInitData(m, bank, p.ExpectedInitDataHash) =
                IF p.ExpectedInitDataHash = None THEN {None}
                ELSE IF /\ InitPCR \in regs /\ q.pcrs[InitPCR] = <<p.ExpectedInitDataHash>>
                     THEN {TRUE} ELSE {}
        BY <2>1, OwnMatches
    <2>4. HardwareAccepts(Report(g), hwParams(p), platform)
            <=> p.ExpectedLaunchDigest \in {None, Machine[g].launch}
        <3>1. /\ hwParams(p).ExpectedReportData = None
              /\ hwParams(p).ExpectedInitDataHash = None
              /\ hwParams(p).ExpectedLaunchDigest = p.ExpectedLaunchDigest
            BY ParamsAssumption DEF hwParams
        <3> QED BY <3>1 DEF HardwareAccepts, Report
    <2>5. ASSUME NEW r \in results
          PROVE  /\ p \in Expectations(g, q, regs)
                 /\ r.ReportDataMatch = rd /\ r.InitDataMatch = id
                 /\ r.tpm.pcrs = [i \in regs |-> Value("sha256", q.pcrs[i])]
        <3>1. /\ HardwareAccepts(e.report, hwParams(p), platform)
              /\ r.tpm = ApplyTPMClaims(e.quote.pcrs, e.quote.message)
              /\ r.ReportDataMatch \in CheckReportData(e.quote.message, p.ExpectedReportData)
              /\ r.InitDataMatch \in
                    CheckInitData(e.quote.message, e.quote.pcrs, p.ExpectedInitDataHash)
            BY <2>5, Checked
        <3> HIDE DEF e, m, bank, platform, results
        <3>2. r.ReportDataMatch = rd /\ p.ExpectedReportData \in {None, q.nonce}
            BY <2>2, <2>3, <3>1
        <3>3. /\ r.InitDataMatch = id
              /\ \/ p.ExpectedInitDataHash = None
                 \/ InitPCR \in regs /\ q.pcrs[InitPCR] = <<p.ExpectedInitDataHash>>
            <4> DEFINE found == InitPCR \in regs /\ q.pcrs[InitPCR] = <<p.ExpectedInitDataHash>>
            <4>1. r.InitDataMatch \in IF p.ExpectedInitDataHash = None THEN {None}
                                      ELSE IF found THEN {TRUE} ELSE {}
                BY <2>2, <2>3, <3>1
            <4> HIDE DEF found
            <4>2. r.InitDataMatch = id /\ (p.ExpectedInitDataHash = None \/ found)
                BY <4>1, Zenon
            <4> QED BY <4>2 DEF found
        <3>4. p.ExpectedLaunchDigest \in {None, Machine[g].launch}
            BY <2>2, <2>4, <3>1
        <3>5. r.tpm.pcrs = [i \in regs |-> Value("sha256", q.pcrs[i])]
            BY <2>1, <2>2, <3>1, OwnClaims DEF m, bank
        <3> QED BY <3>2, <3>3, <3>4, <3>5 DEF Expectations
    <2>6. ASSUME p \in Expectations(g, q, regs) PROVE results # {}
        <3>1. HCL(g).varData = VarData(g) /\ HCL(g).whole /\ HCL(g).reportType = ReportType(platform)
            BY DEF HCL
        <3>2. HCL(g) \in decode(e, platform)
            <4>1. e.quote # None /\ VarData(g) # None
                BY <2>1, <2>2, OwnIsPresent, ValuesAssumption
            <4> HIDE DEF e, platform
            <4> QED BY <2>2, <3>1, <4>1 DEF decode, ParseHCLReport
        <3>3. VerifyTPMSignature(e.quote.signature, e.quote.message, VarData(g))
            BY <2>2, OwnAK DEF VerifyTPMSignature
        <3>4. VerifyTPMPCRs(e.quote.message, e.quote.pcrs)
            BY <2>1, <2>2, OwnRegisters
        <3>5. HardwareAccepts(e.report, hwParams(p), platform)
            BY <2>2, <2>4, <2>6 DEF Expectations
        <3>6. VerifyHCLVarDataBinding(e.report.reportData, VarData(g))
            BY <2>2 DEF VerifyHCLVarDataBinding, Report
        <3>7. rd \in CheckReportData(e.quote.message, p.ExpectedReportData)
            BY <2>2, <2>3, <2>6 DEF Expectations
        <3>8. id \in CheckInitData(e.quote.message, e.quote.pcrs, p.ExpectedInitDataHash)
            BY <2>2, <2>3, <2>6 DEF Expectations
        <3> DEFINE r == [report |-> e.report, tpm |-> ApplyTPMClaims(e.quote.pcrs, e.quote.message),
                         ReportDataMatch |-> rd, InitDataMatch |-> id]
        <3>9. r \in VerifyEvidence(e, p, platform)
            <4> HIDE DEF e, platform, rd, id
            <4> QED BY <2>2, <3>1, <3>2, <3>3, <3>4, <3>5, <3>6, <3>7, <3>8
                    DEF VerifyEvidence, checkFieldSizes
        <3> QED BY <3>9
    <2> HIDE DEF results
    <2>7. /\ results # {} <=> p \in Expectations(g, q, regs)
          /\ \A r \in results :
                /\ r.ReportDataMatch = rd /\ r.InitDataMatch = id
                /\ r.tpm.pcrs = [i \in regs |-> Value("sha256", q.pcrs[i])]
        BY <2>5, <2>6
    <2> QED BY <2>7 DEF results
<1> QED BY <1>1, AlwaysHeld, PTL

=============================================================================
