----------------------------- MODULE TdxVerify -----------------------------
(***************************************************************************)
(* tdx.VerifyEvidence: one verification of a bare-metal TDX quote, with    *)
(* the collateral it fetches and the event log it replays (tdx/tdx.go).    *)
(*                                                                         *)
(* go-tdx-guest, which checks signatures and compares fields, is external. *)
(* It fetches through a getter this package wraps with a recorder, and the *)
(* network may change what it serves between any two fetches: served holds *)
(* what a fetch would return now, signed by Intel or not.  A quote is what *)
(* the platform really is, if it is genuine.  boot is the log its firmware *)
(* wrote, held what its registers held after each of the events logged,    *)
(* and runtime what the guest extended into RTMR[3] without logging it:    *)
(* none of it does the code see but the registers at the end.              *)
(***************************************************************************)
EXTENDS Ccel, TcbStatus

CONSTANTS
    Calls,      \* the calls told apart: what may be given for each argument
    Bodies,     \* Bodies[url]: what the network may serve for a URL
    Short,      \* an expected value of the wrong width
    Width       \* of REPORTDATA and MR_CONFIG_ID, scaled down

URLs == {"tcbinfo", "qe"}

Quotes == UNION {call.quotes : call \in Calls}

Listed(levels) == levels \in Seq({levels[i] : i \in DOMAIN levels})

ASSUME NoneIsNoVerdict == None \notin BOOLEAN
ASSUME WidthAssumption == Width \in Nat

(* SVNs are numbers, and TEE_TCB_SVN is an array of one size. *)
ASSUME QuotesAssumption ==
    \E n \in 1..15 : \A q \in Quotes :
        /\ q.tee \in [0..n -> Nat] /\ q.qe \in Nat
        /\ q.pck.cpu \in Seq(Nat) /\ q.pck.pce \in Nat

ASSUME OptionsAssumption ==
    \A call \in Calls : \A o \in call.options : o.GetCollateral \in BOOLEAN

ASSUME ParamsAssumption ==
    \A call \in Calls : \A p \in call.params :
        \A b \in {p.ExpectedReportData, p.ExpectedInitDataHash} \ {None} : b \in Seq(Nat)

(* A TCB info and a QE identity parse to lists of levels with SVNs. *)
ASSUME BodiesAssumption ==
    /\ \A b \in Bodies["tcbinfo"] :
          /\ Listed(b.doc.levels) /\ Listed(b.doc.modules)
          /\ \A i \in DOMAIN b.doc.levels :
                LET l == b.doc.levels[i]
                IN  /\ l.sgx \in Seq(Nat) /\ l.pce \in Nat
                    /\ \A j \in DOMAIN l.tdx : l.tdx[j] \in Nat
          /\ \A m \in {b.doc.modules[i] : i \in DOMAIN b.doc.modules} :
                Listed(m.levels) /\ \A i \in DOMAIN m.levels : m.levels[i].isvsvn \in Nat
    /\ \A b \in Bodies["qe"] :
          Listed(b.doc) /\ \A i \in DOMAIN b.doc : b.doc[i].isvsvn \in Nat

(* Every event the firmware wrote carries a digest and is none that ends a *)
(* log, and a log is a list.                                               *)
ASSUME LogsAssumption ==
    /\ \A q \in Quotes :
          /\ q.boot \in Seq(Records) /\ q.runtime \in Seq(Digests)
          /\ \A i \in DOMAIN q.boot : /\ q.boot[i].kind = "whole" /\ ~EndsLog(q.boot[i])
                                      /\ q.boot[i].digest # None
    /\ \A call \in Calls : \A log \in call.logs \ {None} : log.records \in Seq(Records)

(* The hardware: registers start at zero, and of the measurement registers *)
(* that events name, 0 is MRTD, which is closed, and 1 to 4 are RTMR[0] to *)
(* RTMR[3].                                                                *)
ASSUME HeldAssumption ==
    \A q \in Quotes :
        /\ q.held[0] = [i \in 0..3 |-> << >>]
        /\ \A n \in 1..Len(q.boot) :
              q.held[n] = [i \in 0..3 |->
                              IF q.boot[n].mr = i + 1
                              THEN Append(q.held[n - 1][i], q.boot[n].digest)
                              ELSE q.held[n - 1][i]]

(* What the levels of a platform may come to, and a result. *)
Ratings ==
    {Summary(levels) :
        levels \in UNION {matchTCBLevels(info.doc, qe.doc, q) :
                             info \in Bodies["tcbinfo"], qe \in Bodies["qe"], q \in Quotes}}

Results ==
    [CollateralVerified : BOOLEAN, TCBStatus : Ratings \cup {None},
     EventlogVerified : BOOLEAN \cup {None}, RTMR3ReplayMatch : BOOLEAN \cup {None}]

ASSUME NoneIsNoResult == None \notin Results

VARIABLES
    quote, ccel, params, opts,  \* the arguments of the call
    served,     \* what the network serves now, by URL; None if never asked
    bodies,     \* what go-tdx-guest was given, and collateralRecorder.bodies
    pc,         \* "start", "fetching", "signed", "valid" or "done"
    res         \* the VerificationResult, None on error or before the end

arguments == <<quote, ccel, params, opts>>
vars == <<arguments, served, bodies, pc, res>>

-----------------------------------------------------------------------------
(* A platform's registers when it is quoted. *)
Registers(q) == [q.held[Len(q.boot)] EXCEPT ![3] = @ \o q.runtime]

pad(b, n) == [i \in 1..n |-> IF i <= Len(b) THEN b[i] ELSE 0]

checkAcceptedTCBStatuses(o) ==
    \/ o.AcceptedTCBStatuses = {}
    \/ /\ o.GetCollateral
       /\ \A s \in o.AcceptedTCBStatuses : ParseTCBStatus(s) /\ s # "Revoked"

(* Mutant: an expected value may be longer than its field. *)
validateOptions_AnyWidth(p) ==
    /\ p.ExpectedLaunchDigest # Short
    /\ \A i \in DOMAIN p.ExpectedRTMRs : i \in 0..3 /\ p.ExpectedRTMRs[i] # Short

(* The expected values have widths the quote's fields can have. *)
validateOptions(p) ==
    /\ p.ExpectedReportData # None => Len(p.ExpectedReportData) <= Width
    /\ p.ExpectedInitDataHash # None => Len(p.ExpectedInitDataHash) <= Width
    /\ p.ExpectedLaunchDigest # Short
    /\ \A i \in DOMAIN p.ExpectedRTMRs : i \in 0..3 /\ p.ExpectedRTMRs[i] # Short

(* go-tdx-guest's validate: the fields it was given are the quote's. *)
FieldsMatch(q, p) ==
    /\ p.ExpectedReportData # None =>
          q.reportData = pad(p.ExpectedReportData, Width)
    /\ p.ExpectedInitDataHash # None =>
          q.mrConfigId = pad(p.ExpectedInitDataHash, Width)
    /\ p.ExpectedLaunchDigest # None => q.mrTd = p.ExpectedLaunchDigest
    /\ \A i \in DOMAIN p.ExpectedRTMRs :
          p.ExpectedRTMRs[i] # None => Registers(q)[i] = p.ExpectedRTMRs[i]

(* go-tdx-guest's own status check, where it is not disabled: every level  *)
(* must be UpToDate.                                                       *)
AllUpToDate(info, qe, q) == evaluateTCBStatus(info, qe, q, {"UpToDate"}) # {}

Recording == opts.AcceptedTCBStatuses # {}

(* go-tdx-guest's verify: the quote's signature and certificate chain,     *)
(* and, when it fetches collateral, Intel's signature over both bodies.    *)
LibraryAccepts ==
    /\ quote.genuine
    /\ opts.GetCollateral =>
          /\ \A u \in URLs : bodies[u].signed
          /\ ~Recording => AllUpToDate(bodies["tcbinfo"].doc, bodies["qe"].doc, quote)

(* Mutant: the collateral is fetched anew for the evaluation. *)
body_Refetch(url) == {served[url].doc}

(* collateralRecorder.body: the document last fetched, if any was. *)
body(url) == {b.doc : b \in {bodies[url]} \ {None}}

(* The status of a verified quote: a set of at most one. *)
TCBStatus ==
    UNION {evaluateTCBStatus(info, qe, quote, opts.AcceptedTCBStatuses) :
              info \in body("tcbinfo"), qe \in body("qe")}

-----------------------------------------------------------------------------
Init ==
    /\ \E call \in Calls : /\ quote \in call.quotes /\ ccel \in call.logs
                           /\ params \in call.params /\ opts \in call.options
    /\ IF opts.GetCollateral
       THEN \E info \in Bodies["tcbinfo"], id \in Bodies["qe"] :
               served = [tcbinfo |-> info, qe |-> id]
       ELSE served = None
    /\ bodies = [u \in URLs |-> None]
    /\ pc = "start"
    /\ res = None

Fail == pc' = "done" /\ res' = None

(* What is checked before anything is fetched. *)
Parse ==
    /\ pc = "start"
    /\ IF quote.v4 /\ checkAcceptedTCBStatuses(opts)
       THEN pc' = "fetching" /\ UNCHANGED res
       ELSE Fail
    /\ UNCHANGED <<arguments, served, bodies>>

(* The network serves something else from now on. *)
Serve ==
    /\ pc \notin {"start", "done"} /\ opts.GetCollateral
    /\ \E u \in URLs : \E b \in Bodies[u] : served' = [served EXCEPT ![u] = b]
    /\ UNCHANGED <<arguments, bodies, pc, res>>

(* go-tdx-guest fetches one document through the getter. *)
Fetch(url) ==
    /\ pc = "fetching" /\ opts.GetCollateral
    /\ bodies[url] = None
    /\ bodies' = [bodies EXCEPT ![url] = served[url]]
    /\ UNCHANGED <<arguments, served, pc, res>>

FetchFails ==
    /\ pc = "fetching" /\ opts.GetCollateral
    /\ \E u \in URLs : bodies[u] = None
    /\ Fail
    /\ UNCHANGED <<arguments, served, bodies>>

(* tverify.TdxQuote returns. *)
VerifySignature ==
    /\ pc = "fetching"
    /\ opts.GetCollateral => \A u \in URLs : bodies[u] # None
    /\ IF LibraryAccepts THEN pc' = "signed" /\ UNCHANGED res ELSE Fail
    /\ UNCHANGED <<arguments, served, bodies>>

(* The rest of VerifyQuoteBytes. *)
Validate ==
    /\ pc = "signed"
    /\ IF /\ quote.debug => params.AllowDebug
          /\ validateOptions(params) /\ FieldsMatch(quote, params)
          /\ Recording => TCBStatus # {}
       THEN /\ pc' = "valid"
            /\ res' = [CollateralVerified |-> opts.GetCollateral,
                       TCBStatus |-> IF Recording THEN CHOOSE s \in TCBStatus : TRUE
                                                  ELSE None,
                       EventlogVerified |-> None, RTMR3ReplayMatch |-> None]
       ELSE Fail
    /\ UNCHANGED <<arguments, served, bodies>>

(* The rest of VerifyEvidence. *)
ReplayLog ==
    /\ pc = "valid"
    /\ IF ccel = None THEN pc' = "done" /\ UNCHANGED res
       ELSE LET match == VerifyCCELAgainstRTMRs(ccel, Registers(quote))
            IN  IF match = {} THEN Fail
                ELSE /\ pc' = "done"
                     /\ res' = [res EXCEPT !.EventlogVerified = TRUE,
                                           !.RTMR3ReplayMatch = CHOOSE m \in match : TRUE]
    /\ UNCHANGED <<arguments, served, bodies>>

Returned == pc = "done" /\ UNCHANGED vars

Next ==
    \/ Parse
    \/ Serve
    \/ \E u \in URLs : Fetch(u)
    \/ FetchFails
    \/ VerifySignature
    \/ Validate
    \/ ReplayLog
    \/ Returned

Spec == Init /\ [][Next]_vars

-----------------------------------------------------------------------------
Accepted == pc = "done" /\ res # None

Allowed == IF Recording THEN opts.AcceptedTCBStatuses ELSE {"UpToDate"}

(* The documents Intel signed. *)
Signed(url) == {b.doc : b \in {x \in Bodies[url] : x.signed}}

(* The level is one the component meets, and it meets none listed above. *)
Best(levels, Met(_), l) ==
    \E i \in DOMAIN levels :
        /\ levels[i] = l /\ Met(l)
        /\ \A j \in 1..(i - 1) : ~Met(levels[j])

(* The statuses of a platform's components by one TCB info and QE          *)
(* identity, as Intel rates them; a version of 0 means that no TDX module  *)
(* is rated by itself, and the platform is rated by all its SVNs.          *)
TrueStatuses(info, qe) ==
    LET platforms == IF quote.tee[1] = 0 THEN DOMAIN quote.tee
                     ELSE DOMAIN quote.tee \ {0, 1}
        Platform(l) ==
            /\ DOMAIN l.sgx = DOMAIN quote.pck.cpu /\ DOMAIN l.tdx = DOMAIN quote.tee
            /\ ~(quote.pck.pce < l.pce)
            /\ ~(\E i \in DOMAIN l.sgx : quote.pck.cpu[i] < l.sgx[i])
            /\ ~(\E i \in platforms : quote.tee[i] < l.tdx[i])
        Module(l) == quote.tee[0] >= l.isvsvn
        Enclave(l) == quote.qe >= l.isvsvn
        Own(m) == m.version = quote.tee[1]
        Rated(levels, Met(_)) ==
            {l.status : l \in {x \in {levels[i] : i \in DOMAIN levels} :
                                  Best(levels, Met, x)}}
    IN  [platform |-> Rated(info.levels, Platform),
         enclave |-> Rated(qe, Enclave),
         module |-> IF quote.tee[1] = 0 THEN {}
                    ELSE UNION {Rated(m.levels, Module) :
                            m \in {x \in {info.modules[i] : i \in DOMAIN info.modules} :
                                      Best(info.modules, Own, x)}}]

(* Whatever the network serves and whenever it changes, collateral counted *)
(* as verified means that Intel itself rates the platform, its module and  *)
(* its QE as the relying party accepts, and that the status reported is    *)
(* the worst of the three; Revoked never passes (checkAcceptedTCBStatuses, *)
(* collateralRecorder, evaluateTCBStatus).                                 *)
AcceptedTCBHolds ==
    (Accepted /\ res.CollateralVerified) =>
        \E info \in Signed("tcbinfo"), qe \in Signed("qe") :
            LET s == TrueStatuses(info, qe)
                all == s.platform \cup s.module \cup s.enclave
            IN  /\ s.platform # {} /\ s.enclave # {}
                /\ quote.tee[1] > 0 => s.module # {}
                /\ all \subseteq Allowed \ {"Revoked"}
                /\ Recording =>
                      /\ res.TCBStatus.TCBStatus \in all
                      /\ \A x \in all : Rank(x) <= Rank(res.TCBStatus.TCBStatus)

(* Known statuses, listed from most to least favourable, as Intel lists    *)
(* them.                                                                   *)
WellListed(levels) ==
    \A i, j \in DOMAIN levels :
        /\ ParseTCBStatus(levels[i].status)
        /\ i <= j => Rank(levels[i].status) <= Rank(levels[j].status)

Upgraded(q) ==
    {r \in Quotes :
        /\ r.tee[1] = q.tee[1] /\ r.qe >= q.qe /\ r.pck.pce >= q.pck.pce
        /\ \A i \in DOMAIN q.tee : r.tee[i] >= q.tee[i]
        /\ Len(r.pck.cpu) = Len(q.pck.cpu)
        /\ \A i \in DOMAIN q.pck.cpu : r.pck.cpu[i] >= q.pck.cpu[i]}

(* An upgrade never hurts: a platform with no SVN lower and the same TDX   *)
(* module version is rated by the same collateral no worse than the one    *)
(* just accepted (firstLevel, matchPlatformLevel, matchModuleLevel).       *)
UpgradeNeverHurts ==
    (Accepted /\ Recording) =>
        \A info \in Signed("tcbinfo"), qe \in Signed("qe") :
            (/\ WellListed(info.levels) /\ WellListed(qe)
             /\ \A i \in DOMAIN info.modules : WellListed(info.modules[i].levels))
            => \A old \in matchTCBLevels(info, qe, quote) :
                 \A r \in Upgraded(quote) :
                    \E new \in matchTCBLevels(info, qe, r) :
                        Rank(Summary(new).TCBStatus) <= Rank(Summary(old).TCBStatus)

(* What a caller expects of a field is in the signed quote to the last     *)
(* byte, and a register at its own index: padding never cuts an expected   *)
(* value down to what the quote holds (validateOptions, pad).              *)
AcceptedBindsWholeValue ==
    Accepted =>
        /\ quote.genuine
        /\ \A fv \in {<<quote.reportData, params.ExpectedReportData>>,
                      <<quote.mrConfigId, params.ExpectedInitDataHash>>} :
              fv[2] # None =>
                  \A i \in 1..Len(fv[2]) : i \in DOMAIN fv[1] /\ fv[1][i] = fv[2][i]
        /\ \A i \in DOMAIN params.ExpectedRTMRs :
              params.ExpectedRTMRs[i] # None =>
                  params.ExpectedRTMRs[i] = Registers(quote)[i]

(* Where a reader of a log finds the events of RTMR[i]: before anything    *)
(* that is no event, and in the records of MR index i + 1 that carry a     *)
(* SHA-384 digest.                                                         *)
EventsOf(log, i) ==
    {k \in DOMAIN log.records :
        /\ \A j \in 1..k : LET rec == log.records[j]
                           IN  rec.kind = "whole" /\ ~(rec.mr = 0 /\ rec.bare)
        /\ log.records[k].mr = i + 1 /\ log.records[k].digest # None}

(* The hardware extended RTMR[i] with those events and nothing else, the   *)
(* n-th of them as its n-th extend.                                        *)
TellsAll(log, i) ==
    LET own == EventsOf(log, i)
        register == Registers(quote)[i]
    IN  /\ Len(register) = Cardinality(own)
        /\ \A k \in own :
              register[Cardinality({j \in own : j <= k})] = log.records[k].digest

(* The events a reader of a verified log finds for RTMR[0-2] are exactly   *)
(* what the hardware was extended with, in that order, however the         *)
(* attester cut, reordered or padded the log; and RTMR3ReplayMatch says    *)
(* whether that is so of RTMR[3] (ParseCCEL, ReplayRTMRs,                  *)
(* VerifyCCELAgainstRTMRs).                                                *)
VerifiedLogIsBootLog ==
    (Accepted /\ res.EventlogVerified = TRUE) =>
        /\ \A i \in 0..2 : TellsAll(ccel, i)
        /\ res.RTMR3ReplayMatch <=> TellsAll(ccel, 3)

(* The log is the firmware's, and after it the table's unused rest. *)
FirmwareLog(log, q) ==
    /\ log # None /\ log.header
    /\ Len(q.boot) <= Len(log.records)
    /\ SubSeq(log.records, 1, Len(q.boot)) = q.boot
    /\ Len(q.boot) < Len(log.records) => EndsLog(log.records[Len(q.boot) + 1])

(* A quote that passed is not refused over the firmware's own log, whether *)
(* or not the guest extended RTMR[3] since, which it may ("RTMR[3] is only *)
(* reported", VerifyCCELAgainstRTMRs).                                     *)
FirmwareLogVerifies ==
    [][(pc = "valid" /\ FirmwareLog(ccel, quote) /\ pc' = "done")
        => /\ res' # None
           /\ res'.RTMR3ReplayMatch <=> quote.runtime = << >>]_vars

=============================================================================
