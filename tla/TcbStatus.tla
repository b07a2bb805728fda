----------------------------- MODULE TcbStatus -----------------------------
(***************************************************************************)
(* Which TCB level of Intel's collateral a TDX platform is at, and whether *)
(* a relying party accepts it (tdx/tcbstatus.go).                          *)
(*                                                                         *)
(* TEE_TCB_SVN is a function from 0 up, scaled down from 16 entries: entry *)
(* 0 is the TDX module's SVN and entry 1 its version when that is not 0.   *)
(* A TCB info is [levels, modules], a QE identity a sequence of levels.    *)
(***************************************************************************)
EXTENDS Naturals, Sequences

tcbStatusOrder ==
    <<"UpToDate", "SWHardeningNeeded", "ConfigurationNeeded",
      "ConfigurationAndSWHardeningNeeded", "OutOfDate",
      "OutOfDateConfigurationNeeded", "Revoked">>

Rank(status) == CHOOSE i \in DOMAIN tcbStatusOrder : tcbStatusOrder[i] = status

ParseTCBStatus(s) == \E i \in DOMAIN tcbStatusOrder : tcbStatusOrder[i] = s

(* The first of the levels at the matching positions, if any matches. *)
firstLevel(levels, matching) ==
    {levels[i] : i \in {j \in matching : \A k \in matching : j <= k}}

(* Mutant: a level's SGX SVNs must be met exactly. *)
PlatformMeets_Exactly(level, tee, pck) ==
    /\ level.sgx = pck.cpu /\ DOMAIN level.tdx = DOMAIN tee
    /\ pck.pce >= level.pce
    /\ \A i \in DOMAIN tee :
          i >= (IF tee[1] > 0 THEN 2 ELSE 0) => tee[i] >= level.tdx[i]

(* A platform level asks nothing of SVNs 0 and 1 where they are a module's. *)
PlatformMeets(level, tee, pck) ==
    /\ Len(level.sgx) = Len(pck.cpu) /\ DOMAIN level.tdx = DOMAIN tee
    /\ \A i \in DOMAIN pck.cpu : pck.cpu[i] >= level.sgx[i]
    /\ pck.pce >= level.pce
    /\ \A i \in DOMAIN tee :
          i >= (IF tee[1] > 0 THEN 2 ELSE 0) => tee[i] >= level.tdx[i]

matchPlatformLevel(levels, tee, pck) ==
    firstLevel(levels, {i \in DOMAIN levels : PlatformMeets(levels[i], tee, pck)})

(* A TDX module and the QE are rated by their ISVSVN alone. *)
matchEnclaveLevel(levels, isvsvn) ==
    firstLevel(levels, {i \in DOMAIN levels : isvsvn >= levels[i].isvsvn})

(* The first identity of this module version decides, met or not. *)
matchModuleLevel(modules, tee) ==
    UNION {matchEnclaveLevel(m.levels, tee[0]) :
              m \in firstLevel(modules, {i \in DOMAIN modules : modules[i].version = tee[1]})}

(* The levels of the platform, its module and its QE, nothing where one of *)
(* them meets no level.                                                    *)
matchTCBLevels(info, qe, q) ==
    LET platform == matchPlatformLevel(info.levels, q.tee, q.pck)
        module == matchModuleLevel(info.modules, q.tee)
        enclave == matchEnclaveLevel(qe, q.qe)
    IN  IF platform = {} \/ enclave = {} \/ (q.tee[1] > 0 /\ module = {}) THEN {}
        ELSE {platform \cup enclave \cup (IF q.tee[1] > 0 THEN module ELSE {})}

(* The least favourable status of the levels and their advisories. *)
Summary(levels) ==
    [TCBStatus |-> (CHOOSE l \in levels :
                       \A k \in levels : Rank(k.status) <= Rank(l.status)).status,
     AdvisoryIDs |-> UNION {l.advisories : l \in levels}]

(* evaluateTCBStatus, on the bodies it was given. *)
evaluateTCBStatus(info, qe, q, accepted) ==
    {Summary(levels) :
        levels \in {ls \in matchTCBLevels(info, qe, q) :
                       \A l \in ls : l.status \in accepted}}

=============================================================================
