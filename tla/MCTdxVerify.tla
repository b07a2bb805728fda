---------------------------- MODULE MCTdxVerify ----------------------------
(* TdxVerify on small collateral, small registers and short logs, for TLC. *)
EXTENDS TdxVerify, TLC

(* What the registers hold after each event of a boot log. *)
HeldAfter(boot) ==
    LET held[n \in 0..Len(boot)] ==
            IF n = 0 THEN [i \in 0..3 |-> << >>]
            ELSE IF boot[n].mr \in 1..4
            THEN [held[n - 1] EXCEPT ![boot[n].mr - 1] = Append(@, boot[n].digest)]
            ELSE held[n - 1]
    IN  held

QuoteBase ==
    [genuine |-> TRUE, v4 |-> TRUE, debug |-> FALSE, reportData |-> <<1, 0>>,
     mrConfigId |-> <<1, 0>>, mrTd |-> "td1", tee |-> (0 :> 1) @@ (1 :> 0) @@ (2 :> 1),
     pck |-> [cpu |-> <<1>>, pce |-> 1], qe |-> 1, boot |-> << >>,
     held |-> HeldAfter(<< >>), runtime |-> << >>]

ParamsBase ==
    [ExpectedReportData |-> None, ExpectedInitDataHash |-> None,
     ExpectedLaunchDigest |-> None, ExpectedRTMRs |-> << >>, AllowDebug |-> FALSE]

OptionsBase == [GetCollateral |-> FALSE, AcceptedTCBStatuses |-> {}]

-----------------------------------------------------------------------------
(* The TCB calls: platforms at every combination of SVNs up to 1 against   *)
(* collateral that rates each component by its own list.                   *)
TcbQuotes ==
    {[QuoteBase EXCEPT !.tee = (0 :> a) @@ (1 :> b) @@ (2 :> c),
                       !.pck = [cpu |-> <<u>>, pce |-> p], !.qe = e] :
        a, b, c, u, p, e \in 0..1}
    \cup {[QuoteBase EXCEPT !.genuine = FALSE], [QuoteBase EXCEPT !.v4 = FALSE],
          [QuoteBase EXCEPT !.pck = [cpu |-> <<1, 1>>, pce |-> 1]]}

Level(svn, status) ==
    [sgx |-> <<svn>>, pce |-> svn, tdx |-> (0 :> svn) @@ (1 :> 0) @@ (2 :> svn),
     isvsvn |-> svn, status |-> status, advisories |-> {}]

(* Where SVN 1 is a module's version, what a level says of it is not asked. *)
TcbInfo(version, worse, module) ==
    [levels |-> <<[Level(1, "UpToDate") EXCEPT !.tdx[1] = version], Level(0, worse)>>,
     modules |-> <<[version |-> 1, levels |-> <<Level(1, "UpToDate"), Level(0, module)>>]>>]

NoModules == [levels |-> <<Level(1, "UpToDate")>>, modules |-> << >>]

(* What anyone may serve: every platform up to date. *)
ForgedInfo ==
    [levels |-> <<Level(0, "UpToDate")>>,
     modules |-> <<[version |-> 1, levels |-> <<Level(0, "UpToDate")>>]>>]

MCBodies ==
    [u \in URLs |->
        IF u = "tcbinfo"
        THEN {[signed |-> TRUE, doc |-> TcbInfo(2, "SWHardeningNeeded", "OutOfDate")],
              [signed |-> TRUE, doc |-> TcbInfo(0, "Revoked", "SWHardeningNeeded")],
              [signed |-> TRUE, doc |-> NoModules],
              [signed |-> FALSE, doc |-> ForgedInfo]}
        ELSE {[signed |-> TRUE, doc |-> <<Level(1, "UpToDate"), Level(0, "OutOfDate")>>],
              [signed |-> FALSE, doc |-> <<Level(0, "UpToDate")>>]}]

TcbOptions ==
    {OptionsBase, [OptionsBase EXCEPT !.GetCollateral = TRUE],
     [OptionsBase EXCEPT !.AcceptedTCBStatuses = {"UpToDate"}]}
    \cup {[GetCollateral |-> TRUE, AcceptedTCBStatuses |-> s] :
            s \in {{"UpToDate"}, {"UpToDate", "SWHardeningNeeded"},
                   {"UpToDate", "SWHardeningNeeded", "OutOfDate"},
                   {"SWHardeningNeeded", "OutOfDate"},
                   {"UpToDate", "Revoked"}, {"uptodate"}}}

TcbCalls == [quotes |-> TcbQuotes, logs |-> {None}, params |-> {ParamsBase},
             options |-> TcbOptions]

-----------------------------------------------------------------------------
(* The log calls: firmware logs of up to two events, and what an attester  *)
(* makes of them.                                                          *)
Logged(mr, d) == [kind |-> "whole", mr |-> mr, bare |-> FALSE, digest |-> d]

(* An event of type 0 without data, which no firmware writes for MR 0. *)
BareEvent(mr, d) == [Logged(mr, d) EXCEPT !.bare = TRUE]

Written == {Logged(mr, d) : mr \in {0, 1, 3, 4}, d \in Digests} \cup {BareEvent(1, "e1")}

Unwritten ==
    {[Logged(1, "e1") EXCEPT !.kind = "cut"], [Logged(1, "e1") EXCEPT !.kind = "padding"],
     [Logged(1, "e1") EXCEPT !.kind = "unknown"], BareEvent(0, None), Logged(3, None)}

UpTo(n, S) == UNION {[1..k -> S] : k \in 0..n}

Logs ==
    {None, [header |-> FALSE, records |-> << >>]}
    \cup {[header |-> TRUE, records |-> r] : r \in UpTo(2, Written \cup Unwritten)}
    \cup {[header |-> TRUE, records |-> b \o <<x, y>>] :
             b \in [1..1 -> Written], x \in Unwritten, y \in Written}

LogQuotes ==
    {[QuoteBase EXCEPT !.boot = b, !.held = HeldAfter(b), !.runtime = r] :
        b \in UpTo(2, Written), r \in {<< >>, <<"e1">>}}

LogCalls == [quotes |-> LogQuotes, logs |-> Logs, params |-> {ParamsBase},
             options |-> {OptionsBase}]

-----------------------------------------------------------------------------
(* The field calls: every expected value against every quote of two bytes. *)
FieldQuotes ==
    {[QuoteBase EXCEPT !.genuine = g, !.debug = x, !.reportData = d, !.mrConfigId = c,
                       !.boot = b, !.held = HeldAfter(b), !.runtime = r] :
        g, x \in BOOLEAN, d \in {<<1, 0>>, <<1, 1>>}, c \in {<<0, 0>>, <<1, 0>>},
        b \in {<< >>, <<Logged(4, "e1")>>}, r \in {<< >>, <<"e2">>}}

FieldParams ==
    [ExpectedReportData : {None, << >>, <<1>>, <<1, 1>>, <<1, 1, 1>>},
     ExpectedInitDataHash : {None, <<1>>, <<0, 0>>, <<1, 0, 0>>},
     ExpectedLaunchDigest : {None, "td1", "td2", Short},
     ExpectedRTMRs : {<< >>, 3 :> <<"e1">>, (0 :> None) @@ (3 :> <<"e1", "e2">>),
                      0 :> Short, 4 :> << >>},
     AllowDebug : BOOLEAN]

FieldCalls == [quotes |-> FieldQuotes, logs |-> {None}, params |-> FieldParams,
               options |-> {OptionsBase}]

MCCalls == {TcbCalls, LogCalls, FieldCalls}

=============================================================================
