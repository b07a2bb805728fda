------------------------------ MODULE MCArmTls ------------------------------
(* ArmTls for TLC: two peers that share a cache and verify three           *)
(* certificates over and over, and one that verifies any of many once.     *)
EXTENDS ArmTls, TLC

Tag(t) == [tag |-> t, canonical |-> TRUE]

Low == <<0, 1>>
High == <<1, 1>>

MCURLs ==
    [path : {"vcek"}, line : {"Milan", "Genoa"}, chip : {"c1"}, tcb : {Low, High}]
    \cup {crlURL("Milan"), crlURL("Genoa")}

(* What hardware reports for a key and a nonce. *)
Native(key, nonce) == pad(ReportDataForKey(key, nonce), DataWidth)

SnpReport ==
    [kind |-> "report", family |-> "sev-snp", signed |-> TRUE, signer |-> "vcek",
     version |-> 3, cpu |-> "Milan", chip |-> "c1", tcb |-> High, vmpl |-> 0,
     debug |-> FALSE, data |-> Native("k1", ""), host |-> <<"h", Zero>>, launch |-> "L1"]

Vcek(line, tcb) ==
    [issued |-> TRUE, key |-> "vcek", line |-> line, chip |-> "c1", tcb |-> tcb]

Other(kind, family, data) ==
    [kind |-> kind, family |-> family, signed |-> TRUE, data |-> data]

EnvOf(p, quote, vcek) ==
    [Platform |-> p, quote |-> quote, form |-> "attestation_report", vcek |-> vcek,
     eventlog |-> TRUE]

Params ==
    [ExpectedReportData |-> None, ExpectedInitDataHash |-> None,
     ExpectedLaunchDigest |-> None, AllowDebug |-> FALSE,
     MinTCB |-> [tcb |-> <<0, 0>>, fmc |-> FALSE]]

Opts(getter, check) == [getter |-> getter, CheckRevocations |-> check]

(* Certificates a guest makes with this package, and as others may send. *)
Made(key, env, list) ==
    {[key |-> key, ext |-> x, made |-> env, measured |-> list] :
        x \in UNION {MarshalExtension([a EXCEPT !.list = list]) : a \in NewAttestation(env)}}

Sent(key, ext) == [key |-> key, ext |-> ext, made |-> None, measured |-> << >>]

Request(via, cert, nonce, params, opts) ==
    [via |-> via, cert |-> cert, nonce |-> nonce, params |-> params, opts |-> opts]

-----------------------------------------------------------------------------
(* The shared cache: one chip before and after a TCB update, and a part    *)
(* whose line go-sev-guest does not know, all without a certificate.       *)
Bare(report) == Made("k1", EnvOf(Tag("snp"), report, None), << >>)

SharedRequests(checks) ==
    {Request("offline", c, "", Params, Opts("caching", check)) :
        c \in Bare(SnpReport) \cup Bare([SnpReport EXCEPT !.tcb = Low]), check \in checks}

Zen4cRequests ==
    {Request("offline", c, "", Params, Opts(g, check)) :
        c \in Bare([SnpReport EXCEPT !.cpu = "Zen4c"]), g \in {"caching", "direct"},
        check \in BOOLEAN}
    \cup
    {Request("offline", c, "", Params, Opts("direct", TRUE)) :
        c \in Made("k1", EnvOf(Tag("snp"), [SnpReport EXCEPT !.chip = "masked"],
                               Vcek("Milan", High)), << >>)}

-----------------------------------------------------------------------------
(* Reports that differ from the honest one in one respect or another. *)
Reports ==
    {[SnpReport EXCEPT !.cpu = c, !.signer = s, !.version = v] :
        c \in {"Milan", "Zen4c", "Other", "none"}, s \in {"vcek", "vlek", "none"},
        v \in {2, 3, 6}}
    \cup
    {[SnpReport EXCEPT !.signed = FALSE], [SnpReport EXCEPT !.chip = "masked"],
     [SnpReport EXCEPT !.vmpl = 1], [SnpReport EXCEPT !.debug = TRUE],
     [SnpReport EXCEPT !.data = Native("k2", "")],
     [SnpReport EXCEPT !.data = Native("k1", "n1")],
     [SnpReport EXCEPT !.data = <<[key |-> "k1", nonce |-> ""], "tail">>],
     [SnpReport EXCEPT !.host = <<"h", "h">>], [SnpReport EXCEPT !.tcb = Low]}

Certificates(report) ==
    {None, NoCert, Vcek("Milan", report.tcb), Vcek("Genoa", report.tcb),
     [Vcek("Milan", report.tcb) EXCEPT !.key = "vlek"],
     [Vcek("Genoa", report.tcb) EXCEPT !.key = "vlek"]}

ReportRequests ==
    {Request("offline", c, "", Params, Opts(g, FALSE)) :
        g \in {"none", "direct"},
        c \in UNION {UNION {Made("k1", EnvOf(Tag("snp"), r, v), << >>) :
                               v \in Certificates(r)} : r \in Reports}}

PolicyRequests ==
    {Request("offline", c, n,
             [ExpectedReportData |-> d, ExpectedInitDataHash |-> i,
              ExpectedLaunchDigest |-> l, AllowDebug |-> a,
              MinTCB |-> [tcb |-> t, fmc |-> f]],
             Opts("none", FALSE)) :
        c \in UNION {Made(k, EnvOf(Tag("gcp-snp"), r, Vcek("Milan", r.tcb)), << >>) :
                k \in {"k1", "rsa"},
                r \in {SnpReport, [SnpReport EXCEPT !.debug = TRUE],
                       [SnpReport EXCEPT !.tcb = Low],
                       [SnpReport EXCEPT !.data = Native("k1", "n1")]}},
        n \in {"", "n1"},
        d \in {None, ReportDataForKey("k1", ""), ReportDataForKey("k2", "")},
        i \in {None, <<"h">>, <<"h", Zero>>, <<"h", Zero, Zero>>},
        l \in {None, "L1", "L2", "short"}, a \in BOOLEAN,
        t \in {<<0, 0>>, <<1, 0>>, <<0, 1>>}, f \in BOOLEAN}

-----------------------------------------------------------------------------
(* Every platform tag, however it is spelled, and measured lists. *)
QuoteFor(tag, key, nonce) ==
    CASE tag \in {"snp", "gcp-snp"} -> [SnpReport EXCEPT !.data = Native(key, nonce)]
      [] tag = "az-snp" -> Other("vtpm-snp", "sev-snp", ReportDataForKey(key, nonce))
      [] tag = "az-tdx" -> Other("vtpm-tdx", "tdx", ReportDataForKey(key, nonce))
      [] OTHER -> Other("tdx", "tdx", Native(key, nonce))

VcekFor(tag) == IF tag \in {"snp", "gcp-snp"} THEN Vcek("Milan", High) ELSE None

Entry(d, canonical) == [digest |-> d, canonical |-> canonical]

MCLists ==
    {<< >>, <<Entry("d1", TRUE)>>, <<Entry("d1", TRUE), Entry("d2", TRUE)>>}

PlatformEnvs(key, nonce) ==
    {[EnvOf(p, QuoteFor(p.tag, key, nonce), VcekFor(p.tag)) EXCEPT !.form = f] :
        p \in PlatformType \ {Tag("")},
        f \in {"attestation_report", "hcl_report", "none"}}

PlatformCerts ==
    UNION {Made("k1", env, list) :
              env \in PlatformEnvs("k1", "") \cup PlatformEnvs("k1", "n1"),
              list \in MCLists}

(* Extensions no producer of this package makes. *)
Ext(teeType, shape, env, list, trailing) ==
    [teeType |-> teeType, Report |-> [shape |-> shape, env |-> env],
     CertChain |-> VcekFor("snp"), list |-> list, trailing |-> trailing]

ForeignCerts ==
    {Sent("k1", Ext(t, s, EnvOf(p, q, VcekFor("snp")), l, x)) :
        t \in 1..3, s \in {"raw", "json", "hcl-snp", "hcl-tdx", "junk"},
        p \in {Tag("snp"), Tag("gcp-tdx"), Tag("az-snp"), Tag("")},
        q \in {QuoteFor("snp", "k1", ""), QuoteFor("gcp-tdx", "k1", ""),
               QuoteFor("az-snp", "k1", ""), QuoteFor("snp", "k2", "")},
        l \in {<< >>, <<Entry("d1", TRUE)>>, <<Entry("d1", FALSE)>>,
               <<Entry("d1", TRUE), Entry("d2", TRUE), Entry("d3", TRUE)>>},
        x \in BOOLEAN}
    \cup {[key |-> "k1", ext |-> None, made |-> None, measured |-> << >>]}

CertRequests ==
    {Request(via, c, n, Params, Opts("none", FALSE)) :
        via \in {"offline", "service"}, c \in PlatformCerts, n \in {"", "n1"}}
    \cup
    {Request(via, c, "", Params, Opts("none", FALSE)) :
        via \in {"offline", "service"}, c \in ForeignCerts}

-----------------------------------------------------------------------------
ManyRequests == ReportRequests \cup PolicyRequests \cup CertRequests

MCRequests ==
    [shared |-> [p1 |-> SharedRequests(BOOLEAN), p2 |-> SharedRequests({FALSE})],
     zen4c |-> [p1 |-> Zen4cRequests, p2 |-> {}],
     many |-> [p1 |-> ManyRequests, p2 |-> {}]]

=============================================================================
