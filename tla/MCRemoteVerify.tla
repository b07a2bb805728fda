--------------------------- MODULE MCRemoteVerify ---------------------------
(* RemoteVerify on small sets of guests and policies, for TLC. *)
EXTENDS RemoteVerify

k1 == << [sha384 |-> "kernel1"] >>
k2 == << [sha384 |-> "kernel2"] >>

NoPins == << >>
Pin(i, v) == [j \in {i} |-> v]

Entry(form, d) == [form |-> form, digest |-> d]

(* Guests of every platform, with and without measured workloads.  "rogue" *)
(* is an extend no list can name.                                          *)
MCGuests ==
    [tag : {"snp", "tdx", "az-snp", "az-tdx"},
     launch : {"L1", "L2"},
     kernel : {k1, k2},
     cmdline : {k1},
     file : {"anchor1", "anchor2"},
     extends : {<< >>, <<"d1">>, <<"d2">>, <<"d1", "d2">>, <<"rogue">>},
     pcr : {<< >>},
     fresh : {TRUE},
     initData : {TRUE}]

MCLists ==
    {<< >>,
     <<Entry("bare", "d1")>>,
     <<Entry("bare", "d1"), Entry("bare", "d2")>>,
     <<Entry("bare", "d2"), Entry("bare", "d1")>>,
     <<Entry("pinned", "d1")>>}

ImageBase == [Digest |-> "L1", Registers |-> NoPins, Anchor |-> None,
              LaunchFile |-> None, LaunchFileDigest |-> None,
              AcceptExtension |-> None]

(* Pins of each kind, and pins the code refuses outright. *)
Pins ==
    {[ImageBase EXCEPT !.Registers = r, !.Anchor = a, !.AcceptExtension = x] :
         r \in {NoPins, Pin(1, k1)}, a \in {None, "anchor1"},
         x \in {None, {"d1"}}}
    \cup
    {[ImageBase EXCEPT !.LaunchFile = f] : f \in {"anchor1", EmptyBytes}}
    \cup
    {[ImageBase EXCEPT !.LaunchFileDigest = d, !.AcceptExtension = {"d1", "d2"}] :
         d \in {[sha384 |-> "anchor1"], [sha256 |-> "anchor1"],
                [sha384 |-> ZeroBytes]}}

(* Another build on the same firmware: its own kernel and anchor. *)
OtherBuild ==
    [ImageBase EXCEPT !.Digest = "L2", !.Registers = Pin(1, k2), !.Anchor = "anchor2"]

PolicyBase ==
    [ExpectedReportData |-> FALSE, ExpectedInitDataHash |-> FALSE,
     MinTcb |-> FALSE, Images |-> {}, Measurements |-> {},
     Registers |-> NoPins, PCRs |-> NoPins]

MCImagePolicies ==
    {[PolicyBase EXCEPT !.Images = {img}] : img \in Pins}
    \cup {[PolicyBase EXCEPT !.Images = {img, OtherBuild}] : img \in Pins}

-----------------------------------------------------------------------------
(* The flat pins, the PCRs and the verdict: one guest image, all verdicts. *)
MCFlatGuests ==
    [tag : {"snp", "tdx", "az-snp", "az-tdx", "dstack"},
     launch : {"L1", "L2"},
     kernel : {k1, k2},
     cmdline : {k1},
     file : {"anchor1"},
     extends : {<< >>},
     pcr : [{4} -> PCRValues],
     fresh : BOOLEAN,
     initData : BOOLEAN]

MCFlatPolicies ==
    {[PolicyBase EXCEPT !.Measurements = m, !.Registers = r, !.PCRs = p] :
         m \in {{}, {"L1"}}, r \in {NoPins, Pin(1, k1)},
         p \in {NoPins, Pin(4, "p1")}}
    \cup
    {[PolicyBase EXCEPT !.ExpectedReportData = x, !.ExpectedInitDataHash = y,
                        !.MinTcb = z] : x, y, z \in BOOLEAN}

FlatExchange == [guests |-> MCFlatGuests, policies |-> MCFlatPolicies, lists |-> {<< >>}]

MCFlatExchanges == {FlatExchange}

MCExchanges ==
    {[guests |-> MCGuests, policies |-> MCImagePolicies, lists |-> MCLists],
     FlatExchange}

=============================================================================
