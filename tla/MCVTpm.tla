------------------------------- MODULE MCVTpm -------------------------------
(* VTpm with two guests, two registers, three banks and what a sender makes *)
(* up, for TLC.                                                             *)
EXTENDS VTpm

MCMachine ==
    [g \in Guests |-> [platform |-> IF g = "g1" THEN "az-snp" ELSE "az-tdx",
                       launch |-> "image"]]

(* 20, 32 and 48 bytes, scaled: values of the first and the third together *)
(* are as long as two of the second.                                       *)
MCWidth == [sha1 |-> 1, sha256 |-> 2, sha384 |-> 3]

Bank(alg, regs) == [alg |-> alg, regs |-> regs]

MCSelections ==
    {<<Bank("sha256", {0})>>, <<Bank("sha256", {0, 1})>>,
     <<Bank("sha1", {0}), Bank("sha384", {1})>>}

(* Runtime data with a key of the sender's, and with none that parses. *)
Key(kid, rsa, pub) == [kid |-> kid, rsa |-> rsa, pub |-> pub]

RogueData == [form |-> "jwk", keys |-> <<Key("HCLAkPub", TRUE, <<"AK", "rogue">>)>>]

RogueTPM2B == [form |-> "tpm2b", keys |-> <<Key("", TRUE, <<"AK", "rogue">>)>>]

AddedKey == [form |-> "jwk", keys |-> <<Key("HCLAkPub", TRUE, None)>> \o VarData("g1").keys]

Hcl(type, data) == [whole |-> TRUE, reportType |-> type, varData |-> data]

ForgedReport ==
    [Report("g1") EXCEPT !.genuine = FALSE, !.reportData = RogueData]

Statement(magic, cut, nonce, selections, digest) ==
    [magic |-> magic, cut |-> cut, nonce |-> nonce, selections |-> selections,
     digest |-> digest]

A == Value("sha256", <<"a">>)

Z == Value("sha256", << >>)

(* A zero register of 1 byte and one of 3, cut into two slots of 2. *)
MixedBank ==
    LET bytes == Value("sha1", << >>) \o Value("sha384", << >>)
    IN  [i \in 0..1 |-> SubSeq(bytes, 2 * i + 1, 2 * i + 2)]

(* The sender's key signs anything, a guest's AK anything but a TPM's words. *)
MCForged ==
    [hcls |-> {Hcl(2, RogueData), Hcl(2, RogueTPM2B), Hcl(2, AddedKey), Hcl(4, VarData("g1")),
               Hcl(2, VarData("g2"))},
     reports |-> {ForgedReport},
     signatures |->
        {[key |-> <<"AK", "rogue">>,
          over |-> Statement(TRUE, "no", <<1>>, <<Bank("sha256", {1})>>, A)],
         [key |-> <<"AK", "g1">>,
          over |-> Statement(FALSE, "no", <<1>>, <<Bank("sha256", {0}), Bank("sha1", {0})>>,
                             A \o A)],
         [key |-> <<"AK", "g1">>, over |-> Statement(FALSE, "info", <<1>>, << >>, << >>)]},
     banks |-> {[i \in 0..0 |-> A], [i \in 0..1 |-> A],
                [i \in 0..1 |-> IF i = 0 THEN Z ELSE A], [i \in 0..2 |-> Z],
                MixedBank}]

MCNonces == {<<1>>, <<1, 0>>}

NoParams == [ExpectedReportData |-> None, ExpectedInitDataHash |-> None,
             ExpectedLaunchDigest |-> None]

MCParams ==
    {[NoParams EXCEPT !.ExpectedReportData = n, !.ExpectedInitDataHash = i] :
        n \in {None} \cup Nonces, i \in {None, "a"}}
    \cup {[NoParams EXCEPT !.ExpectedInitDataHash = Wrong],
          [NoParams EXCEPT !.ExpectedReportData = <<1>>, !.ExpectedLaunchDigest = "image"],
          [NoParams EXCEPT !.ExpectedLaunchDigest = "other"]}

=============================================================================
