---------------------------- MODULE MCRefValues ----------------------------
(* RefValues on a few images of each family, for TLC. *)
EXTENDS RefValues

k1 == << [sha384 |-> "kernel1"] >>
k2 == << [sha384 |-> "kernel2"] >>

(* Guests of both families and an Azure one, launched with a key or a file; *)
(* a register may still be zero.                                            *)
MCGuests ==
    [tag : {"snp", "az-snp"}, launch : {"S1", "S2"}, kernel : {k1}, cmdline : {k1},
     file : {"key1", "file1"}, extends : {<< >>}]
    \cup
    [tag : {"tdx"}, launch : {"T1", "T2"}, kernel : {k1, k2}, cmdline : {Zero, k1},
     file : {"key1", "file1"}, extends : {<< >>, <<"d1">>}]

Bad(v) == [form |-> "badhex", of |-> v]
Str(v) == [kind |-> "string", text |-> v]
Null == [kind |-> "null", text |-> EmptyBytes]
Number == [kind |-> "number", text |-> "key1"]
Tee(tag, canonical) == [tag |-> tag, canonical |-> canonical]

-----------------------------------------------------------------------------
(* Entries: plain ones, every binding alone, two at once, a null one, and   *)
(* arrays of registers of every shape.                                      *)
SnpEntry == [Name |-> "a", Measurement |-> hexText("S1"), MRTD |-> None, RTMR |-> None,
             ApproverKey |-> None, LaunchFile |-> None, LaunchFileDigest |-> None]
TdxEntry == [SnpEntry EXCEPT !.Measurement = None, !.MRTD = hexText("T1")]

Arrays == {<< >>, <<None>>, <<None, hexText(k1)>>, <<None, None, emptyText>>,
           <<None, hexText(k1), emptyText, None>>, <<hexText(k1)>>,
           <<None, Bad(k1)>>, <<None, None, None, None, hexText(k1)>>}

Bindings(family) ==
    LET h == IF family = "tdx" THEN [sha384 |-> "file1"] ELSE [sha256 |-> "file1"]
        w == IF family = "tdx" THEN [sha256 |-> "file1"] ELSE [sha384 |-> "file1"]
    IN  {<<Str("key1"), None, None>>, <<None, Str("file1"), None>>,
         <<None, None, Str(hexText(h))>>, <<None, None, Str(hexText(w))>>,
         <<Str("key1"), Str("file1"), None>>, <<Str("key1"), None, Str(hexText(h))>>,
         <<Null, None, None>>, <<None, Null, None>>, <<Number, None, None>>,
         <<Str("file1"), None, None>>, <<None, Str(EmptyBytes), None>>}

Bind(we, b) ==
    [we EXCEPT !.ApproverKey = b[1], !.LaunchFile = b[2], !.LaunchFileDigest = b[3]]

Doc(version, tee, entries) ==
    [syntax |-> "clean", SchemaVersion |-> version, TEE |-> tee, Measurements |-> entries]

Snp == Tee("sev-snp", TRUE)
Tdx == Tee("tdx", FALSE)

MCDocuments ==
    {Doc("1", Tdx, <<[TdxEntry EXCEPT !.RTMR = r]>>) : r \in Arrays}
    \cup {Doc("2", Snp, <<Bind(SnpEntry, b)>>) : b \in Bindings("sev-snp")}
    \cup {Doc("2", Tdx, <<Bind(TdxEntry, b)>>) : b \in Bindings("tdx")}
    \cup {Doc("1", Tdx, <<Bind(TdxEntry, b)>>) : b \in {<<Str("key1"), None, None>>,
                                                        <<None, Str("file1"), None>>}}
    \* Two entries: another name, digest, register or binding, or none of them.
    \cup {Doc("2", Tdx, <<[TdxEntry EXCEPT !.RTMR = <<None, hexText(k1)>>], second>>) :
            second \in {[TdxEntry EXCEPT !.Name = "b", !.RTMR = <<None, hexText(k1)>>],
                        [TdxEntry EXCEPT !.Name = "b", !.RTMR = <<None, hexText(k2)>>],
                        [TdxEntry EXCEPT !.Name = "b", !.RTMR = <<None, hexText(k1)>>,
                                         !.ApproverKey = Str("key1")],
                        [TdxEntry EXCEPT !.MRTD = hexText("T2")]}}
    \* A launch digest of the other family beside a launch file digest.
    \cup {Doc("2", Tdx, <<[TdxEntry EXCEPT !.MRTD = hexText("S1")],
                          [TdxEntry EXCEPT !.Name = "b", !.LaunchFileDigest =
                              Str(hexText([sha384 |-> "file1"]))]>>)}
    \cup {Doc("3", Snp, <<SnpEntry>>), Doc("1", Tee("dstack", TRUE), <<SnpEntry>>),
          Doc("1", Tee("az-snp", TRUE), <<SnpEntry>>), Doc("1", Snp, <<TdxEntry>>),
          Doc("1", Tdx, <<SnpEntry>>), Doc("1", Snp, << >>),
          Doc("1", Snp, <<[SnpEntry EXCEPT !.Name = " "]>>),
          Doc("1", Snp, <<[SnpEntry EXCEPT !.Measurement = Bad("S1")]>>),
          [Doc("1", Snp, <<SnpEntry>>) EXCEPT !.syntax = "duplicate"]}

-----------------------------------------------------------------------------
(* Sets a caller may build, with pins no document can carry among them.     *)
SnpImage == PlainImage("a", "S1", NoRegisters)
TdxImage == PlainImage("a", "T1", [i \in {1} |-> k1])

Set(family, images) == [Family |-> family, Images |-> images]

MCSets ==
    {Set("sev-snp", <<img>>) : img \in
        {SnpImage, [SnpImage EXCEPT !.Anchor = "key1"],
         [SnpImage EXCEPT !.LaunchFile = "file1"],
         [SnpImage EXCEPT !.LaunchFileDigest = [sha256 |-> "file1"]],
         [SnpImage EXCEPT !.Registers = [i \in {1} |-> k1]],
         [SnpImage EXCEPT !.Digest = ShortBytes], [SnpImage EXCEPT !.Name = "x-ff"]}}
    \cup {Set("tdx", <<img>>) : img \in
        {TdxImage, [TdxImage EXCEPT !.Registers = [i \in {1, 2} |-> IF i = 1 THEN k1 ELSE Zero]],
         [TdxImage EXCEPT !.Registers = [i \in {0} |-> k1]],
         [TdxImage EXCEPT !.Registers = [i \in {1} |-> ShortBytes]],
         [TdxImage EXCEPT !.Anchor = "key1"], [TdxImage EXCEPT !.Anchor = EmptyBytes],
         [TdxImage EXCEPT !.LaunchFile = "x-ff"],
         [TdxImage EXCEPT !.LaunchFileDigest = [sha256 |-> "file1"]],
         [TdxImage EXCEPT !.Anchor = "key1", !.LaunchFile = "file1"],
         [TdxImage EXCEPT !.Anchor = "key1", !.AcceptExtension = Digests]}}
    \cup {Set("tdx", <<TdxImage, img>>) : img \in
        {[TdxImage EXCEPT !.Name = "b", !.Digest = "T2"],
         [TdxImage EXCEPT !.Name = "b", !.Registers = NoRegisters],
         [TdxImage EXCEPT !.Name = "b", !.Anchor = "key1"],
         [TdxImage EXCEPT !.Name = "b"]}}
    \cup {Set("tdx", << >>), Set("", << >>)}

MCFlags ==
    [digests : {<< >>, <<hexText("T1")>>, <<hexText("T1"), hexText("T1"), hexText("T2")>>,
                <<emptyText, hexText("S1")>>, <<Bad("T1")>>},
     rtmrs : {<< >>, <<[idx |-> 1, value |-> hexText(k1)]>>,
              <<[idx |-> 2, value |-> hexText(Zero)], [idx |-> 1, value |-> hexText(k1)]>>,
              <<[idx |-> 1, value |-> hexText(k1)], [idx |-> 1, value |-> hexText(k2)]>>,
              <<[idx |-> 0, value |-> hexText(k1)]>>}]

Tuple == [k \in {"mrtd", "rtmr1", "rtmr2"} |->
            IF k = "mrtd" THEN hexText("T1") ELSE hexText(k1)]
Variant(smp, d) == [SMP |-> smp, Algorithm |-> "sha384", SNPLaunchDigest |-> hexText(d)]
NoTuple == [k \in {} |-> emptyText]

Multi == [syntax |-> "unknown", Version |-> 3, Platform |-> Tee("multi", TRUE),
          flat |-> NoTuple, TDX |-> Tuple,
          SNPVariants |-> <<Variant(2, "S2"), Variant(1, "S1")>>]

MCManifests ==
    {Multi, [Multi EXCEPT !.syntax = "duplicate"], [Multi EXCEPT !.Version = 2],
     [Multi EXCEPT !.Platform = Tee("tdx", TRUE), !.TDX = None, !.flat = Tuple],
     [Multi EXCEPT !.flat = [k \in {"rtmr2"} |-> hexText(Zero)]],
     [Multi EXCEPT !.TDX = [k \in {"mrtd"} |-> hexText("T1")]],
     [Multi EXCEPT !.SNPVariants = <<Variant(1, "S1"), Variant(1, "S2")>>],
     [Multi EXCEPT !.SNPVariants = <<Variant(0, "S1")>>]}

=============================================================================
