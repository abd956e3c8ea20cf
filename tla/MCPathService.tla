--------------------------- MODULE MCPathService ---------------------------
(* A small world for PathService: two drives, two volumes one of whose names *)
(* begins with the other's, the folders of one user, and a host with places  *)
(* that may be links.                                                        *)
EXTENDS PathService, TLC

MCDrives == <<"C:", "D:">>

MCLowerOf ==
    "C:" :> "c:" @@ "D:" :> "d:" @@ "USERS" :> "users" @@ "Users" :> "users" @@
    "DESKTOP" :> "desktop" @@ "DOCS" :> "docs" @@ "Windows" :> "windows" @@
    "SystemRoot" :> "systemroot" @@ "HarddiskVolume1" :> "harddiskvolume1" @@
    "CodexWorkspace" :> "codexworkspace" @@ "CodexHome" :> "codexhome"

Text(drive, names) == Written(drive, [n \in DOMAIN names |-> <<names[n]>>])

MCWindowsDir == Text("C:", <<"Windows">>)
MCWorkingDir == Text("C:", <<"users", "desktop", "test">>)
MCProfile    == Text("C:", <<"users">>)
MCProfileFolders == << <<"desktop">>, <<"docs">> >>

\* The documents are where they were; the pictures have the whole other drive.
MCKnownFolders == << Append(Text("C:", <<"USERS", "DOCS">>), Sep), Text("D:", <<>>) >>

Volume1  == <<Sep, "Device", Sep, "HarddiskVolume1">>
Volume10 == Append(Volume1, "0")

MCVolumes == {Volume1, Volume10}

File(volume, parts) == [volume |-> volume, parts |-> parts]

MCFiles ==
    {File(Volume1, << <<"users">>, <<"desktop">>, <<"a">> >>),
     File(Volume1, << <<"users">>, <<"desktop">>, <<"test">>, <<"a">> >>),
     File(Volume1, << <<"users">>, <<"desktop">>, <<"test", "2">> >>),
     File(Volume1, << <<"users">>, <<"docs">>, <<"a">> >>),
     File(Volume1, << <<"users">>, <<"docs", "2">>, <<"a">> >>),
     File(Volume1, << <<"Windows">>, <<"a">> >>),
     File(Volume10, <<>>), File(Volume10, << <<"docs">> >>),
     File(Volume10, << <<"users">>, <<"docs">>, <<"a">> >>)}

At(names) == << <<"c:">> >> \o [n \in DOMAIN names |-> <<names[n]>>]

\* "w" is an ordinary directory that links of the host can lead to.
MCPlaces ==
    At(<<>>) :> {"dir"} @@ At(<<"users">>) :> {"dir"} @@ At(<<"windows">>) :> {"dir"} @@
    At(<<"w">>) :> {"dir"} @@ At(<<"w", "f">>) :> {"file", "none"} @@
    At(<<"w", "e">>) :> {"dir"} @@ At(<<"w", "e", "f">>) :> {"file"} @@
    At(<<"codexhome">>) :> {"dir", "link"} @@
    At(<<"codexworkspace">>) :> {"dir", "link"} @@
    At(<<"codexworkspace", "e">>) :> {"dir", "link", "none"} @@
    At(<<"codexworkspace", "e", "f">>) :> {"file"} @@
    At(<<"codexworkspace", "f">>) :> {"file", "link", "none"}

MCLinkTo ==
    At(<<"codexhome">>) :> At(<<"windows">>) @@ At(<<"codexworkspace">>) :> At(<<"w">>) @@
    At(<<"codexworkspace", "e">>) :> At(<<"w", "e">>) @@
    At(<<"codexworkspace", "f">>) :> At(<<"w", "f">>)

MCHostPaths ==
    {Text("C:", <<>>), Text("C:", <<"CodexWorkspace">>), Text("C:", <<"codexworkspace", "e">>),
     Text("C:", <<"CodexHome">>), Text("C:", <<"w", "..", "Windows">>), Text("C:", <<"USERS", ".">>),
     Text("C:", <<"w", "e">>)}

MCContainerPaths ==
    {<<>>, Text("C:", <<"..">>), Text("C:", <<"workspace", "e">>),
     Text("C:", <<"workspace", "..", "codex-home", "e">>), Text("C:", <<"codex-home">>)}

MCSystemFolders == {<<"windows">>, <<"users">>}

MCRoot == At(<<"codexworkspace">>)

MCTargets ==
    {Text("C:", <<"CodexWorkspace">>), Text("C:", <<"codexworkspace", "f">>),
     Text("C:", <<"CodexWorkspace", "e", "f">>), Text("C:", <<"codexworkspace", "..", "w", "f">>),
     Text("C:", <<"codexworkspace", "e", "..", "f">>), Text("D:", <<"codexworkspace", "f">>),
     Text("C:", <<"codexworkspace", "e">>)}
=============================================================================
