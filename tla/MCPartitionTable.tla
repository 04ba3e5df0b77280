-------------------------- MODULE MCPartitionTable --------------------------
(* A few lines of each file of the devices in the repository, and a card   *)
(* that the flags make a place for settings. *)
EXTENDS PartitionTable

Line(at, fs, dev, flags, text) ==
    [at |-> at, fs |-> fs, dev |-> dev, flags |-> flags, text |-> text, sysfs |-> FALSE]

MCWords == STRING

MCRecoveryFstab ==
    <<Line("system", "ext4", "system", {"logical"}, {}), Line("system", "erofs", "system", {"logical"}, {}),
      Line(Vendor, "erofs", "vendor", {"logical"}, {}), Line(Odm, "erofs", "odm", {"logical"}, {}),
      Line(Metadata, "f2fs", "metadata", {}, {Metadata}), Line(Data, "f2fs", "userdata", {"wipeingui"}, {Data, Metadata}),
      [Line("usb_otg", "auto", "usb", {}, {}) EXCEPT !.sysfs = TRUE]>>

MCFlagsFile ==
    <<Line("SDKa", "f2fs", "rannki", {"settingsstorage"}, {}), Line(Data, "f2fs", "userdata", {"backup", "storage"}, {}),
      Line(Odm, "erofs", "odm", {"logical"}, {}), Line("system", "erofs", "system", {"logical"}, {})>>

Meta2 == Line(Metadata, "ext4", "metadata", {}, {Metadata})
Data2(fs) == Line(Data, fs, "userdata", {}, {Data, Metadata})
MCVendorFstabs ==
    {<<Meta2, Line("persist", "ext4", "persist", {}, {}), Data2("ext4")>>,
     <<Data2("f2fs"), Data2("mifs")>>,
     <<Data2("bcachefs"), Meta2>>,
     <<Line("cust", "ext4", "cust", {}, {Data})>>}

Build(recovery, super, neo8, datamedia) ==
    [recovery |-> recovery, super |-> super, skipFstab |-> neo8, skipSetup |-> neo8, keep |-> neo8,
     datamedia |-> datamedia, mediaBind |-> datamedia]
MCProfiles == {Build(TRUE, TRUE, FALSE, TRUE), Build(TRUE, FALSE, FALSE, FALSE),
               Build(TRUE, TRUE, TRUE, TRUE), Build(FALSE, TRUE, FALSE, TRUE)}
=============================================================================
