----------------------------- MODULE MCVolumes -----------------------------
(* /data, its metadata, a stick and one logical partition. *)
EXTENDS Volumes

MCVols == {Data, Metadata, "usbotg", System}
MCDevice == [v \in MCVols |-> v]
MCFstab == [v \in MCVols |-> CASE v = Data -> "f2fs" [] v = Metadata -> "f2fs"
                               [] v = System -> "erofs" [] OTHER -> "vfat"]
MCOrder == <<System, Metadata, Data, "usbotg">>
=============================================================================
