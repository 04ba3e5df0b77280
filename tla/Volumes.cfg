CONSTANTS
    Vols <- MCVols
    Storage = {"data", "usbotg"}
    Removable = {"usbotg"}
    Super = {"system_root"}
    Device <- MCDevice
    Fstab <- MCFstab
    Tools = {"f2fs", "ext4", "vfat"}
    IsFbe = TRUE
    KeepSystem = FALSE
    Order <- MCOrder
    GuiVols = {"data", "usbotg"}
    FactoryVols = {"data"}
    VirtualAb = TRUE
    ChangeTo = {"ext4"}
    MaxOps = 3
SPECIFICATION Spec
INVARIANTS
    ServedIsMounted
    NeverFormatsMounted
    KeysGoWithData
    UsbExclusive
PROPERTIES
    MediaKept

