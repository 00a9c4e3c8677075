SPECIFICATION Spec
CONSTANTS
    Sub = {"author", "form", "rich"}
    Ver <- MCVer
    Signer <- MCSigner
    Form = {"form"}
    Rich = {"rich"}
    Key = {"k1", "platform"}
    PlatformKey = "platform"
    Content = {x, y}
    MaxRotations = 1
INVARIANTS
    LiveIsServed
PROPERTIES
    UpdatesAreGated
    WriteOnce
SYMMETRY Alike
