CONSTANTS
    Page = 256
    Start = 256
    Wrap = 65536
    Ehdr = 64
    Phdr = 32
    ElfHash <- MCHash
    StrSize = 24
    Headers = 256
    Links <- MCLinks
SPECIFICATION Spec
INVARIANTS
    WithinSlot
    PermissionPages
    LoadedInPlace
    FieldsReach
    ReferencesBound
    HashFindsAll
    ExportsInFile
    EmittedInPlace
