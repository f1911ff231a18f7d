CONSTANTS
    p = p
    q = q
    t = t
    x = x
    y = y
    z = z
    Places = {p, q}
    Tables = {t}
    Root = root
    None = none
    Objects = {x, y, z}
    LockCount = 2
    WriteMark = 256
    IdMod = 65536
    SeekFails = TRUE
    MaxMounts = 3
SYMMETRY Symmetric
SPECIFICATION Spec
INVARIANTS WriteExclusive OpenStays StaleRefused NoInternalError
