------------------------------ MODULE MCFatDir -------------------------------
(***************************************************************************)
(* FatDir for TLC.                                                         *)
(***************************************************************************)
EXTENDS FatDir

CONSTANTS a, b

\* Killed at any sector, of a rename also: of one that goes to another directory
\* (Cut), of one onto itself that needs a new sector (Inside); renamed between
\* more directories; listed meanwhile.
Plan(ops, paths, mkdirs, killed) ==
    [ops |-> ops, paths |-> paths, mkdirs |-> mkdirs, kills |-> killed]

Killed == Plan({"create", "mkdir", "unlink"}, {<<a>>, <<b>>, <<a, a>>}, {<<a>>, <<b>>, <<a, a>>}, 1)
Moved == Plan({"create", "mkdir", "unlink", "rename"},
              {<<a>>, <<b>>, <<a, a>>, <<a, b>>, <<b, b>>}, {<<a>>, <<b>>, <<a, b>>}, 0)
Listed == Plan({"create", "mkdir", "unlink", "rename", "list"}, {<<a>>, <<a, a>>, <<a, b>>}, {<<a>>}, 0)
Cut == Plan({"create", "mkdir", "unlink", "rename"}, {<<a>>, <<b>>, <<a, b>>}, {<<a>>, <<b>>}, 1)
Inside == Plan({"create", "mkdir", "unlink", "rename"}, {<<a>>, <<a, a>>, <<a, b>>}, {<<a>>}, 1)
TreePlans == {Killed, Moved, Cut, Inside, Listed}
=============================================================================
