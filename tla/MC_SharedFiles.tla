--------------------------- MODULE MC_SharedFiles ---------------------------
(* Small instances of SharedFiles.                                          *)
EXTENDS SharedFiles

CONSTANTS
    p, q,              \* processes, callers, editors and pull requests
    a, b, c            \* identities of artifacts

(* A plan whose installer may not be repeated, one whose installer may, one  *)
(* that moves a file, and one beyond its limit                               *)

Needs(name, target) ==
    [artifact |-> name, runtime |-> "r", target |-> target, limit |-> 2,
     destinations |-> {"h"}, environment |-> {}]
Recipe(name, install, idempotent, size, destination) ==
    [artifact |-> name, runtime |-> "r", digest |-> name, size |-> size,
     destination |-> destination, environment |-> {}, install |-> install,
     idempotent |-> idempotent]
SmallNeeds ==
    {Needs("tool", "bin"), Needs("model", "data"), Needs("safe", "bin"),
     Needs("big", "bin")}
SmallRecipes ==
    {Recipe("tool", TRUE, FALSE, 1, "h"), Recipe("model", FALSE, FALSE, 1, "NONE"),
     Recipe("safe", TRUE, TRUE, 1, "NONE"), Recipe("big", FALSE, FALSE, 3, "NONE")}

-----------------------------------------------------------------------------
(* Two entries of one client's file, and one of another client               *)

Integrates(entry, kind, write) ==
    [entry |-> entry, kind |-> kind, preferred |-> "MCP", supported |-> {"MCP"},
     read |-> TRUE, write |-> write, inGit |-> write, gitWrite |-> write]
SmallIntegrations ==
    {Integrates("one", "VISUAL_STUDIO", FALSE), Integrates("two", "VISUAL_STUDIO", TRUE),
     Integrates("two", "CODEX", FALSE)}
=============================================================================
