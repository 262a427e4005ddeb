----------------------------- MODULE MCInstall -----------------------------
(* Instances of Install for TLC. *)
EXTENDS Install
CONSTANTS p1, p2

\* The calls that fail without having taken effect, of which a rollback can know.
Clean == {"preflight", "data", "sqlite", "toml", "seed", "mcp", "rule", "unit", "load",
          "receipt", "disable", "stop", "unapply", "spawn", "probe"}
Anywhere == Points \ {"idle"}
Nowhere == {}
BareHost == {{}}
AnyHost == {{}, {"mcp"}, {"rule"}, {"data"}, {"unit"}, Things}
=============================================================================
