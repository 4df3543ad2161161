----------------------------- MODULE MCRepeatProbe -----------------------------
(* Three requests per tool and three kept: a tool's own just fit. *)
EXTENDS RepeatProbe
MCKinds == {"marlin", "humming", "modular", "single", "twin", "linear", "upstream", "qkvz"}
MCSlow == {"marlin", "humming", "linear", "upstream", "qkvz"}
===============================================================================
