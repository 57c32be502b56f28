------------------------------ MODULE MCSizes -------------------------------
(* Every length around the first three ends of a kilobyte, those around the *)
(* ends of a chunk, and a program of the usual size.                        *)
EXTENDS DeploySizes

MCLengths == (0..8) \cup (595..605) \cup (980..1000) \cup (1195..1205)
               \cup (2008..2024) \cup (3035..3045) \cup (180000..180003)
=============================================================================
