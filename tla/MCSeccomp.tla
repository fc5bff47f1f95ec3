----------------------------- MODULE MCSeccomp -----------------------------
(* Instances of Seccomp: the real tables, and the numbers around each entry.   *)
EXTENDS Seccomp

MCMachines    == {"x86_64", "aarch64", "riscv64"}
\* With the 18 numbers of x86_64: as many as a jump can pass, and one more.
MCExtras      == {{}, {0, 400}, 1000..1236, 1000..1237}
MCNumbers     == (0..3) \cup {40, 41, 154, 159, 163, 165, 166, 167, 168, 175, 222, 227,
                  246, 247, 248, 250, 304, 305, 306, 313, 320, 321, 400, 1000, 1236}
MCAuditArches == {62, 183, 3}
=============================================================================
