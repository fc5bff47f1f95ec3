------------------------------ MODULE Seccomp ------------------------------
(* The optional system-call filter: the loader that builds it, installs it     *)
(* and becomes the payload, and the classic BPF program the kernel then runs   *)
(* at every system call, one instruction per step.                             *)
EXTENDS Integers, FiniteSets

CONSTANTS
    Machines,  \* what platform.machine() may answer
    Extras,    \* sets of numbers a caller of try_apply may add; the loader adds none
    Numbers,   \* system-call numbers the payload issues
    AuditArches, \* audit architectures of the calls it issues: its own, a compat one
    MaxJump    \* the longest jump an instruction holds: 255, a u8

ASSUME JumpAssumption == MaxJump \in Nat \ {0}
ASSUME InputAssumption ==
    /\ Numbers \subseteq Nat /\ AuditArches \subseteq Nat
    /\ \A e \in Extras : e \subseteq Nat /\ IsFiniteSet(e)

\* _ARCH_TABLE without the two flag bits both values share.
AuditArch == [x86_64 |-> 62, aarch64 |-> 183]
DenyExtra == [x86_64  |-> {155, 159, 163, 164, 165, 167, 168, 174, 175, 176, 227,
                           246, 248, 249, 250, 305, 313, 320},
              aarch64 |-> {40, 163, 167, 168, 222}]
Supported == DOMAIN AuditArch

NoFilter == [p \in {} |-> 0]
NoCall   == [arch |-> 0, nr |-> 0]

VARIABLES
    loader,   \* where the loader stands; "payload" once it has become the command
    env,      \* TERMINAL_JAIL_SECCOMP: "off", "on", or "odd" for neither
    machine,  \* platform.machine()
    extra,    \* extra_denies
    nnp,      \* no_new_privs, a latch that survives exec
    program,  \* the installed filter: a function from 0, or NoFilter
    warned,   \* a line on stderr said that there is no filter
    call,     \* the system call being filtered
    pc, acc,  \* the interpreter's program counter and accumulator
    verdict   \* what the filter returned for the call

loading == <<env, machine, extra>>
kernel  == <<call, pc, acc, verdict>>
vars    == <<loader, loading, nnp, program, warned, kernel>>

----------------------------------------------------------------------------
(* The program.                                                                *)

Ld(field)        == [op |-> "ld", field |-> field, k |-> 0, jt |-> 0, jf |-> 0]
Jeq(k, jt, jf)   == [op |-> "jeq", field |-> "none", k |-> k, jt |-> jt, jf |-> jf]
Ret(what)        == [op |-> "ret", field |-> what, k |-> 0, jt |-> 0, jf |-> 0]

\* sorted(): the number at place i has i - 1 smaller ones.
Rank(S, d) == Cardinality({e \in S : e < d})
Chain(S)   == [i \in 1..Cardinality(S) |-> CHOOSE d \in S : Rank(S, d) = i - 1]

DenyBlock(n) == 3 + 1 + n + 1

\* A jump is relative to the instruction after it.
ScanOff(S, p)  == Jeq(Chain(S)[p - 3], DenyBlock(Cardinality(S)) - (p + 1), 1)
Scan(S, p)     == Jeq(Chain(S)[p - 3], DenyBlock(Cardinality(S)) - (p + 1), 0)

EmptyFilter(a) ==
    [p \in 0..3 |-> CASE p = 0 -> Ld("arch") [] p = 1 -> Jeq(a, 1, 0)
                      [] p = 2 -> Ret("kill") [] p = 3 -> Ret("allow")]
FilterOf(a, S) ==
    [p \in 0..DenyBlock(Cardinality(S)) |->
        CASE p = 0 -> Ld("arch")
          [] p = 1 -> Jeq(a, 1, 0)
          [] p = 2 -> Ret("kill")
          [] p = 3 -> Ld("nr")
          [] p \in 4..(Cardinality(S) + 3) -> Scan(S, p)
          [] p = Cardinality(S) + 4 -> Ret("allow")
          [] p = DenyBlock(Cardinality(S)) -> Ret("errno")]
BuildFilter(a, S) == IF S = {} THEN EmptyFilter(a) ELSE FilterOf(a, S)

\* struct.pack refuses a jump that does not fit.
Packs(S) == Cardinality(S) <= MaxJump

DenySet == DenyExtra[machine] \cup extra

----------------------------------------------------------------------------
(* The loader.                                                                 *)

Init ==
    /\ loader = "setup"
    /\ env \in {"off", "on", "odd"}
    /\ machine \in Machines
    /\ extra \in Extras
    /\ nnp = FALSE /\ program = NoFilter /\ warned = FALSE
    /\ call = NoCall /\ pc = 0 /\ acc = 0 /\ verdict = "none"

To(here, there) == loader = here /\ loader' = there /\ UNCHANGED <<loading, kernel>>

\* _setup_path() and the import it is for: nothing of the package may be found.
SetupPath ==
    /\ \/ To("setup", "enabled")
       \/ To("setup", "raised")
    /\ UNCHANGED <<nnp, program, warned>>

Enabled ==
    /\ IF env = "on" THEN To("enabled", "build") ELSE To("enabled", "exec")
    /\ warned' = (warned \/ env = "odd")
    /\ UNCHANGED <<nnp, program>>

WithoutFilterQuietly(here) ==
    /\ To(here, "exec")
    /\ UNCHANGED <<nnp, program, warned>>
WithoutFilter(here) ==
    /\ To(here, "exec")
    /\ warned' = TRUE
    /\ UNCHANGED <<nnp, program>>

\* The program is built once to learn whether it can be, and again to be installed.
Build ==
    \/ /\ machine \notin Supported
       /\ WithoutFilter("build")
    \/ /\ machine \in Supported
       /\ IF Packs(DenySet) THEN To("build", "libc") ELSE To("build", "raised")
       /\ UNCHANGED <<nnp, program, warned>>

\* CDLL: an OSError of its own passes every handler of the loader.
LoadLibc ==
    /\ \/ To("libc", "latch")
       \/ To("libc", "raised")
    /\ UNCHANGED <<nnp, program, warned>>

Latch ==
    \/ WithoutFilter("latch")
    \/ /\ To("latch", "install")
       /\ nnp' = TRUE
       /\ UNCHANGED <<program, warned>>

\* The kernel takes a filter from an unprivileged caller behind the latch only.
Install ==
    \/ WithoutFilter("install")
    \/ /\ To("install", "exec")
       /\ nnp
       /\ program' = BuildFilter(AuditArch[machine], DenySet)
       /\ UNCHANGED <<nnp, warned>>

\* execvp() of what follows on the command line, if anything does and can be run.
Exec ==
    /\ \/ To("exec", "payload")
       \/ To("exec", "usage")
       \/ To("exec", "raised")
    /\ UNCHANGED <<nnp, program, warned>>

----------------------------------------------------------------------------
(* The kernel: a system call of the payload, or of a process it started.       *)

SystemCall ==
    /\ loader = "payload" /\ call = NoCall /\ program # NoFilter
    /\ \E a \in AuditArches, n \in Numbers : call' = [arch |-> a, nr |-> n]
    /\ call' # NoCall
    /\ pc' = 0 /\ acc' = 0 /\ verdict' = "none"
    /\ UNCHANGED <<loader, loading, nnp, program, warned>>

Running == loader = "payload" /\ call # NoCall /\ verdict = "none"
At(op)  == Running /\ pc \in DOMAIN program /\ program[pc].op = op
Kept    == UNCHANGED <<loader, loading, nnp, program, warned, call>>

StepLoad ==
    /\ At("ld")
    /\ acc' = (IF program[pc].field = "arch" THEN call.arch ELSE call.nr)
    /\ pc' = pc + 1
    /\ UNCHANGED verdict /\ Kept

StepJump ==
    /\ At("jeq")
    /\ pc' = pc + 1 + (IF acc = program[pc].k THEN program[pc].jt ELSE program[pc].jf)
    /\ UNCHANGED <<acc, verdict>> /\ Kept

StepReturn ==
    /\ At("ret")
    /\ verdict' = program[pc].field
    /\ UNCHANGED <<pc, acc>> /\ Kept

\* A killed payload is gone; the others go on to their next call.
Resume ==
    /\ loader = "payload" /\ verdict # "none"
    /\ loader' = (IF verdict = "kill" THEN "killed" ELSE "payload")
    /\ call' = NoCall /\ pc' = 0 /\ acc' = 0 /\ verdict' = "none"
    /\ UNCHANGED <<loading, nnp, program, warned>>

LoaderNext == SetupPath \/ Enabled \/ Build \/ LoadLibc \/ Latch \/ Install \/ Exec
KernelNext == SystemCall \/ StepLoad \/ StepJump \/ StepReturn \/ Resume
Next == LoaderNext \/ KernelNext
Spec == Init /\ [][Next]_vars

----------------------------------------------------------------------------
(* Properties.                                                                 *)

Instruction == [op : {"ld", "jeq", "ret"}, k : Nat, jt : Nat, jf : Nat,
                field : {"arch", "nr", "none", "kill", "allow", "errno"}]

\* Type invariant of the loader and of the interpreter.
TypeOK ==
    /\ loader \in {"setup", "enabled", "build", "libc", "latch", "install", "exec",
                   "payload", "usage", "raised", "killed"}
    /\ env \in {"off", "on", "odd"} /\ machine \in Machines /\ extra \in Extras
    /\ nnp \in BOOLEAN /\ warned \in BOOLEAN
    /\ pc \in Nat /\ acc \in Nat
    /\ verdict \in {"none", "kill", "allow", "errno"}

\* No jump leaves the program, and every number of the deny list can be packed:
\* the kernel would refuse the filter, and the payload would run without one.
JumpsStayInside ==
    program # NoFilter =>
        /\ pc \in DOMAIN program
        /\ \A p \in DOMAIN program : program[p].jt <= MaxJump

\* What the filter is for: a call of another architecture kills, a number of the
\* deny list fails with EPERM, and every other call goes through.
Reference ==
    CASE call.arch # AuditArch[machine] -> "kill"
      [] call.arch = AuditArch[machine] /\ call.nr \in DenySet -> "errno"
      [] OTHER -> "allow"
FilterDecidesDenySet ==
    (program # NoFilter /\ verdict # "none") => verdict = Reference

\* A payload that was to be filtered is filtered, or a line said that it is not.
MissingFilterIsStated ==
    (loader = "payload" /\ env # "off") => (program # NoFilter \/ warned)

\* External: the call a C library function of the deny list ends in on x86_64,
\* where the C library does not use the call of the same name.
Routed == [adjtimex |-> 305, clock_adjtime |-> 305, settimeofday |-> 227,
           mount |-> 165, swapon |-> 167, swapoff |-> 168, acct |-> 163,
           init_module |-> 175, finit_module |-> 313, kexec_load |-> 246,
           kexec_file_load |-> 320, pivot_root |-> 155, delete_module |-> 176,
           add_key |-> 248, request_key |-> 249, keyctl |-> 250]

\* On x86_64 no C library function of the deny list gets through by the other
\* number the library issues for it.
NoRouteAround ==
    (machine = "x86_64" /\ program # NoFilter /\ verdict # "none"
        /\ call.arch = AuditArch["x86_64"])
    => (\A f \in DOMAIN Routed : call.nr = Routed[f] => verdict = "errno")

\* A call whose number is on the deny list fails, and so does one that a C library
\* function of the list ends in by another number; no other number fails.  Numbers are
\* compared whole: those of the x32 calls, under the same architecture, are others.
DeniedCallsFail == FilterDecidesDenySet /\ NoRouteAround

\* External: the names the generic system-call table gives to the numbers of the
\* aarch64 deny list.
GenericName == [n \in {40, 163, 167, 168, 222} |->
    CASE n = 40 -> "mount" [] n = 163 -> "getrlimit" [] n = 167 -> "prctl"
      [] n = 168 -> "getcpu" [] n = 222 -> "mmap"]
Aarch64Subset == {"mount", "settimeofday", "swapon", "swapoff", "clock_settime"}

\* The aarch64 deny list denies the five calls its comments name and no other.
DeniesWhatItNames ==
    (machine = "aarch64" /\ verdict = "errno" /\ call.nr \in DOMAIN GenericName)
        => GenericName[call.nr] \in Aarch64Subset
=============================================================================
