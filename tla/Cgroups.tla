------------------------------ MODULE Cgroups ------------------------------
(***************************************************************************)
(* From the resources of a configuration to the control group              *)
(* (oci-runtime-core's cgroups.rs and systemd_cgroup.rs).  A container     *)
(* that ociman launches gets a systemd scope with properties; ocirun, and  *)
(* every update, write the files of the group themselves.                  *)
(*                                                                         *)
(* What is written is a sequence of <<file, value>>; the text "max", and   *)
(* systemd's infinity, is -1.  Times are in milliseconds.                  *)
(***************************************************************************)
EXTENDS ContainerSpec

CONSTANTS
    SharesCurve  \* shares -> weight between the two ends of the range

When(condition, file, value) == IF condition THEN <<<<file, value>>>> ELSE <<>>
OrZero(v) == IF v = None THEN 0 ELSE v

-----------------------------------------------------------------------------
(* The runtime configuration counts memory and swap together, the group swap alone. *)
convert_memory_swap_to_v2(swap, memory) ==
    IF memory = -1 /\ swap = 0 THEN -1
    ELSE IF swap \in {-1, 0} \/ memory = -1 THEN swap
    ELSE IF memory <= 0 \/ swap < memory THEN Invalid
    ELSE swap - memory

(* A zero is written only where it means that there is no swap. *)
plan_memory(m) ==
    LET swap == convert_memory_swap_to_v2(OrZero(m.swap), OrZero(m.limit)) IN
    When(/\ m.swap # None \/ m.limit = -1
         /\ swap # Invalid
         /\ swap # 0 \/ OrZero(m.swap) > 0, "memory.swap.max", swap)
    \o When(m.limit \notin {None, 0}, "memory.max", m.limit)
    \o When(m.reservation \notin {None, 0}, "memory.low", m.reservation)

convert_cpu_shares_to_weight(shares) ==
    CASE shares = 0 -> 0
      [] shares \in 1..2 -> 1
      [] shares >= 262144 -> 10000
      [] OTHER -> SharesCurve[shares]

PeriodOf(cpu) == IF cpu.period \in {None, 0} THEN CPU_PERIOD_USEC ELSE cpu.period

plan_cpu(cpu) ==
    LET weight == convert_cpu_shares_to_weight(OrZero(cpu.shares))
        quota == IF OrZero(cpu.quota) > 0 THEN cpu.quota ELSE -1 IN
    When(weight # 0, "cpu.weight", weight)
    \o When({cpu.quota, cpu.period} # {None}, "cpu.max", <<quota, PeriodOf(cpu)>>)
    \o When(cpu.cpus # <<>>, "cpuset.cpus", cpu.cpus)
    \o When(cpu.mems # <<>>, "cpuset.mems", cpu.mems)

plan_blkio(weight) == When(weight \notin {None, 0}, "io.bfq.weight", weight)

plan_resources(r) ==
    (IF r.memory = None THEN <<>> ELSE plan_memory(r.memory))
    \o (IF r.cpu = None THEN <<>> ELSE plan_cpu(r.cpu))
    \o When(r.pids \notin {None, 0}, "pids.max", r.pids)
    \o plan_blkio(r.block_io)

-----------------------------------------------------------------------------
convert_blkio_weight_to_io_weight(weight) ==
    IF weight = 0 THEN 0
    ELSE 1 + ((IF weight > 10 THEN weight - 10 ELSE 0) * 9999) \div 990

(* The files of the group are written one by one, up to one that is not there; without
   the scheduler of io.bfq.weight, io.weight is written in its place. *)
apply(group, writes, absent) ==
    LET Falls(i) == writes[i][1] = "io.bfq.weight" /\ "io.bfq.weight" \in absent
        File(i) == IF Falls(i) THEN "io.weight" ELSE writes[i][1]
        Content(i) == IF Falls(i) THEN convert_blkio_weight_to_io_weight(writes[i][2])
                      ELSE writes[i][2]
        missing == {i \in DOMAIN writes : File(i) \in absent}
        done == {i \in DOMAIN writes : \A j \in missing : i < j}
    IN [ok |-> missing = {},
        files |-> [name \in DOMAIN group \cup {File(i) : i \in done} |->
                      LET mine == {i \in done : File(i) = name}
                      IN IF mine = {} THEN group[name] ELSE Content(Max(mine))]]

(* A list of ranges <<first, last>>. *)
cpuset_string_to_bitmask(ranges) ==
    IF \E i \in DOMAIN ranges : ranges[i][2] < ranges[i][1] THEN Invalid
    ELSE UNION {ranges[i][1]..ranges[i][2] : i \in DOMAIN ranges}

(* Time in a second, rounded up to a hundredth of a processor. *)
QuotaPerSec(quota, period) ==
    LET exact == (quota * 1000) \div period
    IN IF exact % 10 = 0 THEN exact ELSE (exact \div 10 + 1) * 10

(* Mutant: the combined figure is passed on as it is. *)
MemoryPropertiesCombined(m) ==
    When(m.limit # None, "MemoryMax", m.limit)
    \o When(m.reservation # None, "MemoryLow", m.reservation)
    \o When(m.swap # None, "MemorySwapMax", m.swap)

MemoryProperties(m) ==
    LET swap == convert_memory_swap_to_v2(OrZero(m.swap), OrZero(m.limit)) IN
    When(m.limit # None, "MemoryMax", m.limit)
    \o When(m.reservation # None, "MemoryLow", m.reservation)
    \o When(m.swap # None /\ swap # Invalid, "MemorySwapMax", swap)

CpuProperties(cpu) ==
    LET weight == convert_cpu_shares_to_weight(OrZero(cpu.shares))
        limited == OrZero(cpu.quota) > 0 IN
    When(weight # 0, "CPUWeight", weight)
    \o When(limited, "CPUQuotaPerSecUSec", QuotaPerSec(OrZero(cpu.quota), PeriodOf(cpu)))
    \o When(limited, "CPUQuotaPeriodUSec", PeriodOf(cpu))
    \o When(cpu.cpus # <<>> /\ cpuset_string_to_bitmask(cpu.cpus) # Invalid, "AllowedCPUs",
            cpuset_string_to_bitmask(cpu.cpus))
    \o When(cpu.mems # <<>> /\ cpuset_string_to_bitmask(cpu.mems) # Invalid, "AllowedMemoryNodes",
            cpuset_string_to_bitmask(cpu.mems))

resource_properties(r) ==
    (IF r.memory = None THEN <<>> ELSE MemoryProperties(r.memory))
    \o (IF r.cpu = None THEN <<>> ELSE CpuProperties(r.cpu))
    \o When(r.pids # None, "TasksMax", r.pids)
    \o When(r.block_io \notin {None, 0}, "IOWeight",
            convert_blkio_weight_to_io_weight(OrZero(r.block_io)))

-----------------------------------------------------------------------------
(* What a group or a scope enforces, absent files and properties at their defaults; the
   time of a processor to the hundredth that systemd knows. *)
AsFunction(writes) ==
    [name \in {writes[i][1] : i \in DOMAIN writes} |->
        (CHOOSE w \in {writes[i] : i \in DOMAIN writes} : w[1] = name)[2]]

GroupLimits(files) ==
    LET cpu == Asked(files, "cpu.max", <<-1, CPU_PERIOD_USEC>>) IN
    [memory |-> Asked(files, "memory.max", -1), swap |-> Asked(files, "memory.swap.max", -1),
     low |-> Asked(files, "memory.low", 0), pids |-> Asked(files, "pids.max", -1),
     weight |-> Asked(files, "cpu.weight", 100), io |-> Asked(files, "io.weight", 100),
     cpu |-> IF cpu[1] = -1 THEN -1 ELSE QuotaPerSec(cpu[1], cpu[2]),
     cpus |-> cpuset_string_to_bitmask(Asked(files, "cpuset.cpus", <<>>))]

ScopeLimits(p) ==
    [memory |-> Asked(p, "MemoryMax", -1), swap |-> Asked(p, "MemorySwapMax", -1),
     low |-> Asked(p, "MemoryLow", 0), pids |-> Asked(p, "TasksMax", -1),
     weight |-> Asked(p, "CPUWeight", 100), io |-> Asked(p, "IOWeight", 100),
     cpu |-> Asked(p, "CPUQuotaPerSecUSec", -1), cpus |-> Asked(p, "AllowedCPUs", {})]

NoBfq == {"io.bfq.weight"}
=============================================================================
