--------------------------- MODULE ZephyrPlatform ---------------------------
(***************************************************************************)
(* The Zephyr platform layer, zephyr/src/intel_fpga_platform_api_zephyr.c. *)
(*                                                                         *)
(* fpga_platform_init walks fpga_ip_access_dev_table, the devicetree       *)
(* nodes of compatible syscon in DT_FOREACH_STATUS_OKAY order: a type-1    *)
(* device (fpga_ip_access) is appended to the interface registry, the      *)
(* type-2 device (fpga_ip_access_dfl) is scanned by                        *)
(* common_dfl_scan_multi_interfaces, any other node is skipped.  The scan  *)
(* is synchronous and is taken here as the abstract scan DFLScan, whose    *)
(* implementation by the walker DFLWalker checks.  fpga_platform_cleanup   *)
(* empties the registry.                                                   *)
(*                                                                         *)
(* zephyr_parse_args hands --address-span (-s) to parse_integer_arg (see   *)
(* ParseIntegerArg) and, unlike the UIO and devmem layers, never resets    *)
(* optind, so getopt_long goes on from where the previous init stopped.    *)
(* The span is only read by the unit-test build's validation.             *)
(*                                                                         *)
(* Left out, because nothing in a build reaches them: the single-component *)
(* branch (s_zephyr_single_component_mode is only ever set to 0) and the   *)
(* unit-test software model (ZEPHYR_UNIT_TEST_SW_MODEL_MODE).  Addresses   *)
(* (start address 0, base addresses, s_zephyr_dfl_addr for printing) are   *)
(* abstracted to the index of the device in the table.                     *)
(***************************************************************************)
EXTENDS Integers, Sequences

CONSTANTS
    Tables,         \* the device tables a devicetree may produce
    DflRom,         \* the DFL image behind a type-2 device
    Args,           \* argument vectors: sequences of --address-span strings
    LONG_MAX        \* the largest long, scaled down

Parse == INSTANCE ParseIntegerArg

\* The .type values FPGA_IP_ACCESS_DEV gives a node.
DEV_OTHER == 0
DEV_IP    == 1
DEV_DFL   == 2

VARIABLES
    fpga_ip_access_dev_table,   \* fixed at build time
    registry,                   \* the FPGA_INTERFACE_INFO vector
    s_zephyr_dfl_found,
    platform,                   \* "down" (before init, after cleanup) or "up"
    init_ret,                   \* what the last fpga_platform_init returned
    first_init,                 \* history: [ret, reg] of the first init, or <<>>
    s_zephyr_addr_span,
    errno,
    optind                      \* getopt's position, counted in options

vars == <<fpga_ip_access_dev_table, registry, s_zephyr_dfl_found, platform,
          init_ret, first_init, s_zephyr_addr_span, errno, optind>>

Scan == INSTANCE DFLScan WITH Roms <- {DflRom}, rom <- DflRom,
                              phase <- "idle", registry <- <<>>

table == fpga_ip_access_dev_table

\* The records common_dfl_scan_multi_interfaces leaves for the DFL behind
\* device n: it resizes the registry to zero first, whatever was there.
DflRecords(n) ==
    LET e == Scan!Expected(DflRom)
    IN  [i \in 1..Len(e) |-> [dfl |-> TRUE, dev |-> n, hdr |-> e[i].hdr]]

DeviceRecord(n) == [dfl |-> FALSE, dev |-> n, hdr |-> -1]

\* Mutant: the new record written over the last one.
AddDeviceOverwrite(reg, n) ==
    IF reg = <<>> THEN <<DeviceRecord(n)>>
    ELSE [reg EXCEPT ![Len(reg)] = DeviceRecord(n)]

\* Mutant: the record of the table entry before n.
AddDevicePrevious(reg, n) == Append(reg, DeviceRecord(n - 1))

\* Case 1: a new index at the current size of the vector.
AddDevice(reg, n) == Append(reg, DeviceRecord(n))

(***************************************************************************)
(* The for loop of zephyr_scan_interfaces from table entry n on; st holds  *)
(* the registry, s_zephyr_dfl_found and whether the loop ran to its end.   *)
(* A second DFL device returns false at once, keeping what was done.       *)
(***************************************************************************)
RECURSIVE ScanTable(_, _)
ScanTable(n, st) ==
    IF n > Len(table) THEN st
    ELSE CASE table[n] = DEV_IP ->
                  ScanTable(n + 1, [st EXCEPT !.reg = AddDevice(@, n)])
           [] table[n] = DEV_DFL /\ st.found ->
                  [st EXCEPT !.ok = FALSE]
           [] table[n] = DEV_DFL ->
                  ScanTable(n + 1, [st EXCEPT !.found = TRUE, !.reg = DflRecords(n)])
           [] OTHER -> ScanTable(n + 1, st)

\* zephyr_scan_interfaces: false for an empty table, else the loop.
zephyr_scan_interfaces(reg, found) ==
    IF Len(table) = 0 THEN [reg |-> reg, found |-> found, ok |-> FALSE]
    ELSE ScanTable(1, [reg |-> reg, found |-> found, ok |-> TRUE])

(***************************************************************************)
(* zephyr_parse_args: getopt_long returns the options from optind on, each *)
(* -s storing its parsed value; optind is left past the last option.  st   *)
(* holds the span and errno.                                               *)
(***************************************************************************)
ParseSpan(st, str) ==
    LET r == Parse!parse_integer_arg(str, st.errno)
    IN  [span |-> r.ret, errno |-> r.errno]

zephyr_parse_args(a) ==
    LET RECURSIVE From(_, _)
        From(i, st) == IF i > Len(a) THEN st ELSE From(i + 1, ParseSpan(st, a[i]))
    IN  From(optind, [span |-> s_zephyr_addr_span, errno |-> errno])

-----------------------------------------------------------------------------
Init ==
    /\ fpga_ip_access_dev_table \in Tables
    /\ registry = <<>>
    /\ s_zephyr_dfl_found = FALSE
    /\ platform = "down"
    /\ init_ret = FALSE
    /\ first_init = <<>>
    /\ s_zephyr_addr_span = 0 /\ errno = 0 /\ optind = 1

\* fpga_platform_init: zephyr_validate_args is true outside the unit-test
\* build, so the result is that of zephyr_scan_interfaces.
FpgaPlatformInit ==
    /\ platform = "down"
    /\ \E a \in Args :
        LET p == zephyr_parse_args(a)
        IN  /\ s_zephyr_addr_span' = p.span
            /\ errno' = p.errno
            /\ optind' = IF optind > Len(a) THEN optind ELSE Len(a) + 1
    /\ LET r == zephyr_scan_interfaces(registry, s_zephyr_dfl_found)
       IN  /\ registry' = r.reg
           /\ s_zephyr_dfl_found' = r.found
           /\ init_ret' = r.ok
           /\ first_init' = IF first_init = <<>> THEN <<[ret |-> r.ok, reg |-> r.reg]>>
                            ELSE first_init
    /\ platform' = "up"
    /\ UNCHANGED fpga_ip_access_dev_table

\* fpga_platform_cleanup: resets the span (and the start address, mode and
\* mmap pointer, which the model does not need), empties the registry and
\* sets errno to -1; optind is not reset.
FpgaPlatformCleanup ==
    /\ platform = "up"
    /\ registry' = <<>>
    /\ platform' = "down"
    /\ s_zephyr_addr_span' = 0
    /\ errno' = -1
    /\ UNCHANGED optind
    /\ UNCHANGED <<fpga_ip_access_dev_table, s_zephyr_dfl_found, init_ret, first_init>>

Next == FpgaPlatformInit \/ FpgaPlatformCleanup

Spec == Init /\ [][Next]_vars

-----------------------------------------------------------------------------
TypeOK ==
    /\ fpga_ip_access_dev_table \in Seq({DEV_OTHER, DEV_IP, DEV_DFL})
    /\ registry \in Seq([dfl : BOOLEAN, dev : DOMAIN table, hdr : Int])
    /\ s_zephyr_dfl_found \in BOOLEAN
    /\ platform \in {"down", "up"}
    /\ init_ret \in BOOLEAN
    /\ Len(first_init) <= 1
    /\ s_zephyr_addr_span \in 0..LONG_MAX /\ optind \in Nat \ {0}
    /\ errno \in {0, -1, Parse!ERANGE}

\* The registry a successful init is meant to leave (the Zephyr test
\* counts it with fpga_get_num_of_interfaces): the features of the DFL
\* device, then every type-1 device in table order.
IpDevices == SelectSeq([n \in 1..Len(table) |-> n], LAMBDA n : table[n] = DEV_IP)

Intended ==
    (IF \E n \in DOMAIN table : table[n] = DEV_DFL
     THEN DflRecords(CHOOSE n \in DOMAIN table : table[n] = DEV_DFL)
     ELSE <<>>)
    \o [i \in 1..Len(IpDevices) |-> DeviceRecord(IpDevices[i])]

\* When fpga_platform_init reports success, every device of the table is
\* in the registry: none appended by case 1 is lost to the DFL scan.
InitRegistryAsIntended ==
    platform = "up" /\ init_ret => registry = Intended

\* fpga_platform_cleanup "re-initializes local variables": an init after
\* a cleanup returns what the first init returned, with the same registry.
ReinitLikeFirst ==
    platform = "up" /\ first_init /= <<>> =>
        /\ init_ret = first_init[1].ret
        /\ registry = first_init[1].reg
=============================================================================
