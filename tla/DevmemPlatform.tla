--------------------------- MODULE DevmemPlatform ---------------------------
(***************************************************************************)
(* The devmem platform layer, devmem/src/intel_fpga_platform_api_devmem.c. *)
(*                                                                         *)
(* fpga_platform_init parses the arguments, validates them, opens          *)
(* /dev/mem, maps the pages from the start address rounded down to a page  *)
(* for the given span, and either records one interface at the start      *)
(* address or scans the DFL at the entry address, handing the walker       *)
(* devmem_dfl_base_addr_decoder to turn mapped addresses back into         *)
(* physical ones.  fpga_platform_cleanup unmaps, closes the handle, resets *)
(* the start address, span and mode, and empties the registry.             *)
(*                                                                         *)
(* Addresses are W-bit numbers (the code's size_t and uint64_t), the page  *)
(* is PAGE bytes (4 KiB in the code); both are scaled down.  The mapping   *)
(* mmap returns is the page-aligned virtual address VirtBase.  File        *)
(* descriptors are the small set Fds, handed out lowest first as open(2)   *)
(* does; the application may open and close its own files between the     *)
(* library's calls.                                                        *)
(***************************************************************************)
EXTENDS Integers, Sequences, SequencesExt, Bitwise

CONSTANTS
    W, PAGE,        \* address width in bits, page size in bytes
    VirtBase,       \* the address mmap maps the pages at
    Args,           \* the argument vectors the application may pass
    Fds,            \* the file descriptors the process may hold
    MayFail,        \* whether open and mmap may fail
    MaxInits        \* bound on the number of fpga_platform_init calls

(***************************************************************************)
(* An argument vector is the sequence of options getopt_long returns, in  *)
(* argv order: [opt |-> "a" | "s" | "w", val |-> the optarg string] for   *)
(* --start-address, --address-span and --dfl-entry-address, and           *)
(* [opt |-> "c", val |-> <<>>] for the long --single-component-mode.      *)
(***************************************************************************)
ASSUME \A a \in Args : \A i \in DOMAIN a : a[i].opt \in {"a", "s", "w", "c"}
ASSUME Fds \subseteq Nat /\ VirtBase % PAGE = 0

\* long is as wide as size_t (sizeof(size_t) <= sizeof(long) holds).
Parse == INSTANCE ParseIntegerArg WITH LONG_MAX <- 2^(W - 1) - 1

\* errno values: none yet at process start, the -1 cleanup stores, ERANGE,
\* and the error an open or mmap failure leaves (EACCES, say).
EACCES == 13

VARIABLES
    app,                            \* "down" (before init, after cleanup) or "up"
    s_devmem_start_addr, s_devmem_addr_span, s_dfl_entry_addr,
    s_devmem_single_component_mode,
    s_devmem_drv_handle,            \* -1 or a descriptor of Fds
    s_devmem_mmap_ptr,              \* 0 (NULL), MAP_FAILED or VirtBase
    entry,                          \* the address scan_interfaces handed out, or -1
    fd_owner,                       \* who holds each descriptor: "free", "lib", "app"
    errno,                          \* the process's errno
    argv,                           \* the arguments of the last init (history)
    inits,
    init_ret

vars == <<app, s_devmem_start_addr, s_devmem_addr_span, s_dfl_entry_addr,
          s_devmem_single_component_mode, s_devmem_drv_handle, s_devmem_mmap_ptr,
          entry, fd_owner, errno, argv, inits, init_ret>>

Outcomes == IF MayFail THEN BOOLEAN ELSE {TRUE}

\* devmem_map_mmio: mmap of the page-aligned span maps it (TRUE) or returns
\* MAP_FAILED (FALSE).
devmem_map_mmio == Outcomes

\* Arithmetic in size_t.
Wrap(x) == x % 2^W

\* MAP_FAILED is (void *) -1.
MAP_FAILED == 2^W - 1

\* ~(4*1024-1) as a W-bit value, and the page offset it masks off.
MASK_4K_ADDR == 2^W - PAGE
PageOffset(x) == x & (PAGE - 1)

\* open(2) returns the lowest free descriptor.
LowestFree == IF \E f \in Fds : fd_owner[f] = "free"
              THEN CHOOSE f \in Fds : fd_owner[f] = "free" /\ \A g \in Fds : fd_owner[g] = "free" => f <= g
              ELSE -1

(***************************************************************************)
(* devmem_parse_args, from optind = 0 on: each option stores its parsed    *)
(* value in its static, -w also leaves single-component mode, the long     *)
(* --single-component-mode sets the mode flag through getopt_long's flag   *)
(* pointer; an option not given keeps the static's value.  st holds the    *)
(* statics and errno, which parse_integer_arg reads and may set.           *)
(***************************************************************************)
ParseOption(st, o) ==
    LET r == Parse!parse_integer_arg(o.val, st.errno)
    IN  CASE o.opt = "a" -> [st EXCEPT !.start = r.ret, !.errno = r.errno]
          [] o.opt = "s" -> [st EXCEPT !.span = r.ret, !.errno = r.errno]
          [] o.opt = "w" -> [st EXCEPT !.dfl = r.ret, !.errno = r.errno, !.mode = FALSE]
          [] o.opt = "c" -> [st EXCEPT !.mode = TRUE]

devmem_parse_args(a, st) == FoldLeft(ParseOption, st, a)

\* The statics and errno as they are now.
CurrentStatics ==
    [start |-> s_devmem_start_addr, span |-> s_devmem_addr_span, dfl |-> s_dfl_entry_addr,
     mode |-> s_devmem_single_component_mode, errno |-> errno]

\* Mutant: the DFL entry address is not checked against the range.
ValidateArgsIgnoresDfl(cfg) ==
    cfg.span > 0 /\ cfg.start > 0

\* devmem_validate_args: the end of the range is computed in size_t.
devmem_validate_args(cfg) ==
    /\ cfg.span > 0 /\ cfg.start > 0
    /\ cfg.mode \/ ~(cfg.dfl < cfg.start \/ cfg.dfl >= Wrap(cfg.start + cfg.span))

\* Mutant: the page offset of the start address is not taken off.
DecoderNoPageOffset(base, start, ptr) ==
    Wrap(base - ptr + start)

\* devmem_dfl_base_addr_decoder: a mapped address back to a physical one.
devmem_dfl_base_addr_decoder(base, start, ptr) ==
    Wrap(base - ptr - PageOffset(start) + start)

\* devmem_scan_interfaces: the base address of record 0, or the first DFH
\* address handed to common_dfl_scan_multi_interfaces.
devmem_scan_interfaces(cfg, ptr) ==
    IF cfg.mode THEN Wrap(ptr + PageOffset(cfg.start))
    ELSE Wrap(ptr + (cfg.dfl - cfg.start) + PageOffset(cfg.start))

-----------------------------------------------------------------------------
\* The validated arguments are stored whatever the outcome.
StoreArgs(cfg) ==
    /\ s_devmem_start_addr' = cfg.start
    /\ s_devmem_addr_span' = cfg.span
    /\ s_dfl_entry_addr' = cfg.dfl
    /\ s_devmem_single_component_mode' = cfg.mode

\* err_open: invalid arguments, or open failed (the handle becomes -1).
InitOpenFails(valid) ==
    /\ init_ret' = FALSE
    /\ s_devmem_drv_handle' = IF valid THEN -1 ELSE s_devmem_drv_handle
    /\ UNCHANGED <<s_devmem_mmap_ptr, entry, fd_owner>>

\* err_map: mmap failed; the descriptor is closed, the handle keeps its number.
InitMapFails(fd) ==
    /\ init_ret' = FALSE
    /\ s_devmem_drv_handle' = fd
    /\ s_devmem_mmap_ptr' = MAP_FAILED
    /\ UNCHANGED <<entry, fd_owner>>

\* Mutant: the interface address is kept as the mapping pointer.
InitSucceedsOffsetPtr(cfg, fd) ==
    /\ init_ret' = TRUE
    /\ s_devmem_drv_handle' = fd
    /\ s_devmem_mmap_ptr' = VirtBase + PageOffset(cfg.start)
    /\ fd_owner' = [fd_owner EXCEPT ![fd] = "lib"]
    /\ entry' = devmem_scan_interfaces(cfg, VirtBase)

\* Mutant: the descriptor open returned is not kept in the static.
InitSucceedsLocalHandle(cfg, fd) ==
    /\ init_ret' = TRUE
    /\ s_devmem_drv_handle' = -1
    /\ s_devmem_mmap_ptr' = VirtBase
    /\ fd_owner' = [fd_owner EXCEPT ![fd] = "lib"]
    /\ entry' = devmem_scan_interfaces(cfg, VirtBase)

\* open and mmap succeeded; devmem_scan_interfaces always does.
InitSucceeds(cfg, fd) ==
    /\ init_ret' = TRUE
    /\ s_devmem_drv_handle' = fd
    /\ s_devmem_mmap_ptr' = VirtBase
    /\ fd_owner' = [fd_owner EXCEPT ![fd] = "lib"]
    /\ entry' = devmem_scan_interfaces(cfg, VirtBase)

FpgaPlatformInit(a) ==
    LET cfg == devmem_parse_args(a, CurrentStatics)
        fd  == LowestFree
    IN
    /\ app = "down"
    /\ inits < MaxInits
    /\ app' = "up"
    /\ inits' = inits + 1
    /\ argv' = a
    /\ StoreArgs(cfg)
    /\ \/ ~devmem_validate_args(cfg) /\ InitOpenFails(FALSE) /\ errno' = cfg.errno
       \/ /\ devmem_validate_args(cfg)
          /\ fd = -1 \/ FALSE \in Outcomes
          /\ InitOpenFails(TRUE) /\ errno' = EACCES
       \/ /\ devmem_validate_args(cfg) /\ fd /= -1
          /\ FALSE \in devmem_map_mmio
          /\ InitMapFails(fd) /\ errno' = EACCES
       \/ /\ devmem_validate_args(cfg) /\ fd /= -1
          /\ TRUE \in devmem_map_mmio
          /\ InitSucceeds(cfg, fd) /\ errno' = cfg.errno

\* Mutant: errno is left as the last init left it.
FpgaPlatformCleanupKeepsErrno ==
    /\ app = "up"
    /\ app' = "down"
    /\ fd_owner' = IF s_devmem_drv_handle >= 0
                   THEN [fd_owner EXCEPT ![s_devmem_drv_handle] = "free"]
                   ELSE fd_owner
    /\ s_devmem_start_addr' = 0
    /\ s_devmem_addr_span' = 0
    /\ s_devmem_single_component_mode' = TRUE
    /\ s_devmem_drv_handle' = -1
    /\ s_devmem_mmap_ptr' = 0
    /\ entry' = -1
    /\ UNCHANGED <<s_dfl_entry_addr, errno, argv, inits, init_ret>>

\* munmap, close the handle when it is not negative, reset the statics
\* (s_dfl_entry_addr is kept), resize the registry to zero and set errno
\* to -1, since strtol does not clear it on success.
FpgaPlatformCleanup ==
    /\ app = "up"
    /\ app' = "down"
    /\ fd_owner' = IF s_devmem_drv_handle >= 0
                   THEN [fd_owner EXCEPT ![s_devmem_drv_handle] = "free"]
                   ELSE fd_owner
    /\ s_devmem_start_addr' = 0
    /\ s_devmem_addr_span' = 0
    /\ s_devmem_single_component_mode' = TRUE
    /\ s_devmem_drv_handle' = -1
    /\ s_devmem_mmap_ptr' = 0
    /\ entry' = -1
    /\ errno' = -1
    /\ UNCHANGED <<s_dfl_entry_addr, argv, inits, init_ret>>

\* The application opens or closes a file of its own between library calls.
AppOpenFile ==
    /\ LowestFree /= -1
    /\ fd_owner' = [fd_owner EXCEPT ![LowestFree] = "app"]
    /\ UNCHANGED <<app, s_devmem_start_addr, s_devmem_addr_span, s_dfl_entry_addr,
                   s_devmem_single_component_mode, s_devmem_drv_handle,
                   s_devmem_mmap_ptr, entry, errno, argv, inits, init_ret>>

AppCloseFile ==
    /\ \E f \in Fds : fd_owner[f] = "app" /\ fd_owner' = [fd_owner EXCEPT ![f] = "free"]
    /\ UNCHANGED <<app, s_devmem_start_addr, s_devmem_addr_span, s_dfl_entry_addr,
                   s_devmem_single_component_mode, s_devmem_drv_handle,
                   s_devmem_mmap_ptr, entry, errno, argv, inits, init_ret>>

Init ==
    /\ app = "down"
    /\ s_devmem_start_addr = 0 /\ s_devmem_addr_span = 0 /\ s_dfl_entry_addr = 0
    /\ s_devmem_single_component_mode = TRUE
    /\ s_devmem_drv_handle = -1
    /\ s_devmem_mmap_ptr = 0
    /\ entry = -1
    /\ fd_owner = [f \in Fds |-> "free"]
    /\ errno = 0
    /\ argv = <<>>
    /\ inits = 0
    /\ init_ret = FALSE

Next ==
    \/ \E a \in Args : FpgaPlatformInit(a)
    \/ FpgaPlatformCleanup
    \/ AppOpenFile \/ AppCloseFile

Spec == Init /\ [][Next]_vars

-----------------------------------------------------------------------------
TypeOK ==
    /\ app \in {"down", "up"}
    /\ s_devmem_drv_handle \in {-1} \cup Fds
    /\ s_devmem_mmap_ptr \in {0, MAP_FAILED, VirtBase}
    /\ entry \in {-1} \cup 0..(2^W - 1)
    /\ fd_owner \in [Fds -> {"free", "lib", "app"}]
    /\ s_devmem_single_component_mode \in BOOLEAN /\ init_ret \in BOOLEAN
    /\ errno \in {0, -1, Parse!ERANGE, EACCES}

\* Once fpga_platform_cleanup has returned, the library holds no descriptor,
\* whichever of open, mmap or the scan the init before it got to.
NoLeakedFd ==
    app = "down" => \A f \in Fds : fd_owner[f] /= "lib"

\* After a successful init, devmem_dfl_base_addr_decoder maps the address
\* handed out by devmem_scan_interfaces back to the physical address it
\* stands for: the start address, or the DFL entry address.
DecoderInvertsMapping ==
    app = "up" /\ init_ret =>
        devmem_dfl_base_addr_decoder(entry, s_devmem_start_addr, s_devmem_mmap_ptr)
            = IF s_devmem_single_component_mode THEN s_devmem_start_addr
              ELSE s_dfl_entry_addr

\* In DFL mode a successful init has the entry address inside a range from
\* the start address that fits the address space: devmem_validate_args
\* computes the end of the range in size_t, where it would wrap for a
\* start and span near the top.
DflEntryInRange ==
    app = "up" /\ init_ret /\ ~s_devmem_single_component_mode =>
        /\ s_devmem_start_addr <= s_dfl_entry_addr
        /\ s_dfl_entry_addr < s_devmem_start_addr + s_devmem_addr_span
        /\ s_devmem_start_addr + s_devmem_addr_span <= 2^W

\* The configuration an init acts on: the DFL entry address only counts in
\* DFL mode.
InEffect(st) ==
    [start |-> st.start, span |-> st.span, mode |-> st.mode,
     dfl |-> IF st.mode THEN 0 ELSE st.dfl]

\* The statics and errno of a process that has not called the library.
FreshStatics == [start |-> 0, span |-> 0, dfl |-> 0, mode |-> TRUE, errno |-> 0]

\* An init acts on what its arguments give in a process that never called
\* the library: neither the statics nor the ERANGE strtol left in errno
\* during an earlier init carry over a cleanup.  fpga_platform_cleanup
\* resets the statics and sets errno to -1 for this, because strtol does
\* not clear errno on success.
ParsedLikeFreshProcess ==
    app = "up" =>
        InEffect(CurrentStatics) = InEffect(devmem_parse_args(argv, FreshStatics))

\* The pages mmap maps: from the start address rounded down to a page, the
\* span rounded up to whole pages.
MappedEnd == (s_devmem_start_addr & MASK_4K_ADDR)
             + ((s_devmem_addr_span + PAGE - 1) \div PAGE) * PAGE

\* After a successful init the accepted interface lies inside the mapping:
\* the whole span from the start address, or the DFL entry header.
InterfaceInsideMapping ==
    app = "up" /\ init_ret =>
        IF s_devmem_single_component_mode
        THEN s_devmem_start_addr + s_devmem_addr_span <= MappedEnd
        ELSE s_dfl_entry_addr < MappedEnd

\* fpga_platform_cleanup never closes a descriptor the application opened
\* itself after fpga_platform_init returned.
CleanupClosesOwnHandle ==
    [][app = "up" /\ app' = "down" =>
         s_devmem_drv_handle < 0 \/ fd_owner[s_devmem_drv_handle] /= "app"]_vars
====
