# TLA+ models of the FPGA IP access library

This directory holds TLA+ models of `src/fpga_ip_access_lib`, the TLC
configurations that check them, and `PROJECT.json`, which lists the components,
runs, mutants, the definition-to-source map, the findings and the hazards.

## 1. The system

| Part | Source | Role |
|---|---|---|
| DFL walker | `common/src/intel_fpga_api_cmn_dfl.c` | `common_dfl_scan_multi_interfaces` walks the Device Feature List in device memory twice. Pass 1 counts the headers. The registry is then resized to that count. Pass 2 fills one record per header: GUID, IDs, base address, parent index and parameter records. |
| Parent stack | same file, `dfh_parent_stack_*` | A global growable `int` stack. It holds the registry index of the header whose branch led to the chain being walked. |
| Raw accessor | `common/inc/intel_fpga_api_cmn_dfl.h` | `common_dfl_read_32/64`: aligned loads. With `FPGA_PLATFORM_FORCE_64BIT_MMIO_EMULATION_WITH_32BIT`, a 64-bit read is two 32-bit reads. |
| Interface registry | `intel_fpga_api_cmn_inf.h` (not in the repository) | `common_fpga_interface_info_vec_*`: a growable vector of records. Only the walker and the platform layers write to it. |
| UIO platform | `uio/src/intel_fpga_platform_api_uio.c` | Argument parsing and sysfs lookup, open and mmap of `/dev/uioN`, then a scan (DFL mode) or one record (single-component mode). An interrupt thread is synchronised with `fpga_platform_cleanup` through an rwlock-protected exit flag and a semaphore. It polls with a 100 ms timeout. |
| Zephyr platform | `zephyr/src/intel_fpga_platform_api_zephyr.c` | Walks the device-tree table. Type-1 devices are appended to the registry. The one type-2 device (the DFL ROM) is scanned. |
| Devmem platform | `devmem/src/intel_fpga_platform_api_devmem.c` | `/dev/mem` with a 4K-aligned mmap, argument validation, then a scan or one record. |
| Devmem API stubs | `devmem/src/intel_fpga_api_devmem.c` | Each function raises "not supported". |
| Tests | `common/test/utst`, `zephyr/test`, `devmem/test-dfl` | DFL generators and the scenario tests of spec.md section 8. |

How the parts interact:
- Each platform's `fpga_platform_init` obtains a base pointer and calls the walker once.
- The walker reads device memory only through the raw accessor.
- The walker writes only to the registry.
- `fpga_platform_cleanup` resizes the registry to zero. The UIO platform also stops its interrupt thread first.
- Everything except the UIO interrupt thread is single-threaded and synchronous.

### Hard behaviours, by part

- **Walker.**
  - Recursion across both passes.
  - Indices must line up between the passes.
  - Parent indices come from a stack whose pushes and pops are spread over two functions.
  - The parameter list ends only on a block with EOP set and a zero offset.
  - The parameter array is grown one record after every block without EOP. It therefore ends with a zeroed record when the list ends in a null block.
  - Branch targets can be absolute or relative to the header.
  - The same chain can be reached twice (a DAG).
  - The global state persists from one scan to the next.
- **Parent stack.** Growth happens at `top == size`, but the store goes to `top + 1`. The global starts at `top = 0`, not at the `-1` of the unused `DFH_PARENT_STACK_default`.
- **UIO.**
  - Cleanup and the interrupt thread run concurrently.
  - The thread has two blocking waits: `sem_wait` when interrupts are disabled, `poll` with a timeout when they are enabled.
  - The thread reads record 0 without a lock.
  - Globals are reset in cleanup, and re-init happens after that reset.
- **Zephyr.** The order of the device table matters, because the scan resizes the registry to zero first. One flag lives across cleanup.
- **Devmem.** `size_t` arithmetic in argument validation.

### Properties worth checking, by part

- **Walker.** The registry equals the depth-first unfolding of the DFL, with the parents and parameter records spec.md describes (section 4.2, P1-P5, scenario C). Pass 2 stays inside the vector pass 1 sized. The parent stack is released after a scan. A scan of a well-formed image terminates and never raises a fatal error.
- **Parent stack.** Every store is inside the allocation.
- **UIO.**
  - Cleanup always gets its join: the thread eventually exits, in both wait states.
  - No ISR call happens after cleanup has started.
  - Init succeeds only if the thread runs.
  - Init → cleanup → init → cleanup is safe.
- **Zephyr.** Every configured device is in the registry after init. Re-init after cleanup succeeds like the first init.
- **Devmem.** Validation accepts exactly the argument sets whose range is sound.

## 2. Modules

### `DFLRom`: the device image

A ROM is a function from header addresses to decoded headers. Addresses are counted in header slots, so the code's byte offsets become slot and position arithmetic. A header is a record with these fields:
- `eol`: bit 40;
- `nextOff`: the unsigned next-DFH offset;
- `hasParams`: bit 31 of the CSR group word;
- `params`: the parameter blocks in address order.

A block is `[id, eop, words, branch]`.

The module also holds the decoders the walker uses, named as in the code:
- `is_eol`, `get_next_dfh_addr`, `has_params`, `is_last_param_block`;
- the loop condition `ParamLoopContinues`;
- the payload size `ParamDataWords`;
- the branch target `BranchTarget`: absolute when bit 0 is set, else the header plus a signed offset.

`ProcessedBlocks` is the sequence of blocks the parameter loop handles, a RECURSIVE operator.

`WellFormed` is what the walker assumes and never checks:
- every list of blocks ends in a terminator;
- every reached address is a header;
- no header is reachable from itself (computed as a fixpoint over the successor sets).

### `DFLScan`: the abstract scan (spec.md sections 3, 4.2, 8)

Variables: `rom`, `phase` (idle, scanning, done) and `registry`.
- `Start` clears the registry.
- `Finish` replaces it, in one step, by `Expected(rom)`.
  - `Expected(rom)` is a tree unfolding of the DFL graph, defined by two mutually recursive operators, `ChainFrom` and `BranchesFrom`.
  - A branch is explored as soon as its block is met.
  - Every record of a chain gets the index of the header whose branch led there (-1 at the top level).
  - A record's parameter records are one per handled block, plus a zero record when the list ended in a null block. This is what the parameter-block test expects.

This module contains no stack and no pass structure.

### `DFLWalker`: the code

Variables:
- `rom` and `phase` (idle, count, collect, done, fatal);
- the two statics `s_scanned_interface_count` and `s_interface_index`;
- `dfh_parent_stack` as the C structure: `head` (slots `0..StackCap`), `top`, `size`;
- `frames`, the call stack of `deal_with_interface_at_current_level`, whose frames are `[dfh, pc, pos]`;
- `registry`.

The recursion is unfolded into one action per step the code takes between calls:

| Action | Code |
|---|---|
| `ScanMultiInterfaces` | `common_dfl_scan_multi_interfaces` up to pass 1 (`vec_resize(0)`, `push(-1)`) |
| `CountInterface` / `CollectInterface` | entry of `deal_with_interface_at_current_level` in pass 1 / pass 2 (`s_interface_index++`, `set_interface_properties`, `set_parameter_properties` in full) |
| `ParamListEnd`, `OtherParam`, `BranchParam` | one iteration of the loop of `process_param_list_for_known_param_id`; `BranchParam` is `handle_branch_param_id`: push `s_interface_index`, call on the target |
| `NextInterface` | the tail call on the next header |
| `EndOfLevel` | `dfh_parent_stack_pop` at end of list, fatal on an empty stack |
| `CountDone` | `vec_resize(count)`, `s_interface_index = -1`, `push(-1)` |
| `CollectDone` | `dfh_parent_stack_resize(0)` |

Modelling choices:
- **Store past the allocation.** `dfh_parent_stack_push` stores past the allocation exactly as the code does. The model lets the store land (`head` has slots beyond `size`). A later growth zeroes the slot, as the `memset` of the resize does.
- **`malloc(0)`.** A `malloc(0)` that returns NULL (the constant `MallocZeroReturnsNull`) sends `CollectInterface` to the fatal phase. glibc returns a unique pointer, so every run sets the constant to FALSE. The branch stays in the model for other C libraries and is listed as a hazard.
- **Re-scans.** After `done` a new scan may start, as a platform re-init does. This keeps the globals that carry over from one scan to the next in play.
- **Field decoders.** GUID, instance and group ID and the base-address decoding are abstracted to the header address (`hdr`). Payload contents are abstracted to their size in words.

### `MC_DFLWalker`: the inputs

- **`SmallRoms`.** Every well-formed image of three header slots built from a set of block shapes:
  - a null-terminated list;
  - an EOP block with a payload;
  - a zero-length payload;
  - a relative branch (forward and backward);
  - an absolute branch;
  - a branch in the EOP block;
  - two branches in one header.
  - There are 3588 such images.
- **`OneBranchRoms`.** The 1744 of those images with at most one branch block per header.
- **`ScenarioC`.** Spec.md scenario C: 15 headers on three levels.
- **`DeepRom`.** Branches nested seven deep, with a sibling after the deepest branch.
- **`TwoBranchRom`.** One header with two branches.
- **`OneBranchAndScenarioC`.** `OneBranchRoms` plus `ScenarioC`: the input of `walker_small`.

### `ParseIntegerArg`: the integer option parser

`parse_integer_arg` exists as three identical copies (`uio_parse_integer_arg`, `devmem_parse_integer_arg`, and the Zephyr one). The module models it once, and the devmem, Zephyr and UIO modules instantiate it.

- An argument is a sequence of one-character strings.
- `is_all_digit` is the character loop: `isxdigit` after a `0x`/`0X` prefix, `isdigit` otherwise.
- `strtol(s, errno)` is `strtol(optarg, NULL, 0)` by what the C library does:
  - base 16 after a `0x` prefix followed by a hex digit, base 8 after a leading 0, base 10 otherwise;
  - the longest prefix of digits of that base is converted (`StrtolDigits`, `StrtolValue` with `FoldLeft`);
  - a value above `LONG_MAX` gives `LONG_MAX` and sets `errno` to `ERANGE`;
  - a successful call leaves `errno` as it was.
- `parse_integer_arg(s, errno)` returns the value and `errno`. A string failing the digit test gives 0 without a `strtol` call. The value is 0 whenever `errno` is `ERANGE` after `strtol`.

`LONG_MAX` is a constant: `2^(W-1) - 1` in the devmem model, 127 in the Zephyr runs.

### `ZephyrPlatform`: the Zephyr platform layer

Variables:
- `fpga_ip_access_dev_table`: a sequence of node types. Type 1 is `fpga_ip_access`, type 2 is `fpga_ip_access_dfl`, 0 is anything else. The table is fixed at build time.
- `registry`: records `[dfl, dev, hdr]`.
- `s_zephyr_dfl_found`.
- `platform`: down or up.
- `init_ret`: the last result of `fpga_platform_init`.
- `first_init`: a history variable recording the first init's result.
- `s_zephyr_addr_span`, `errno` and `optind`: the span `zephyr_parse_args` stores, the C library's `errno`, and getopt's `optind`.

Actions:
- `FpgaPlatformInit` is the whole of `fpga_platform_init`. Outside the unit-test build, `zephyr_validate_args` is constant true. The loop of `zephyr_scan_interfaces` is the recursive `ScanTable`:
  - type 1 appends at the current size;
  - type 2 either returns false, when a DFL was already found, or replaces the registry by the DFL's records;
  - an empty table returns false.
- `FpgaPlatformInit` starts with `zephyr_parse_args` over an argument vector of `Args`. It never resets `optind`, so getopt only parses the options of a vector longer than the position the last parse stopped at. `-s` stores `parse_integer_arg`'s value.
- `FpgaPlatformCleanup` empties the registry, resets the span to 0 and sets `errno` to -1. It leaves `optind` alone.

The DFL scan is taken to be `DFLScan`'s result (`Scan!Expected`), which `walker_small` shows the walker implements. The scan is synchronous, so it is part of the init step.

Not modelled:
- the single-component branch: `s_zephyr_single_component_mode` is only ever set to 0, so the branch is dead code;
- the start-address option, whose value nothing in the modelled build reads (the span is read only by the unit-test build's validation, and is modelled for the `optind` behaviour);
- addresses, which are abstracted to the index of the device in the table.

`MC_ZephyrPlatform` enumerates every table of at most three nodes. `DflFirstTables` holds the tables in which no type-1 node precedes the DFL node. `TwoHeaderRom` is a two-header DFL image.

### `UIOSysfs`: the UIO span lookup in sysfs

When no usable span is given, `uio_update_based_on_sysfs` reads it from the size file of the first map of the UIO device.
- `uio_get_sysfs_map_path` takes the last `/` of the driver path (`strrchr`), skips it and the three characters after it (`p += 4`, the `uio` of `/dev/uio3`), and reads a number with `strtoul(p, &endptr, 10)`. The map path stays empty when there is no `/` or when characters follow the number.
- `strncat` then appends `size`. A formatted path is the file `MapSizeFile(index)`. An empty one is the relative file `size` of the working directory, `CwdSizeFile`.
- `uio_get_sysfs_map_file_to_uint64` gives the value `SysfsSizes` holds for a file that exists, or 0.
- `strtoul` is modelled by what it does: an optional sign, the longest run of digits, `endptr` after them or at the start when there is none.
- The reference definition `IsUioNode`/`NodeSizeFile` says which node a path names: it ends in `/uio` and the digits of N. It is written with `Suffixes` and `IsSuffix`, independently of the code's pointer arithmetic.

### `UIOPlatform`: the UIO platform layer and its interrupt thread

There are two threads.
- The application thread calls `fpga_platform_init` and `fpga_platform_cleanup`.
- The interrupt thread runs `uio_interrupt_thread`, which init creates in single-component mode.

Each step of either thread is one access to shared state:
- `s_intFlags`, read or written under the rwlock, so each access is atomic;
- the semaphore `g_intSem`;
- record 0 of the registry, which the thread reads without a lock.

Variables:
- the statics the code keeps: `s_uio_drv_path`, `s_uio_addr_span`, `s_uio_single_component_mode`, `s_intThread_id`, `s_intFlags`, `g_intSem`;
- `thr`: the thread's position (top of loop, dispatch, poll, ISR, `sem_wait`, exited);
- `app` and `cpc`: the application thread and its position in cleanup;
- `joined`: the thread ids already joined;
- `registry`: the records, each with `interrupt_enable` and a registered ISR;
- `args`: the last argument vector;
- `late_isr`: a history variable, the number of ISR calls made while record 0 is disabled since record 0 last changed.

| Action | Code |
|---|---|
| `FpgaPlatformInit(a)` | `fpga_platform_init`. It includes `uio_parse_args` (a fold of `ParseOption` over getopt's options, with `parse_integer_arg` for `-s`), `uio_update_based_on_sysfs` from `UIOSysfs` (which faults on a NULL path), `uio_validate_args`, open/mmap failing, `uio_scan_interfaces` (one record, or `DFLScan`'s records) and `uio_create_interrupt_thread` |
| `ThreadReadFlags`, `ThreadDispatch`, `ThreadPoll`, `ThreadCallIsr`, `ThreadSemWait` | the loop of `uio_interrupt_thread`, including its error exits |
| `FpgaPlatformCleanup`, `CleanupPost`, `CleanupJoin`, `CleanupFinish` | `fpga_platform_cleanup`: set the exit flag, post, join, then reset the statics and resize the registry |
| `AppSetInterrupt` | the application registering, enabling and disabling the ISR of record 0. These functions are in `intel_fpga_api_uio.c`, which is not in the repository |

Abstractions:
- An argument vector is the sequence of `-p`, `-s` and `--single-component-mode` options with their strings. The short `-c` has no case in the switch. `-a`, `-w` and `-d` store values that nothing modelled reads, so they are left out.
- The driver path is a string, and NULL is the empty sequence (no vector passes an empty path).
- `errno` enters `uio_parse_args` as 0 or as the -1 cleanup stores, never as `ERANGE`, so every parse starts from 0.
- OS calls fail or succeed as `MayFail` allows.
- A `pthread_join` on an id that was already joined is undefined behaviour. It is modelled as glibc's error return, which the code only logs.

### `DevmemPlatform`: the devmem platform layer

Addresses are `W`-bit numbers and the page is `PAGE` bytes. `MC_DevmemPlatform` uses 8 bits and 16 bytes.

Variables:
- `argv`, the argument vector of the last init: a sequence of options `-a`, `-s`, `-w` and `--single-component-mode`, each with its string value;
- `errno`, which `parse_integer_arg` reads and `strtol` may set, and which cleanup sets to -1;
- the statics `s_devmem_start_addr`, `s_devmem_addr_span`, `s_dfl_entry_addr`, `s_devmem_single_component_mode`, `s_devmem_drv_handle` and `s_devmem_mmap_ptr`;
- `entry`: the address `devmem_scan_interfaces` hands out, which is record 0's base or the first DFH address;
- `fd_owner`: the process's descriptor table, shared with the application, with the lowest free descriptor handed out first.

Actions:
- `FpgaPlatformInit(a)`:
  - `devmem_parse_args`: a fold of `ParseOption` over the vector. `-a`, `-s` and `-w` store `parse_integer_arg`'s value; `-w` also leaves single-component mode; only the long `--single-component-mode` sets the flag, through getopt's flag pointer;
  - `devmem_validate_args`: the range end is computed in `size_t`;
  - three failure exits: `err_open` (invalid arguments or open failed), `err_map` (mmap failed, the descriptor is closed but its number kept), and success.
- `FpgaPlatformCleanup`.
- `AppOpenFile` and `AppCloseFile`.

`devmem_dfl_base_addr_decoder` and the address arithmetic of the scan are operators over `W`-bit values, with `MASK_4K_ADDR` applied by `Bitwise`'s `&`.

## 3. Runs

| Run | Checks | Shows |
|---|---|---|
| `walker_small` (pass) | `TypeOK`, `RegistryIndexInBounds`, `ParentStackReleased`, `ImplementsScan` | Over all 1744 one-branch images, and over scenario C, the points below hold for any number of repeated scans. Scenario C gets parents 2–6 → 1, 7–10 → 0, and -1 for the rest, as `intel_fpga_api_hier_dfl_test.cpp` asserts. |
| `walker_stack_oob` (violation) | `StackPushInBounds` | Finding: the store past the parent stack's allocation. |
| `walker_two_branches` (violation) | `ImplementsScan` | Finding: the wrong parent for a second branch of a header. |
| `zephyr_dfl_first` (pass) | `TypeOK`, `InitRegistryAsIntended` | With tables in the order the code comment assumes, every successful init (first or after cleanup) leaves the DFL's features followed by every type-1 device. |
| `zephyr_ip_before_dfl` (violation) | `InitRegistryAsIntended` | Finding: a type-1 node before the DFL node is lost, and init still returns true. |
| `zephyr_reinit` (violation) | `ReinitLikeFirst` | Finding: `s_zephyr_dfl_found` survives cleanup, so re-init fails. |
| `uio_lifecycle` (pass) | `TypeOK`, `ThreadReadsLiveRecord`, `LateIsrAtMostOnce`, `SpanOfNamedDevice`, `CleanupCompletes` | Two init/cleanup cycles with six argument vectors (a node path with and without a span, a hex span, no path, a non-numeric span, a udev link), OS failures, and the application toggling the interrupt. The thread never reads record 0 after cleanup freed it. It may call the ISR after the application disabled it, because it reads `interrupt_enable` without a lock, but only once: it rereads the flag before it polls again. A span taken from sysfs is that of the device node the path names. Every cleanup returns, whether the thread is in `poll` or blocked in `sem_wait` when the exit flag is set. |
| `uio_stale_join` (violation) | `JoinOnlyUnjoinedThread` | Finding: a DFL-mode re-init creates no thread, and the next cleanup joins the old, already joined id. |
| `uio_no_path` (violation) | `InitNeverFaults` | Finding: cleanup sets the path to NULL, and a re-init without `-p` and `-s` faults in `strrchr`. |
| `devmem_lifecycle` (pass) | `TypeOK`, `NoLeakedFd`, `DecoderInvertsMapping`, `DflEntryInRange`, `ParsedLikeFreshProcess` | Two cycles with aligned, unaligned, DFL, start-less, octal, non-numeric and overflowing arguments, and open or mmap failing. No descriptor leaks. The decoder maps the handed-out address back to its physical address. An accepted DFL range never wraps. A re-init parses its arguments to the same settings a fresh process would: the `ERANGE` a failed parse leaves in `errno` is cleared by cleanup, so it cannot zero a valid value of the next init. |
| `devmem_straddle` (violation) | `InterfaceInsideMapping` | Finding: mmap maps `span` bytes from the page start, so for a start inside a page the end of the interface is unmapped. |
| `devmem_reused_fd` (violation) | `CleanupClosesOwnHandle` | Finding: after a failed mmap, cleanup closes a descriptor number the application has since opened. |

What `walker_small` shows:
- Pass 2 never indexes past what pass 1 counted.
- The parent stack is released after every scan, with `top` back at 0.
- The registry is exactly the one spec.md describes.
- Every scan finishes.

`ImplementsScan` is the refinement check.
- `DFLScan` is instantiated with a refinement mapping:
  - `phase` maps count/collect/fatal to "scanning";
  - `registry` is visible only once the phase is `done`.
- The property is `Abs!Init /\ [][Abs!Next]_Abs!vars /\ Abs!Termination`.
- `Abs!Termination` (`scanning ~> done`) is equivalent to the `WF_vars(Finish)` of `Abs!Spec`, because `Finish` is enabled exactly in "scanning" and is the only step that leaves it.
- It is stated that way because TLC does not evaluate `ENABLED` through the substituted instance.

Each property of a passing run has a mutant in `PROJECT.json`:

| Mutant | Property it breaks |
|---|---|
| a missing pop | `TypeOK` (`top` leaves its range over repeated scans) |
| a registry one record short | `RegistryIndexInBounds` |
| the stack kept after pass 2 | `ParentStackReleased` |
| a post-incremented index | `ImplementsScan` |
| a peek one slot below the top | `ImplementsScan` |
| a device record for the wrong table entry | `TypeOK` of `ZephyrPlatform` |
| a device record written over the last one | `InitRegistryAsIntended` |
| `sem_wait` that does not block | `TypeOK` of `UIOPlatform` |
| the registry resized before the thread is stopped | `ThreadReadsLiveRecord` |
| the post made only for a negative `retVal` | `CleanupCompletes` |
| the thread polling again after the ISR without rereading `interrupt_enable` | `LateIsrAtMostOnce` |
| `p += 3` in `uio_get_sysfs_map_path` | `SpanOfNamedDevice` |
| the page-offset address stored as the mapping pointer | `TypeOK` of `DevmemPlatform` |
| the descriptor not kept in the static | `NoLeakedFd` |
| a decoder without the page-offset term | `DecoderInvertsMapping` |
| validation without the DFL range check | `DflEntryInRange` |
| cleanup that leaves `errno` as it was | `ParsedLikeFreshProcess` |

**Bounds.**
- Three slots give chains of one to three headers, a branch inside a branch, branches backwards and forwards, and two paths into the same chain (a DAG, visited twice as in the tests).
- The parent stack's first growth step is 8, the code's `DFH_PARENT_STACK_INCR_SIZE`. Only `DeepRom` reaches it; a nesting of seven is needed.
- `StackCap = 17` covers every `top` the inputs reach.
- Repeated scans are unbounded, and the state space closes because the carried-over globals take finitely many values.

**Zephyr bounds.** Three nodes give every relative order of a type-1 node, the DFL node, a second DFL node and a node of another type. Init and cleanup repeat without bound; the state space closes because `s_zephyr_dfl_found` only ever becomes true.

**UIO bounds.** Two init calls are enough for every re-init hazard: stale id, NULL path, DFL mode after cleanup. The device node `uio12` has a two-digit number, so a wrong offset into the name changes the number read or empties the map path. The span `1k` fails the digit check and falls back to sysfs, and the udev link `/dev/fpga` reaches the working-directory fallback. `LONG_MAX` is 127. The thread loops without bound, and `g_intSem` stays at most 1, so the state space closes.

**Devmem bounds.** 8-bit addresses and 16-byte pages keep the page offset and rounding. `LONG_MAX` is then 127: `strtol` caps every value there, so start plus span stays below `2^W` and the `size_t` sum in validation cannot wrap; that is why no wrapping argument set appears. The `TooBig` vector (`0xf0`, then `-s 32`) makes `strtol` overflow and leaves `ERANGE` in `errno`, which zeroes the valid `-s 32` after it; cleanup then sets `errno` to -1 before the next init. Two descriptors let the application take the number the library released.

**Fairness.** `WF_vars(WalkStep)`. The scan is synchronous code that never blocks or yields (spec.md section 5). Once it is called, its next step is always taken. Starting a scan (`ScanMultiInterfaces`) is up to the platform layer and gets no fairness.

In `UIOPlatform` the fairness conditions are:
- weak fairness of every interrupt-thread step, because the OS schedules the thread and `poll` returns within its 100 ms timeout;
- weak fairness of the three cleanup steps after its entry, because the application thread is inside the library call.

`sem_wait` is enabled from the post until it is taken, so weak fairness suffices. Init, cleanup entry and interrupt settings are the application's choice and get no fairness.

## 4. Not modelled, and why

- **Field decoding** (GUID, IDs, base address) and payload contents: bit extraction with no control flow. The properties only need which header a record is for.
- **Printing** (`common_dfl_print_*`, the DEBUG and REPORT blocks): output only.
- **Malformed images** (cycles, non-EOP blocks with zero offset): the walker does not terminate on them by construction. They are excluded by `WellFormed` and listed as hazards.
- **The registry vector**: not in the repository. Its resize is taken to zero-fill.
- **`getopt_long` itself**: it is modelled by the options it returns, in argv order. Options whose values nothing modelled reads (UIO `-a`, `-w`, `-d`; Zephyr `-a`) are left out.
- **Driver names shorter than three characters after the last `/`**: `p += 4` then points past the end of the string, which is undefined. No argument vector uses such a name.
- **Unit-test builds** (`*_create_unit_test_sw_model`): only compiled for the software model used by the tests.
- **The UIO interrupt API** (`fpga_register_isr`, `fpga_enable_interrupt`, `fpga_disable_interrupt`): not in the repository. The application's use of it is the environment action `AppSetInterrupt`.
- **Thread creation failing and `malloc(0)` returning NULL**: both are reproduced in the model but not checked as properties, as explained in the hazard list.

## 5. Plan

Ordered most-important first. Items 1–6, 8 (in part), 10 and 11 are done.

1. `DFLRom`, `DFLWalker`, `DFLScan`: the walker and its refinement of the spec's scan.
2. Stack bound and branch parents as findings.
3. The scenario C golden inputs, folded into `walker_small`.
4. `ZephyrPlatform`: `zephyr_scan_interfaces` over a small device table (types 0, 1, 2 in every order) composed with `DFLScan` as the scan, plus `fpga_platform_cleanup`. Properties:
   - every type-1 device is in the registry after a successful init (the order hazard);
   - init after cleanup behaves like the first init (`s_zephyr_dfl_found`).
5. `UIOPlatform`: init, cleanup, the interrupt thread as a process, and the application toggling the interrupt. Checked: cleanup completes, and no read of a freed record. Found: the stale join and the NULL-path fault. A thread-creation failure is reported as success (`uio.c:219`). It is listed as a hazard with a note.
6. `DevmemPlatform`: `size_t` validation, the mmap offset, the decoder, the scan, init and cleanup. Found: the straddling interface and the reused descriptor.
7. `RawAccessor`: the 32-bit pair emulation of `common_dfl_read_64` can tear against a changing register. spec.md section 4 accepts this, so there is no property to check; the accessors are stateless and stay unmodelled.
8. The ISR running after the application disabled it (`uio.c:137`) is bounded by `LateIsrAtMostOnce`. Init after cleanup meeting the rwlock and semaphore already initialised (`uio.c:605`) keeps only a note.
9. Zephyr arguments: the start address and span that cleanup resets. The span is modelled; the start address is read by nothing in the modelled build.
10. `ParseIntegerArg`, used by `DevmemPlatform` and `ZephyrPlatform`. Observations, listed as hazards: a leading 0 is read as octal (`020` is 16, `09` is 0 without an error); `errno` is not cleared before `strtol`, so an `ERANGE` from one option zeroes every later valid option of the same vector; `zephyr_parse_args` does not reset `optind`.
11. `UIOSysfs` and real UIO argument vectors: `SpanOfNamedDevice` checks the sysfs lookup against a reference for node names. The hazards with notes are a driver name that is not `uio<N>` (it falls back to `./size`), a DFL entry address that is never checked against the span (`uio.c:587`), the double close after a failed mmap (`uio.c:230`), and descriptor 0 never closed by the thread (`uio.c:149`).
