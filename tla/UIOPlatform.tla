---------------------------- MODULE UIOPlatform ----------------------------
(***************************************************************************)
(* The UIO platform layer, uio/src/intel_fpga_platform_api_uio.c: its init *)
(* and cleanup, called by the application thread, and the interrupt        *)
(* thread uio_interrupt_thread that init starts in single-component mode.  *)
(*                                                                         *)
(* The two threads share s_intFlags (under the rwlock s_intLock), the      *)
(* semaphore g_intSem and record 0 of the interface registry (read by the  *)
(* thread without a lock).  A flag read or write under the rwlock is one   *)
(* step; every other shared access is a step of its own.                   *)
(*                                                                         *)
(* Abstractions: an argument vector is the sequence of options getopt_long *)
(* returns, [opt |-> "p" or "s", val |-> the string] for -p and -s, and    *)
(* [opt |-> "c", val |-> <<>>] for the long --single-component-mode (the   *)
(* short -c has no case in the switch and is left out, as are -a, -w and  *)
(* -d, whose values nothing modelled reads).  Strings are sequences of     *)
(* one-character strings, and the NULL path is <<>> (no argument vector   *)
(* holds an empty path).  The sysfs lookup is UIOSysfs.  errno enters      *)
(* uio_parse_args as 0 or as the -1 cleanup stores, never ERANGE, so each  *)
(* parse starts from 0.  open, mmap, write, sem_init, pthread_rwlock_init  *)
(* and pthread_create fail or not as Outcomes allows.  The DFL scan is the *)
(* abstract scan DFLScan; its records carry no interrupt state.            *)
(*                                                                         *)
(* fpga_register_isr, fpga_enable_interrupt and fpga_disable_interrupt are *)
(* not in the repository; the application's use of them is the            *)
(* environment action AppSetInterrupt on record 0.                         *)
(***************************************************************************)
EXTENDS Integers, Sequences, SequencesExt

CONSTANTS
    Args,           \* the argument vectors the application may pass
    SysfsSizes,     \* the sysfs size files that exist, and what they hold
    LONG_MAX,       \* the largest long, scaled down
    MayFail,        \* whether OS calls may fail
    MaxInits,       \* bound on the number of fpga_platform_init calls
    DflRom          \* the DFL image in DFL mode

NULL == <<>>

\* The initial value of s_uio_drv_path, "/dev/uio0".
DefaultPath == <<"/", "d", "e", "v", "/", "u", "i", "o", "0">>

ASSUME \A a \in Args : \A i \in DOMAIN a :
          a[i].opt \in {"p", "s", "c"} /\ (a[i].opt = "p" => a[i].val /= NULL)
ASSUME MaxInits \in Nat

VARIABLES
    app,                          \* application thread: "down", "up", "cleanup", "crashed"
    cpc,                          \* next step of fpga_platform_cleanup
    args,                         \* the argument vector of the last init
    s_uio_drv_path, s_uio_addr_span, s_uio_single_component_mode,
    s_intThread_id,               \* 0 or the number of the thread created
    s_intFlags,                   \* TRUE when FPGA_PLATFORM_INT_THREAD_EXIT is set
    g_intSem,                     \* the semaphore's value
    thr,                          \* the interrupt thread's pc, "none" when there is none
    joined,                       \* the thread ids pthread_join has been called on
    registry,                     \* the interface vector: [ie, isr] per record
    inits,                        \* number of fpga_platform_init calls so far
    init_ret,                     \* what the last fpga_platform_init returned
    late_isr                      \* history: ISR calls since record 0 was last
                                  \* changed, made while it is disabled

vars == <<app, cpc, args, s_uio_drv_path, s_uio_addr_span, s_uio_single_component_mode,
          s_intThread_id, s_intFlags, g_intSem, thr, joined, registry, inits, init_ret, late_isr>>
threadVars == <<s_intThread_id, s_intFlags, g_intSem, thr>>

Parse == INSTANCE ParseIntegerArg
Sysfs == INSTANCE UIOSysfs

Scan == INSTANCE DFLScan WITH Roms <- {DflRom}, rom <- DflRom,
                              phase <- "idle", registry <- <<>>

Outcomes == IF MayFail THEN BOOLEAN ELSE {TRUE}

\* A registry record as far as the interrupt thread reads it.
NewRecord == [ie |-> FALSE, isr |-> FALSE]

\* One option of the getopt_long loop: -p keeps optarg as the path, -s
\* stores uio_parse_integer_arg's value, and the long option sets the mode
\* through its flag pointer.
ParseOption(st, o) ==
    CASE o.opt = "p" -> [st EXCEPT !.path = o.val]
      [] o.opt = "s" -> LET r == Parse!parse_integer_arg(o.val, st.errno)
                        IN  [st EXCEPT !.span = r.ret, !.errno = r.errno]
      [] o.opt = "c" -> [st EXCEPT !.mode = TRUE]

\* uio_parse_args(a): the statics after the loop over the options.
uio_parse_args(a) ==
    FoldLeft(ParseOption,
             [path |-> s_uio_drv_path, span |-> s_uio_addr_span,
              mode |-> s_uio_single_component_mode, errno |-> 0], a)

\* uio_scan_interfaces: one record in single-component mode, else the DFL scan.
uio_scan_interfaces(mode) ==
    IF mode THEN <<NewRecord>>
    ELSE [i \in 1..Len(Scan!Expected(DflRom)) |-> NewRecord]

\* uio_create_interrupt_thread: s_intFlags is cleared whatever sem_init and
\* the rwlock calls return; the thread runs only if all succeed.
uio_create_interrupt_thread ==
    \E ok \in Outcomes :
        /\ s_intFlags' = FALSE
        /\ g_intSem' = 0
        /\ IF ok THEN thr' = "top" /\ s_intThread_id' = inits + 1
                 ELSE UNCHANGED <<thr, s_intThread_id>>

uio_validate_args(path, span) == span > 0 /\ path /= NULL

\* What uio_open_driver and then uio_map_mmio may return together.
uio_open_driver_and_map_mmio == Outcomes

\* An init that ends at err_open, err_map or err_scan: ret is false.
InitFails ==
    /\ init_ret' = FALSE
    /\ UNCHANGED <<registry, threadVars>>

\* open and mmap succeeded; the scan always does.  ret is set to true before
\* the interrupt thread is created, and a failure there does not clear it.
InitSucceeds(mode) ==
    /\ registry' = uio_scan_interfaces(mode)
    /\ init_ret' = TRUE
    /\ IF mode THEN uio_create_interrupt_thread ELSE UNCHANGED threadVars

\* fpga_platform_init(a), from uio_parse_args to the return.
FpgaPlatformInit(a) ==
    LET cfg == uio_parse_args(a) IN
    /\ app = "down"
    /\ inits < MaxInits
    /\ inits' = inits + 1
    /\ args' = a
    /\ late_isr' = 0
    /\ UNCHANGED <<cpc, joined>>
    /\ \/ \* uio_update_based_on_sysfs: strrchr(NULL, '/') faults
          /\ cfg.span = 0 /\ cfg.path = NULL
          /\ app' = "crashed"
          /\ UNCHANGED <<s_uio_drv_path, s_uio_addr_span, s_uio_single_component_mode,
                         registry, threadVars, init_ret>>
       \/ /\ cfg.span /= 0 \/ cfg.path /= NULL
          /\ app' = "up"
          /\ s_uio_drv_path' = cfg.path
          /\ s_uio_single_component_mode' = cfg.mode
          /\ LET span == Sysfs!uio_update_based_on_sysfs(cfg.path, cfg.span) IN
                /\ s_uio_addr_span' = span
                /\ \/ /\ ~uio_validate_args(cfg.path, span)
                      /\ InitFails
                   \/ /\ uio_validate_args(cfg.path, span)
                      /\ FALSE \in uio_open_driver_and_map_mmio
                      /\ InitFails
                   \/ /\ uio_validate_args(cfg.path, span)
                      /\ TRUE \in uio_open_driver_and_map_mmio
                      /\ InitSucceeds(cfg.mode)

-----------------------------------------------------------------------------
(* uio_interrupt_thread, one action per step between shared accesses.     *)

\* Top of the loop: read s_intFlags under the read lock; exit when set.
ThreadReadFlags ==
    /\ thr = "top"
    /\ thr' = IF s_intFlags THEN "exited" ELSE "dispatch"
    /\ UNCHANGED <<s_intThread_id, s_intFlags, g_intSem>>

\* Unlocked read of record 0's interrupt_enable.  Were the vector freed,
\* the value read would be any.  Enabled: open the device and re-arm the
\* interrupt (either may fail and end the thread), then poll.  Disabled:
\* block in sem_wait.
ThreadDispatch ==
    /\ thr = "dispatch"
    /\ \E ie \in IF registry = <<>> THEN BOOLEAN ELSE {registry[1].ie} :
          IF ie THEN \E ok \in Outcomes : thr' = IF ok THEN "poll" ELSE "exited"
                ELSE thr' = "semwait"
    /\ UNCHANGED <<s_intThread_id, s_intFlags, g_intSem>>

\* poll with the 100 ms timeout returns an event or times out.
ThreadPoll ==
    /\ thr = "poll"
    /\ \/ thr' = "isr"
       \/ thr' = "top"
    /\ UNCHANGED <<s_intThread_id, s_intFlags, g_intSem>>

\* Mutant: after the ISR the thread polls again without going back to the
\* top of the loop and rereading interrupt_enable.
ThreadCallIsrRepoll ==
    /\ thr = "isr"
    /\ \E isr \in IF registry = <<>> THEN BOOLEAN ELSE {registry[1].isr} :
          /\ thr' = IF isr THEN "poll" ELSE "exited"
          /\ late_isr' = IF isr /\ registry /= <<>> /\ ~registry[1].ie
                         THEN late_isr + 1 ELSE late_isr
    /\ UNCHANGED <<s_intThread_id, s_intFlags, g_intSem>>

\* Unlocked read of record 0's isr_callback: call it, or exit on NULL.
\* late_isr counts a call made while record 0 is disabled.
ThreadCallIsr ==
    /\ thr = "isr"
    /\ \E isr \in IF registry = <<>> THEN BOOLEAN ELSE {registry[1].isr} :
          /\ thr' = IF isr THEN "top" ELSE "exited"
          /\ late_isr' = IF isr /\ registry /= <<>> /\ ~registry[1].ie
                         THEN late_isr + 1 ELSE late_isr
    /\ UNCHANGED <<s_intThread_id, s_intFlags, g_intSem>>

\* Mutant: the wait no longer blocks on a zero semaphore.
ThreadSemWaitNoBlock ==
    /\ thr = "semwait"
    /\ g_intSem' = g_intSem - 1
    /\ thr' = "top"
    /\ UNCHANGED <<s_intThread_id, s_intFlags>>

\* sem_wait returns once the semaphore is positive.
ThreadSemWait ==
    /\ thr = "semwait"
    /\ g_intSem > 0
    /\ g_intSem' = g_intSem - 1
    /\ thr' = "top"
    /\ UNCHANGED <<s_intThread_id, s_intFlags>>

ThreadStep ==
    /\ \/ (ThreadReadFlags \/ ThreadDispatch \/ ThreadPoll \/ ThreadSemWait)
          /\ UNCHANGED late_isr
       \/ ThreadCallIsr
    /\ UNCHANGED <<app, cpc, args, s_uio_drv_path, s_uio_addr_span,
                   s_uio_single_component_mode, joined, registry, inits, init_ret>>

-----------------------------------------------------------------------------
(* fpga_platform_cleanup, one action per step between shared accesses.    *)

platformVars == <<args, s_uio_drv_path, s_uio_addr_span, s_uio_single_component_mode,
                  inits, init_ret>>

\* Mutant: the registry is resized to zero before the thread is stopped.
FpgaPlatformCleanupResizeFirst ==
    /\ app = "up"
    /\ app' = "cleanup"
    /\ registry' = <<>>
    /\ IF s_intThread_id /= 0
       THEN s_intFlags' = TRUE /\ cpc' = "post"
       ELSE cpc' = "finish" /\ UNCHANGED s_intFlags
    /\ UNCHANGED <<platformVars, s_intThread_id, g_intSem, thr, joined, late_isr>>

\* Entry: with s_intThread_id /= 0, set the exit flag under the write lock.
FpgaPlatformCleanup ==
    /\ app = "up"
    /\ app' = "cleanup"
    /\ IF s_intThread_id /= 0
       THEN s_intFlags' = TRUE /\ cpc' = "post"
       ELSE cpc' = "finish" /\ UNCHANGED s_intFlags
    /\ UNCHANGED <<platformVars, s_intThread_id, g_intSem, thr, joined, late_isr, registry>>

\* Mutant: the post is made only for a negative retVal.
CleanupPostStrict ==
    /\ cpc = "post"
    /\ LET retVal == 0 IN
         g_intSem' = IF retVal < 0 THEN g_intSem + 1 ELSE g_intSem
    /\ cpc' = "join"
    /\ UNCHANGED <<app, platformVars, s_intThread_id, s_intFlags, thr, joined, registry, late_isr>>

\* The unlock succeeded, so sem_getvalue is skipped and retVal stays 0;
\* retVal <= 0 posts the semaphore.
CleanupPost ==
    /\ cpc = "post"
    /\ LET retVal == 0 IN
         g_intSem' = IF retVal <= 0 THEN g_intSem + 1 ELSE g_intSem
    /\ cpc' = "join"
    /\ UNCHANGED <<app, platformVars, s_intThread_id, s_intFlags, thr, joined, registry, late_isr>>

\* pthread_join waits for the thread to exit.  On an id already joined the
\* behaviour is undefined; glibc's outcome is an error return, which the
\* code only reports.
CleanupJoin ==
    /\ cpc = "join"
    /\ s_intThread_id \in joined \/ thr = "exited"
    /\ thr' = IF s_intThread_id \in joined THEN thr ELSE "none"
    /\ joined' = joined \cup {s_intThread_id}
    /\ cpc' = "finish"
    /\ UNCHANGED <<app, platformVars, s_intThread_id, s_intFlags, g_intSem, registry, late_isr>>

\* Close the driver, reset the path to NULL, the span to 0 and the mode to
\* 0 (s_intThread_id is left alone), and resize the registry to zero.
CleanupFinish ==
    /\ cpc = "finish"
    /\ s_uio_drv_path' = NULL
    /\ s_uio_addr_span' = 0
    /\ s_uio_single_component_mode' = FALSE
    /\ registry' = <<>>
    /\ cpc' = "none"
    /\ app' = "down"
    /\ UNCHANGED <<args, inits, init_ret, threadVars, joined, late_isr>>

-----------------------------------------------------------------------------
\* The application registers an ISR on, enables or disables record 0
\* between library calls (fpga_enable_interrupt requires a registered ISR).
AppSetInterrupt ==
    /\ app = "up"
    /\ registry /= <<>>
    /\ \E r \in {[ie |-> FALSE, isr |-> TRUE], [ie |-> TRUE, isr |-> TRUE]} :
          /\ r /= registry[1]
          /\ registry' = [registry EXCEPT ![1] = r]
    /\ late_isr' = 0
    /\ UNCHANGED <<app, cpc, platformVars, threadVars, joined>>

Init ==
    /\ app = "down"
    /\ cpc = "none"
    /\ args = <<>>
    /\ s_uio_drv_path = DefaultPath
    /\ s_uio_addr_span = 0
    /\ s_uio_single_component_mode = TRUE
    /\ s_intThread_id = 0
    /\ s_intFlags = FALSE
    /\ g_intSem = 0
    /\ thr = "none"
    /\ joined = {}
    /\ registry = <<>>
    /\ inits = 0
    /\ init_ret = FALSE
    /\ late_isr = 0

Next ==
    \/ \E a \in Args : FpgaPlatformInit(a)
    \/ FpgaPlatformCleanup \/ CleanupPost \/ CleanupJoin \/ CleanupFinish
    \/ ThreadStep
    \/ AppSetInterrupt

\* The OS runs the interrupt thread and, inside cleanup, the application
\* thread; poll returns within its timeout.  The application's own calls
\* (init, cleanup, interrupt settings) are not assumed to happen.
Fairness ==
    /\ WF_vars(ThreadStep)
    /\ WF_vars(CleanupPost) /\ WF_vars(CleanupJoin) /\ WF_vars(CleanupFinish)

Spec == Init /\ [][Next]_vars /\ Fairness

-----------------------------------------------------------------------------
TypeOK ==
    /\ app \in {"down", "up", "cleanup", "crashed"}
    /\ cpc \in {"none", "post", "join", "finish"}
    /\ args \in Args \cup {<<>>}
    /\ s_uio_drv_path \in {NULL, DefaultPath} \cup
                          UNION {{o.val : o \in {a[i] : i \in DOMAIN a}} : a \in Args}
    /\ s_uio_addr_span \in 0..LONG_MAX
    /\ s_uio_single_component_mode \in BOOLEAN
    /\ s_intThread_id \in 0..MaxInits /\ joined \subseteq 1..MaxInits
    /\ s_intFlags \in BOOLEAN
    /\ g_intSem \in Nat
    /\ thr \in {"none", "top", "dispatch", "poll", "isr", "semwait", "exited"}
    /\ registry \in Seq([ie : BOOLEAN, isr : BOOLEAN])
    /\ init_ret \in BOOLEAN
    /\ late_isr \in Nat

\* Whenever the interrupt thread is about to read record 0 (interrupt_enable
\* or isr_callback), the registry still holds it: cleanup only resizes the
\* vector after pthread_join, so the thread never reads freed memory.
ThreadReadsLiveRecord ==
    thr \in {"dispatch", "isr"} => registry /= <<>>

\* The interrupt thread reads interrupt_enable without a lock and may be in
\* poll, or about to call the ISR, when the application disables record 0.
\* It then calls the ISR at most once more: after every call it goes back
\* to the top of the loop and rereads interrupt_enable before it polls.
LateIsrAtMostOnce ==
    late_isr <= 1

\* When no usable --address-span is given, the span comes from sysfs: for
\* a driver path naming the device node uioN, it is the size of uioN's
\* first map, which uio_get_sysfs_map_path finds from the last '/' on.
\* (The span is 0 before every init: Init and cleanup set it so.)
SpanOfNamedDevice ==
    LET given == FoldLeft(ParseOption, [path |-> NULL, span |-> 0, mode |-> FALSE,
                                        errno |-> 0], args).span
    IN  app = "up" /\ given = 0 /\ Sysfs!IsUioNode(s_uio_drv_path) =>
          s_uio_addr_span =
            Sysfs!uio_get_sysfs_map_file_to_uint64(Sysfs!NodeSizeFile(s_uio_drv_path))

\* Every fpga_platform_cleanup returns: the exit flag and the semaphore post
\* reach the thread whether it is in poll or blocked in sem_wait, so the
\* join completes.
CleanupCompletes ==
    app = "cleanup" ~> app = "down"

\* pthread_join is only called on a thread that has not been joined yet.
JoinOnlyUnjoinedThread ==
    [][cpc = "join" /\ cpc' = "finish" => s_intThread_id \notin joined]_vars

\* fpga_platform_init never faults, whatever argument vector it is given
\* ("Re-initialize local variables" in cleanup leaves a later init sound).
InitNeverFaults ==
    app /= "crashed"
====
