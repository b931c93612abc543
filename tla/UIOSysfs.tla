------------------------------ MODULE UIOSysfs ------------------------------
(***************************************************************************)
(* The sysfs lookup of the UIO platform layer: uio_update_based_on_sysfs,  *)
(* uio_get_sysfs_map_path and uio_get_sysfs_map_file_to_uint64 in          *)
(* uio/src/intel_fpga_platform_api_uio.c.                                  *)
(*                                                                         *)
(* A driver path is a sequence of one-character strings.  The map path     *)
(* the code formats, "/sys/class/uio/uio<index>/maps/map0/", followed by   *)
(* "size", is the file MapSizeFile(index); an empty map path followed by   *)
(* "size" is the relative file "size" of the working directory,            *)
(* CwdSizeFile.  What fscanf("%lx") reads from a file that exists is       *)
(* SysfsSizes[file]; the kernel writes the size in hex, so a file either   *)
(* exists and holds a number or does not exist.                            *)
(***************************************************************************)
EXTENDS Integers, Sequences, SequencesExt

CONSTANT SysfsSizes     \* [file -> the value read], for the files that exist

MapSizeFile(index) == [dir |-> "uio", index |-> index]
CwdSizeFile        == [dir |-> "cwd", index |-> 0]

DecimalDigit ==
    "0" :> 0 @@ "1" :> 1 @@ "2" :> 2 @@ "3" :> 3 @@ "4" :> 4 @@
    "5" :> 5 @@ "6" :> 6 @@ "7" :> 7 @@ "8" :> 8 @@ "9" :> 9

DecimalValue(ds) == FoldLeft(LAMBDA acc, ch : acc * 10 + DecimalDigit[ch], 0, ds)

(***************************************************************************)
(* index = strtoul(p, &endptr, 10): an optional sign, then the longest run *)
(* of decimal digits; endptr is left after the digits, or at p itself when *)
(* there is none.  A negative number wraps in unsigned long and again in   *)
(* the uint32_t index, and "%d" prints it back as the negative number.     *)
(***************************************************************************)
strtoul(p) ==
    LET signed == p /= <<>> /\ p[1] \in {"+", "-"}
        body   == IF signed THEN Tail(p) ELSE p
        stop   == SelectInSeq(body, LAMBDA ch : ch \notin DOMAIN DecimalDigit)
        ds     == IF stop = 0 THEN body ELSE SubSeq(body, 1, stop - 1)
    IN  IF ds = <<>> THEN [index |-> 0, endptr |-> p]
        ELSE [index  |-> IF signed /\ p[1] = "-" THEN -DecimalValue(ds) ELSE DecimalValue(ds),
              endptr |-> SubSeq(body, Len(ds) + 1, Len(body))]

\* Mutant: p += 3, one character short of the number.
uio_get_sysfs_map_path_off_by_one(path) ==
    LET slash == SelectLastInSeq(path, LAMBDA ch : ch = "/")
        r     == strtoul(SubSeq(path, slash + 3, Len(path)))
    IN  IF slash = 0 \/ r.endptr /= <<>> THEN CwdSizeFile
        ELSE MapSizeFile(r.index)

(***************************************************************************)
(* uio_get_sysfs_map_path, and the strncat of "size" after it: the file    *)
(* named.  The path is left empty when the driver path has no '/' or the   *)
(* characters from the fourth after the last '/' are not all a number.    *)
(* p += 4 skips the '/' and the three characters after it ("uio" in        *)
(* "/dev/uio3") whatever they are; it needs at least three of them, else   *)
(* p points past the end of the string.                                    *)
(***************************************************************************)
uio_get_sysfs_map_path(path) ==
    LET slash == SelectLastInSeq(path, LAMBDA ch : ch = "/")
        r     == strtoul(SubSeq(path, slash + 4, Len(path)))
    IN  IF slash = 0 \/ r.endptr /= <<>> THEN CwdSizeFile
        ELSE MapSizeFile(r.index)

\* fopen fails (0), or fscanf reads the value.
uio_get_sysfs_map_file_to_uint64(file) ==
    IF file \in DOMAIN SysfsSizes THEN SysfsSizes[file] ELSE 0

\* With no span given (0), the span is read from sysfs.
uio_update_based_on_sysfs(path, span) ==
    IF span = 0 THEN uio_get_sysfs_map_file_to_uint64(uio_get_sysfs_map_path(path))
    ELSE span

-----------------------------------------------------------------------------
(***************************************************************************)
(* Reference: a path names the UIO device node uio<N> when it ends in      *)
(* "/uio" followed by the decimal digits of N.                              *)
(***************************************************************************)
UioNodeDigits(path) ==
    {ds \in Suffixes(path) :
        /\ ds /= <<>>
        /\ \A i \in DOMAIN ds : ds[i] \in DOMAIN DecimalDigit
        /\ IsSuffix(<<"/", "u", "i", "o">> \o ds, path)}

IsUioNode(path) == UioNodeDigits(path) /= {}

\* The size file the kernel provides for the first map of that node.
NodeSizeFile(path) == MapSizeFile(DecimalValue(CHOOSE ds \in UioNodeDigits(path) : TRUE))
=============================================================================
