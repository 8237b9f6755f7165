--------------------------- MODULE FileDescriptors ---------------------------
(***************************************************************************)
(* The per-process descriptor table of syscall/fd.rs and the arithmetic of *)
(* the file calls of syscall/mod.rs, beside the same arithmetic as         *)
(* fs/vfs.rs has it.  A file is its inode (its index in the ramdisk) and   *)
(* its size; contents do not matter here.  i64 arithmetic wraps at         *)
(* I64_HALF, as in the release build.                                      *)
(***************************************************************************)
EXTENDS Integers

CONSTANTS
    MAX_FDS,     \* descriptors per process (256, the range of u8)
    Inodes,      \* the files of the ramdisk, by their index
    FileSize,    \* FileSize[inode]: its size in bytes
    I64_HALF     \* i64 ranges over -I64_HALF .. I64_HALF - 1 (2^63)

ASSUME FdAssumption ==
    /\ MAX_FDS \in Nat /\ MAX_FDS > 3
    /\ I64_HALF \in Nat /\ I64_HALF > 0
    /\ Inodes \subseteq Nat
    /\ FileSize \in [Inodes -> 0 .. I64_HALF - 1]

FDs == 0 .. MAX_FDS - 1

I64 == -I64_HALF .. I64_HALF - 1

WrapI64(x) == ((x + I64_HALF) % (2 * I64_HALF)) - I64_HALF

NoInode == -1

FdKind == {"None", "Stdin", "Stdout", "Stderr", "File"}

(* A table slot; "None" is an unallocated one.  Only a File has an inode    *)
(* and an offset.                                                           *)
Fd(kind) == [kind |-> kind, inode |-> NoInode, offset |-> 0]

File(inode, offset) == [kind |-> "File", inode |-> inode, offset |-> offset]

Descriptor == [kind : FdKind, inode : Inodes \cup {NoInode}, offset : 0 .. I64_HALF - 1]

(* FileDescriptorTable::new and init.                                       *)
NewTable ==
    [fd \in FDs |-> IF fd = 0 THEN Fd("Stdin")
                    ELSE IF fd = 1 THEN Fd("Stdout")
                    ELSE IF fd = 2 THEN Fd("Stderr")
                    ELSE Fd("None")]

FIRST_FD == 3

(* alloc succeeds while the u8 counter has not wrapped to 0.                *)
CanAlloc_Unchecked(next) == TRUE

CanAlloc(next) == next # 0

NextFd_NoWrap(next) == next + 1

NextFd_BackToFirst(next) == IF next = MAX_FDS - 1 THEN FIRST_FD ELSE next + 1

NextFd(next) == (next + 1) % MAX_FDS

(* close refuses the standard streams and unallocated descriptors.          *)
CanClose(table, fd) == fd >= 3 /\ table[fd].kind # "None"

-----------------------------------------------------------------------------
(* The system calls' arithmetic.  Seek and read return a negative number    *)
(* for an error.                                                            *)

ERR_INVALID_ARGS == -1
ERR_NO_MEMORY == -2
ERR_NOT_FOUND == -5

(* sys_read: how many bytes are copied from the offset.                     *)
ReadCount(size, offset, len) ==
    LET remaining == IF offset >= size THEN 0 ELSE size - offset
    IN  IF len < remaining THEN len ELSE remaining

SeekTarget_CurEndSwapped(size, offset, arg, whence) ==
    CASE whence = 0 -> arg
      [] whence = 1 -> WrapI64(size + arg)
      [] whence = 2 -> WrapI64(offset + arg)
      [] OTHER -> ERR_INVALID_ARGS

SeekTarget(size, offset, arg, whence) ==
    CASE whence = 0 -> arg
      [] whence = 1 -> WrapI64(offset + arg)
      [] whence = 2 -> WrapI64(size + arg)
      [] OTHER -> ERR_INVALID_ARGS

Clamp_Never(size, target) == target

Clamp(size, target) == IF target > size THEN size ELSE target

(* sys_lseek: the new offset.                                               *)
SeekResult(size, offset, arg, whence) ==
    LET target == SeekTarget(size, offset, arg, whence)
    IN  IF target < 0 THEN ERR_INVALID_ARGS ELSE Clamp(size, target)

-----------------------------------------------------------------------------
(* RamdiskFileOps of fs/vfs.rs.  Its subtraction is on u64 without a test.  *)

VfsRead(size, offset, len) ==
    LET remaining == (size - offset) % (2 * I64_HALF)
    IN  IF remaining = 0 THEN 0 ELSE IF len < remaining THEN len ELSE remaining

VfsSeek(size, offset, arg, whence) ==
    LET target == IF whence = 0 THEN arg
                  ELSE IF whence = 1 THEN WrapI64(offset + arg)
                  ELSE WrapI64(size + arg)
    IN  IF target < 0 THEN ERR_INVALID_ARGS ELSE IF target > size THEN size ELSE target

=============================================================================
