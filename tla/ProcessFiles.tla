---------------------------- MODULE ProcessFiles ----------------------------
(***************************************************************************)
(* The file calls over the process table: every one of them acts on the    *)
(* descriptor table of the process the table regards as current.  Calls    *)
(* enter through an interrupt gate, with interrupts off, so each is one     *)
(* step; on_cpu is the process that makes it.  Processes come from boot,    *)
(* sys_process_create and sys_spawn, and switch_to_pid changes who runs.    *)
(***************************************************************************)
EXTENDS RoundRobin, FileDescriptors

CONSTANT Lengths      \* buffer lengths passed to read and write

ASSUME LengthsAssumption == Lengths \subseteq Nat

VARIABLES
    fds,       \* fds[pid][fd]: the descriptor tables
    next_fd,   \* next_fd[pid]: u8 counters
    last,      \* the last file call, its process, its descriptor and result
    closed     \* history: the descriptors each process has closed

fileVars == <<fds, next_fd, last, closed>>

vars == <<tableVars, schedVars, fileVars>>

NoCall == [call |-> "none", pid |-> NONE, fd |-> 0, ret |-> 0]

(* A call of the current process answers ret.                               *)
Returns(call, fd, ret) ==
    last' = [call |-> call, pid |-> table_current, fd |-> fd, ret |-> ret]

Init ==
    /\ TableInit
    /\ SchedInit
    /\ fds = [pid \in PIDs |-> NewTable]
    /\ next_fd = [pid \in PIDs |-> FIRST_FD]
    /\ last = NoCall
    /\ closed = [pid \in PIDs |-> {}]

-----------------------------------------------------------------------------
(* Process::new gives the process a fresh table.  PIDs are never reused, so *)
(* the table of a PID without a process is still the fresh one.             *)
FreshFiles(pid) ==
    /\ fds' = [fds EXCEPT ![pid] = NewTable]
    /\ next_fd' = [next_fd EXCEPT ![pid] = FIRST_FD]
    /\ last' = NoCall
    /\ UNCHANGED closed

boot ==
    /\ ever = {}
    /\ InsertNew(1, 0)
    /\ table_current' = 1
    /\ on_cpu' = 1
    /\ FreshFiles(1)
    /\ UNCHANGED <<next_pid, sched_current, preemption_enabled>>

sys_process_create ==
    /\ table_current # NONE
    /\ alloc_and_insert(table_current)
    /\ table_current' = AllocPid
    /\ FreshFiles(AllocPid)
    /\ UNCHANGED schedVars

sys_spawn ==
    /\ table_current # NONE
    /\ alloc_and_insert(table_current)
    /\ FreshFiles(AllocPid)
    /\ UNCHANGED <<table_current, schedVars>>

(* Either call when alloc_pid finds nothing.                                *)
create_no_pid ==
    /\ table_current # NONE
    /\ alloc_pid_none
    /\ last' = NoCall
    /\ UNCHANGED <<pstate, ppid, table_current, ever, schedVars, fds, next_fd, closed>>

switch(pid) ==
    /\ switch_to_pid(pid)
    /\ last' = NoCall
    /\ UNCHANGED <<fds, next_fd, closed>>

-----------------------------------------------------------------------------
(* The entry a call sees, and the update of one entry of the current table. *)
Entry(fd) == fds[table_current][fd]

SetEntry(fd, entry) == fds' = [fds EXCEPT ![table_current][fd] = entry]

sys_open(inode) ==
    /\ IF CanAlloc(next_fd[table_current])
       THEN LET fd == next_fd[table_current] IN
            /\ SetEntry(fd, File(inode, 0))
            /\ next_fd' = [next_fd EXCEPT ![table_current] = NextFd(fd)]
            /\ Returns("open", fd, fd)
       ELSE /\ Returns("open", 0, ERR_NO_MEMORY)
            /\ UNCHANGED <<fds, next_fd>>
    /\ UNCHANGED closed

(* A null, overlong or unreadable path, or a name the ramdisk lacks.        *)
sys_open_refused(error) ==
    /\ Returns("open", 0, error)
    /\ UNCHANGED <<fds, next_fd, closed>>

(* A non-empty read of standard input waits for the keyboard and touches no *)
(* descriptor; the other streams are not readable.                          *)
sys_read(fd, len) ==
    /\ Entry(fd).kind = "Stdin" => len = 0
    /\ IF Entry(fd).kind = "File"
       THEN LET count == ReadCount(FileSize[Entry(fd).inode], Entry(fd).offset, len) IN
            /\ SetEntry(fd, File(Entry(fd).inode, Entry(fd).offset + count))
            /\ Returns("read", fd, count)
       ELSE /\ Returns("read", fd, IF Entry(fd).kind = "Stdin" THEN 0 ELSE ERR_INVALID_ARGS)
            /\ UNCHANGED fds
    /\ UNCHANGED <<next_fd, closed>>

(* sys_write looks at the number alone: 0 is refused, 1 and 2 go to the     *)
(* console, and any other is answered as if it had been written.            *)
sys_write(fd, len) ==
    /\ Returns("write", fd, IF fd = 0 THEN ERR_INVALID_ARGS ELSE len)
    /\ UNCHANGED <<fds, next_fd, closed>>

sys_close(fd) ==
    /\ IF CanClose(fds[table_current], fd)
       THEN /\ SetEntry(fd, Fd("None"))
            /\ closed' = [closed EXCEPT ![table_current] = @ \cup {fd}]
            /\ Returns("close", fd, 0)
       ELSE /\ Returns("close", fd, ERR_INVALID_ARGS)
            /\ UNCHANGED <<fds, closed>>
    /\ UNCHANGED next_fd

sys_lseek(fd, arg, whence) ==
    /\ LET ret == IF Entry(fd).kind = "File" /\ whence \in 0 .. 2
                  THEN SeekResult(FileSize[Entry(fd).inode], Entry(fd).offset, arg, whence)
                  ELSE ERR_INVALID_ARGS
       IN  /\ Returns("lseek", fd, ret)
           /\ IF ret < 0 THEN UNCHANGED fds ELSE SetEntry(fd, File(Entry(fd).inode, ret))
    /\ UNCHANGED <<next_fd, closed>>

FileCall ==
    /\ table_current # NONE
    /\ UNCHANGED <<tableVars, schedVars>>
    /\ \/ \E inode \in Inodes : sys_open(inode)
       \/ \E error \in {ERR_INVALID_ARGS, ERR_NOT_FOUND} : sys_open_refused(error)
       \/ \E fd \in FDs, len \in Lengths : sys_read(fd, len) \/ sys_write(fd, len)
       \/ \E fd \in FDs : sys_close(fd)
       \/ \E fd \in FDs, arg \in I64, whence \in 0 .. 3 : sys_lseek(fd, arg, whence)

Next ==
    \/ boot
    \/ sys_process_create
    \/ sys_spawn
    \/ create_no_pid
    \/ \E pid \in PIDs : switch(pid)
    \/ FileCall

Spec == Init /\ [][Next]_vars

-----------------------------------------------------------------------------
FilesTypeOK ==
    /\ fds \in [PIDs -> [FDs -> Descriptor]]
    /\ next_fd \in [PIDs -> FDs]
    /\ closed \in [PIDs -> SUBSET FDs]

(* The types of the process table, the scheduler and the descriptor tables: *)
(* in particular a wrapped next_fd is still a descriptor number.            *)
TypeOK == TableTypeOK /\ SchedTypeOK /\ FilesTypeOK

(* The counter of alloc is a u8 that wraps to 0: however many files a       *)
(* process opens and closes, its standard streams stay what they were.      *)
StdStreamsStay ==
    \A pid \in PIDs :
        /\ fds[pid][0].kind = "Stdin"
        /\ fds[pid][1].kind = "Stdout"
        /\ fds[pid][2].kind = "Stderr"

(* No interleaving of reads and seeks, overflowing ones included, moves a   *)
(* descriptor past the end of its file, where vfs.rs would underflow.       *)
OffsetWithinFile ==
    \A pid \in PIDs, fd \in FDs :
        fds[pid][fd].kind = "File" => fds[pid][fd].offset <= FileSize[fds[pid][fd].inode]

(* The number has been handed out by alloc.                                 *)
Used(pid, fd) == fd >= FIRST_FD /\ (next_fd[pid] = 0 \/ fd < next_fd[pid])

(* What makes the three invariants inductive: files and closed descriptors  *)
(* have numbers that alloc is past, and a slot without a process has no     *)
(* closed ones.                                                             *)
FilesInv ==
    /\ table_current # NONE => table_current \in PIDs /\ Occupied(table_current)
    /\ \A pid \in PIDs : IF Occupied(pid) THEN pid \in ever ELSE closed[pid] = {}
    /\ \A pid \in PIDs : next_fd[pid] = 0 \/ next_fd[pid] >= FIRST_FD
    /\ \A pid \in PIDs : \A fd \in closed[pid] : Used(pid, fd)
    /\ \A pid \in PIDs, fd \in FDs :
          /\ fd >= FIRST_FD => fds[pid][fd].kind \in {"None", "File"}
          /\ fds[pid][fd].kind = "File" => Used(pid, fd) /\ fds[pid][fd].inode \in Inodes

(* A closed descriptor number never comes back: a stale number in a process *)
(* is refused rather than naming another file.                              *)
ClosedStaysClosed ==
    \A pid \in PIDs : \A fd \in closed[pid] : fds[pid][fd].kind = "None"

(* The two implementations of seek and read, sys_lseek and sys_read in      *)
(* syscall/mod.rs and RamdiskFileOps in fs/vfs.rs, give the same answers    *)
(* for every descriptor a process can have.                                 *)
AgreesWithVfs ==
    \A pid \in PIDs, fd \in FDs :
        fds[pid][fd].kind = "File" =>
            LET size == FileSize[fds[pid][fd].inode]
                offset == fds[pid][fd].offset
            IN  /\ \A arg \in I64, whence \in 0 .. 2 :
                      SeekResult(size, offset, arg, whence) = VfsSeek(size, offset, arg, whence)
                /\ \A len \in Lengths : ReadCount(size, offset, len) = VfsRead(size, offset, len)

-----------------------------------------------------------------------------
(* What the code's own comments say of it and the model refutes.            *)

(* fd.rs: "Per-process file descriptor table. Manages file descriptors for  *)
(* a single process."  An existing process's descriptors change only by its *)
(* own calls.                                                               *)
OwnDescriptors ==
    [][\A pid \in PIDs : (Occupied(pid) /\ fds'[pid] # fds[pid]) => pid = on_cpu]_vars

(* fd.rs on alloc: "Returns the fd number, or None if the table is full."   *)
EmfileOnlyWhenFull ==
    (last.call = "open" /\ last.ret = ERR_NO_MEMORY)
        => \A fd \in FDs : fds[last.pid][fd].kind # "None"

=============================================================================
