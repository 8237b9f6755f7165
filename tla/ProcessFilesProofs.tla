------------------------- MODULE ProcessFilesProofs -------------------------
(***************************************************************************)
(* Proofs about ProcessFiles, for any number of processes, descriptors and *)
(* files, any file sizes and any width of i64.                             *)
(***************************************************************************)
EXTENDS ProcessFiles, ProcessTableProofs

(* The invariant proved inductive.                                          *)
IInv ==
    /\ TableTypeOK
    /\ FilesTypeOK
    /\ FilesInv
    /\ StdStreamsStay
    /\ OffsetWithinFile
    /\ ClosedStaysClosed

(* A fresh table holds the standard streams and nothing else.               *)
LEMMA NewTableType ==
    /\ NewTable \in [FDs -> Descriptor]
    /\ NewTable[0].kind = "Stdin" /\ NewTable[1].kind = "Stdout" /\ NewTable[2].kind = "Stderr"
    /\ \A fd \in FDs : NewTable[fd].kind # "File"
    /\ \A fd \in FDs : fd >= FIRST_FD => NewTable[fd].kind = "None"
  BY FdAssumption DEF NewTable, Descriptor, Fd, FdKind, FDs, NoInode, FIRST_FD

(* The standard streams are descriptors.                                    *)
LEMMA StdFds == {0, 1, 2} \subseteq FDs
  BY FdAssumption DEF FDs

(* The effect of a file call on the tables: one entry of one process.       *)
LEMMA SetEntryEffect ==
    ASSUME FilesTypeOK, table_current \in PIDs,
           NEW fd \in FDs, NEW entry \in Descriptor, SetEntry(fd, entry)
    PROVE  /\ fds' \in [PIDs -> [FDs -> Descriptor]]
           /\ \A pid \in PIDs, d \in FDs :
                 fds'[pid][d] = IF pid = table_current /\ d = fd THEN entry ELSE fds[pid][d]
  BY DEF SetEntry, FilesTypeOK

(* Giving a new process its table preserves what is said of the tables.     *)
LEMMA FreshFilesInv ==
    ASSUME IInv, NEW new \in PIDs, ~Occupied(new), FreshFiles(new),
           TableTypeOK',
           \A pid \in PIDs : Occupied(pid)' <=> Occupied(pid) \/ pid = new,
           ever' = ever \cup {new},
           table_current' \in {table_current, new}
    PROVE  IInv'
<1>1. /\ fds' \in [PIDs -> [FDs -> Descriptor]]
      /\ \A pid \in PIDs : fds'[pid] = IF pid = new THEN NewTable ELSE fds[pid]
      /\ next_fd' \in [PIDs -> FDs]
      /\ \A pid \in PIDs : next_fd'[pid] = IF pid = new THEN FIRST_FD ELSE next_fd[pid]
      /\ closed' = closed
      /\ closed[new] = {}
  BY NewTableType, FdAssumption DEF IInv, FilesTypeOK, FilesInv, FreshFiles, FDs, FIRST_FD
<1>2. FilesTypeOK'
  BY <1>1 DEF IInv, FilesTypeOK
<1>3. FilesInv'
  <2>1. table_current' # NONE => table_current' \in PIDs /\ Occupied(table_current)'
    BY DEF IInv, FilesInv, Occupied
  <2>2. \A pid \in PIDs : IF Occupied(pid)' THEN pid \in ever' ELSE closed'[pid] = {}
    BY <1>1 DEF IInv, FilesInv
  <2>3. /\ \A pid \in PIDs : next_fd'[pid] = 0 \/ next_fd'[pid] >= FIRST_FD
        /\ \A pid \in PIDs : \A fd \in closed'[pid] : Used(pid, fd)'
    <3>1. \A pid \in PIDs : next_fd'[pid] = 0 \/ next_fd'[pid] >= FIRST_FD
      BY <1>1 DEF IInv, FilesInv, FIRST_FD
    <3>2. \A pid \in PIDs : pid # new => \A fd \in closed[pid] : Used(pid, fd)'
      BY SMTT(40), <1>1 DEF IInv, FilesInv, Used
    <3>3. QED
      BY <1>1, <3>1, <3>2
  <2>4. \A pid \in PIDs, fd \in FDs :
            /\ fd >= FIRST_FD => fds'[pid][fd].kind \in {"None", "File"}
            /\ fds'[pid][fd].kind = "File" => Used(pid, fd)' /\ fds'[pid][fd].inode \in Inodes
    BY <1>1, NewTableType DEF IInv, FilesInv, Used
  <2>5. QED
    BY <2>1, <2>2, <2>3, <2>4 DEF FilesInv
<1>4. StdStreamsStay'
  BY <1>1, NewTableType DEF IInv, StdStreamsStay
<1>5. OffsetWithinFile'
  BY <1>1, NewTableType DEF IInv, OffsetWithinFile
<1>6. ClosedStaysClosed'
  BY SMTT(40), <1>1 DEF IInv, FilesTypeOK, ClosedStaysClosed
<1>7. QED
  BY <1>2, <1>3, <1>4, <1>5, <1>6 DEF IInv

-----------------------------------------------------------------------------
(* A call that keeps the tables as they are, or replaces a descriptor of a  *)
(* file by one of the same file within its size, preserves the invariant.   *)
LEMMA MoveOffset ==
    ASSUME IInv, UNCHANGED <<tableVars, next_fd, closed>>, table_current \in PIDs,
           NEW fd \in FDs, NEW offset \in Nat, Entry(fd).kind = "File",
           offset <= FileSize[Entry(fd).inode],
           SetEntry(fd, File(Entry(fd).inode, offset))
    PROVE  IInv'
<1> DEFINE entry == File(Entry(fd).inode, offset)
<1>1. Entry(fd).inode \in Inodes
  BY DEF IInv, FilesInv, Entry
<1>2. entry \in Descriptor
  <2>1. FileSize[Entry(fd).inode] \in 0 .. I64_HALF - 1
    BY ZenonT(40), <1>1, FdAssumption
  <2>2. offset \in 0 .. I64_HALF - 1
    BY <2>1, FdAssumption
  <2>3. QED
    BY <1>1, <2>2 DEF Descriptor, File, FdKind
<1>3. /\ fds' \in [PIDs -> [FDs -> Descriptor]]
      /\ \A pid \in PIDs, d \in FDs :
            fds'[pid][d] = IF pid = table_current /\ d = fd THEN entry ELSE fds[pid][d]
  BY <1>2, SetEntryEffect DEF IInv
<1>4. /\ entry.kind = "File"
      /\ entry.inode = Entry(fd).inode
      /\ entry.offset = offset
  BY DEF File
<1> HIDE DEF entry
<1>5. TableTypeOK' /\ FilesTypeOK'
  BY <1>3 DEF IInv, TableTypeOK, FilesTypeOK, tableVars
<1>6. FilesInv'
  BY SMTT(40), <1>1, <1>3, <1>4 DEF IInv, FilesInv, tableVars, Occupied, Used, Entry
<1>7. fd \notin {0, 1, 2}
  BY DEF IInv, StdStreamsStay, Entry
<1>8. StdStreamsStay'
  BY <1>3, <1>7, StdFds DEF IInv, StdStreamsStay
<1>9. OffsetWithinFile'
  BY <1>3, <1>4 DEF IInv, OffsetWithinFile
<1>10. ClosedStaysClosed'
  <2>1. \A pid \in PIDs : closed'[pid] \subseteq FDs /\ closed'[pid] = closed[pid]
    BY DEF IInv, FilesTypeOK
  <2>2. ~(fd \in closed[table_current])
    BY DEF IInv, ClosedStaysClosed, Entry
  <2>3. \A pid \in PIDs : \A d \in closed[pid] : fds'[pid][d] = fds[pid][d]
    BY <1>3, <2>1, <2>2
  <2>4. QED
    BY <2>1, <2>3 DEF IInv, ClosedStaysClosed
<1>11. QED
  BY <1>5, <1>6, <1>8, <1>9, <1>10 DEF IInv

(* A step that leaves the descriptor tables and the slots alone preserves   *)
(* the invariant.                                                           *)
LEMMA SameFiles ==
    ASSUME IInv, TableTypeOK', UNCHANGED <<fds, next_fd, closed>>,
           \A pid \in PIDs : Occupied(pid)' <=> Occupied(pid), ever' = ever,
           table_current' # NONE => table_current' \in PIDs /\ Occupied(table_current)'
    PROVE  IInv'
<1>1. FilesTypeOK' /\ StdStreamsStay' /\ OffsetWithinFile' /\ ClosedStaysClosed'
  BY DEF IInv, FilesTypeOK, StdStreamsStay, OffsetWithinFile, ClosedStaysClosed
<1>2. FilesInv'
  BY DEF IInv, FilesInv, Used
<1>3. QED
  BY <1>1, <1>2 DEF IInv

(* sys_open takes the next unused number, or changes nothing.               *)
LEMMA OpenInv ==
    ASSUME IInv, table_current \in PIDs, UNCHANGED tableVars, NEW inode \in Inodes,
           sys_open(inode)
    PROVE  IInv'
<1>1. CASE ~CanAlloc(next_fd[table_current])
  BY <1>1, SameFiles DEF sys_open, IInv, FilesInv, TableTypeOK, tableVars, Occupied
<1>2. CASE CanAlloc(next_fd[table_current])
  <2> DEFINE entry == File(inode, 0)
  <2> PICK fd \in FDs : fd = next_fd[table_current]
    BY DEF IInv, FilesTypeOK
  <2>1. /\ fd >= FIRST_FD
        /\ SetEntry(fd, entry)
        /\ next_fd' = [next_fd EXCEPT ![table_current] = NextFd(fd)]
        /\ closed' = closed
    BY <1>2 DEF sys_open, CanAlloc, IInv, FilesInv, FilesTypeOK
  <2>2. /\ entry \in Descriptor
        /\ entry.kind = "File" /\ entry.inode = inode /\ entry.offset = 0
    BY FdAssumption DEF File, Descriptor, FdKind
  <2>3. /\ fds' \in [PIDs -> [FDs -> Descriptor]]
        /\ \A pid \in PIDs, d \in FDs :
              fds'[pid][d] = IF pid = table_current /\ d = fd THEN entry ELSE fds[pid][d]
    BY <2>1, <2>2, SetEntryEffect DEF IInv
  <2> HIDE DEF entry
  <2>4. NextFd(fd) \in FDs /\ (NextFd(fd) = 0 \/ NextFd(fd) = fd + 1)
    <3>1. CASE fd = MAX_FDS - 1
      BY <2>1, <3>1, FdAssumption DEF NextFd, FDs
    <3>2. CASE fd < MAX_FDS - 1
      <4>1. (fd + 1) % MAX_FDS = fd + 1
        BY <2>1, <3>2, FdAssumption DEF FDs
      <4>2. QED
        BY <2>1, <3>2, <4>1, FdAssumption DEF NextFd, FDs
    <3>3. QED
      BY <2>1, <3>1, <3>2, FdAssumption DEF FDs
  <2>5. TableTypeOK' /\ FilesTypeOK'
    BY ZenonT(40), <2>1, <2>3, <2>4 DEF IInv, TableTypeOK, FilesTypeOK, tableVars
  <2>6. /\ \A pid \in PIDs : next_fd'[pid] = 0 \/ next_fd'[pid] >= FIRST_FD
        /\ \A pid \in PIDs, d \in FDs : Used(pid, d) => Used(pid, d)'
        /\ Used(table_current, fd)'
    <3>1. \A pid \in PIDs : next_fd'[pid] = IF pid = table_current THEN NextFd(fd) ELSE next_fd[pid]
      BY <2>1 DEF IInv, FilesTypeOK
    <3>2. fd # 0 /\ fd \in Int /\ \A pid \in PIDs : next_fd[pid] \in Int
      BY <2>1, FdAssumption DEF IInv, FilesTypeOK, FDs, FIRST_FD
    <3>3. \A pid \in PIDs : next_fd'[pid] = 0 \/ next_fd'[pid] >= FIRST_FD
      BY SMTT(40), <2>1, <2>4, <3>1, <3>2 DEF IInv, FilesInv, FIRST_FD
    <3>4. \A pid \in PIDs, d \in FDs : Used(pid, d) => Used(pid, d)'
      BY <2>4, <3>1, <3>2, FdAssumption DEF Used, FDs
    <3>5. Used(table_current, fd)'
      BY <2>1, <2>4, <3>1, <3>2 DEF Used, tableVars
    <3>6. QED
      BY <3>3, <3>4, <3>5
  <2>7. FilesInv'
    <3>1. /\ table_current' # NONE => table_current' \in PIDs /\ Occupied(table_current)'
          /\ \A pid \in PIDs : IF Occupied(pid)' THEN pid \in ever' ELSE closed'[pid] = {}
      BY <2>1 DEF IInv, FilesInv, tableVars, Occupied
    <3>2. \A pid \in PIDs : \A d \in closed'[pid] : Used(pid, d)'
      <4>1. \A pid \in PIDs : closed'[pid] \subseteq FDs /\ closed'[pid] = closed[pid]
        BY <2>1 DEF IInv, FilesTypeOK
      <4>2. \A pid \in PIDs : \A d \in closed[pid] : Used(pid, d)
        BY DEF IInv, FilesInv
      <4>3. QED
        BY <2>6, <4>1, <4>2
    <3>3. \A pid \in PIDs, d \in FDs :
              /\ d >= FIRST_FD => fds'[pid][d].kind \in {"None", "File"}
              /\ fds'[pid][d].kind = "File" => Used(pid, d)' /\ fds'[pid][d].inode \in Inodes
      <4>1. \A pid \in PIDs, d \in FDs :
                /\ d >= FIRST_FD => fds[pid][d].kind \in {"None", "File"}
                /\ fds[pid][d].kind = "File" => Used(pid, d) /\ fds[pid][d].inode \in Inodes
        BY DEF IInv, FilesInv
      <4>2. ASSUME NEW pid \in PIDs, NEW d \in FDs
            PROVE  /\ d >= FIRST_FD => fds'[pid][d].kind \in {"None", "File"}
                   /\ fds'[pid][d].kind = "File" => Used(pid, d)' /\ fds'[pid][d].inode \in Inodes
        <5>1. CASE pid = table_current /\ d = fd
          <6>1. Used(pid, d)'
            BY <2>6, <5>1 DEF tableVars
          <6>2. fds'[pid][d] = entry
            BY <2>3, <5>1
          <6>3. QED
            BY <2>2, <6>1, <6>2
        <5>2. CASE ~(pid = table_current /\ d = fd)
          BY SMTT(40), <2>3, <2>6, <4>1, <5>2
        <5>3. QED
          BY <5>1, <5>2
      <4>3. QED
        BY <4>2
    <3>4. QED
      BY <2>6, <3>1, <3>2, <3>3 DEF FilesInv
  <2>8. StdStreamsStay'
    <3>1. fd \notin {0, 1, 2}
      BY <2>1 DEF FIRST_FD
    <3>2. QED
      BY <2>3, <3>1, StdFds DEF IInv, StdStreamsStay
  <2>9. OffsetWithinFile'
    <3>1. 0 <= FileSize[inode]
      BY FdAssumption
    <3>2. QED
      BY SMTT(40), <2>2, <2>3, <3>1 DEF IInv, OffsetWithinFile
  <2>10. ClosedStaysClosed'
    <3>1. \A pid \in PIDs : \A d \in closed[pid] : ~(pid = table_current /\ d = fd)
      BY <2>1, FdAssumption DEF IInv, FilesInv, FilesTypeOK, Used, FDs, FIRST_FD
    <3>2. \A pid \in PIDs : closed'[pid] \subseteq FDs /\ closed'[pid] = closed[pid]
      BY <2>1 DEF IInv, FilesTypeOK
    <3>3. \A pid \in PIDs : \A d \in closed[pid] : fds'[pid][d] = fds[pid][d]
      BY <2>3, <3>1, <3>2
    <3>4. QED
      BY <3>2, <3>3 DEF IInv, ClosedStaysClosed
  <2>11. QED
    BY <2>5, <2>7, <2>8, <2>9, <2>10 DEF IInv
<1>3. QED
  BY SMTT(40), <1>1, <1>2

(* sys_close empties a slot that is not a standard stream.                  *)
LEMMA CloseInv ==
    ASSUME IInv, table_current \in PIDs, UNCHANGED tableVars, NEW fd \in FDs, sys_close(fd)
    PROVE  IInv'
<1>1. CASE ~CanClose(fds[table_current], fd)
  BY <1>1, SameFiles DEF sys_close, IInv, FilesInv, TableTypeOK, tableVars, Occupied
<1>2. CASE CanClose(fds[table_current], fd)
  <2> DEFINE entry == Fd("None")
  <2>1. /\ fd >= FIRST_FD /\ Used(table_current, fd)
        /\ SetEntry(fd, entry)
        /\ closed' = [closed EXCEPT ![table_current] = @ \cup {fd}]
        /\ next_fd' = next_fd
    BY <1>2 DEF sys_close, CanClose, FIRST_FD, IInv, FilesInv
  <2>2. entry \in Descriptor /\ entry.kind = "None"
    BY FdAssumption DEF Fd, Descriptor, FdKind
  <2>3. /\ fds' \in [PIDs -> [FDs -> Descriptor]]
        /\ \A pid \in PIDs, d \in FDs :
              fds'[pid][d] = IF pid = table_current /\ d = fd THEN entry ELSE fds[pid][d]
    BY <2>1, <2>2, SetEntryEffect DEF IInv
  <2> HIDE DEF entry
  <2>4. \A pid \in PIDs :
            closed'[pid] = IF pid = table_current THEN closed[pid] \cup {fd} ELSE closed[pid]
    BY ZenonT(40), <2>1 DEF IInv, FilesTypeOK
  <2>5. TableTypeOK' /\ FilesTypeOK'
    BY ZenonT(40), <2>1, <2>3 DEF IInv, TableTypeOK, FilesTypeOK, tableVars
  <2>6. FilesInv'
    <3>1. /\ table_current' # NONE => table_current' \in PIDs /\ Occupied(table_current)'
          /\ \A pid \in PIDs : next_fd'[pid] = 0 \/ next_fd'[pid] >= FIRST_FD
      BY <2>1 DEF IInv, FilesInv, tableVars, Occupied
    <3>2. \A pid \in PIDs, d \in FDs :
              /\ d >= FIRST_FD => fds'[pid][d].kind \in {"None", "File"}
              /\ fds'[pid][d].kind = "File" => Used(pid, d)' /\ fds'[pid][d].inode \in Inodes
      BY SMTT(40), <2>1, <2>2, <2>3 DEF IInv, FilesInv, Used
    <3>3. \A pid \in PIDs : IF Occupied(pid)' THEN pid \in ever' ELSE closed'[pid] = {}
      <4>1. Occupied(table_current)
        BY MaxProcessesAssumption DEF IInv, FilesInv, PIDs, NONE
      <4>2. QED
        BY ZenonT(40), <4>1, <2>4 DEF IInv, FilesInv, tableVars, Occupied
    <3>4. \A pid \in PIDs : \A d \in closed'[pid] : Used(pid, d)'
      BY SMTT(40), <2>1, <2>4 DEF IInv, FilesInv, Used
    <3>5. QED
      BY <3>1, <3>2, <3>3, <3>4 DEF FilesInv
  <2>7. StdStreamsStay'
    <3>1. fd \notin {0, 1, 2}
      BY <2>1 DEF FIRST_FD
    <3>2. QED
      BY <2>3, <3>1, StdFds DEF IInv, StdStreamsStay
  <2>8. OffsetWithinFile'
    BY <2>2, <2>3 DEF IInv, OffsetWithinFile
  <2>9. ClosedStaysClosed'
    <3>1. ASSUME NEW pid \in PIDs, NEW d \in closed'[pid]
          PROVE  fds'[pid][d].kind = "None"
      <4>1. d \in FDs /\ (d \in closed[pid] \/ (pid = table_current /\ d = fd))
        BY ZenonT(40), <2>4 DEF IInv, FilesTypeOK
      <4>2. d \in closed[pid] => fds[pid][d].kind = "None"
        BY DEF IInv, ClosedStaysClosed
      <4>3. QED
        BY <2>2, <2>3, <4>1, <4>2
    <3>2. QED
      BY <3>1 DEF ClosedStaysClosed
  <2>10. QED
    BY SMTT(40), <2>5, <2>6, <2>7, <2>8, <2>9 DEF IInv
<1>3. QED
  BY SMTT(40), <1>1, <1>2

-----------------------------------------------------------------------------
(* A read ends within the file.                                             *)
LEMMA ReadStaysInFile ==
    ASSUME NEW size \in Nat, NEW offset \in Nat, offset <= size, NEW len \in Nat
    PROVE  /\ ReadCount(size, offset, len) \in Nat
           /\ offset + ReadCount(size, offset, len) <= size
  BY DEF ReadCount

(* A successful seek ends within the file, whatever overflows on the way.   *)
LEMMA SeekStaysInFile ==
    ASSUME NEW size \in Nat, NEW offset \in Nat, NEW arg \in I64, NEW whence \in 0 .. 2
    PROVE  LET new == SeekResult(size, offset, arg, whence) IN
           /\ new \in Int
           /\ new >= 0 => new \in Nat /\ new <= size
<1> DEFINE target == SeekTarget(size, offset, arg, whence)
<1>1. \A x \in Int : WrapI64(x) \in Int
  BY FdAssumption DEF WrapI64
<1>2. target \in Int
  <2>1. arg \in Int /\ offset + arg \in Int /\ size + arg \in Int
    BY FdAssumption DEF I64
  <2>2. CASE whence = 0
    BY <2>1, <2>2 DEF SeekTarget
  <2>3. CASE whence = 1
    BY <1>1, <2>1, <2>3 DEF SeekTarget
  <2>4. CASE whence = 2
    BY <1>1, <2>1, <2>4 DEF SeekTarget
  <2>5. QED
    BY <2>2, <2>3, <2>4
<1> HIDE DEF target
<1>3. SeekResult(size, offset, arg, whence)
        = IF target < 0 THEN ERR_INVALID_ARGS ELSE Clamp(size, target)
  BY DEF SeekResult, target
<1>4. QED
  BY <1>2, <1>3 DEF Clamp, ERR_INVALID_ARGS

(* Creating a process takes a free slot of the table.                       *)
LEMMA CreateType ==
    ASSUME IInv, NEW parent \in PIDs, alloc_and_insert(parent),
           table_current' \in {table_current, AllocPid}
    PROVE  /\ TableTypeOK'
           /\ AllocPid \in PIDs /\ ~Occupied(AllocPid)
           /\ \A pid \in PIDs : Occupied(pid)' <=> Occupied(pid) \/ pid = AllocPid
           /\ ever' = ever \cup {AllocPid}
<1>1. AllocPid \in PIDs /\ AllocPid >= next_pid /\ ~Occupied(AllocPid)
  BY AllocPidIsFree DEF IInv, alloc_and_insert
<1>2. AllocPid + 1 \in 1 .. MAX_PROCESSES
  BY <1>1, MaxProcessesAssumption DEF PIDs
<1> PICK new \in PIDs : new = AllocPid
  BY <1>1
<1>3. TableTypeOK'
  BY <1>1, <1>2 DEF IInv, alloc_and_insert, InsertNew, TableTypeOK, ProcessState
<1>4. /\ \A pid \in PIDs : Occupied(pid)' <=> Occupied(pid) \/ pid = AllocPid
      /\ ever' = ever \cup {AllocPid}
  BY <1>1 DEF IInv, alloc_and_insert, InsertNew, TableTypeOK, Occupied
<1>5. QED
  BY <1>1, <1>3, <1>4

(* Every step preserves the invariant.                                      *)
LEMMA FilesInvariant == IInv /\ [Next]_vars => IInv'
<1> SUFFICES ASSUME IInv, [Next]_vars
             PROVE  IInv'
  OBVIOUS
<1>1. CASE boot
  <2>1. 1 \in PIDs /\ 0 \in PIDs /\ ~Occupied(1)
    BY SMTT(40), <1>1, MaxProcessesAssumption DEF boot, IInv, FilesInv, PIDs
  <2>2. /\ TableTypeOK'
        /\ \A pid \in PIDs : Occupied(pid)' <=> Occupied(pid) \/ pid = 1
        /\ ever' = ever \cup {1}
        /\ table_current' \in {table_current, 1}
    BY <1>1, <2>1 DEF boot, InsertNew, IInv, TableTypeOK, ProcessState, Occupied
  <2>3. QED
    BY <1>1, <2>1, <2>2, FreshFilesInv DEF boot
<1>2. CASE sys_process_create \/ sys_spawn
  <2>1. /\ table_current \in PIDs
        /\ alloc_and_insert(table_current)
        /\ table_current' \in {table_current, AllocPid}
        /\ FreshFiles(AllocPid)
    BY <1>2 DEF sys_process_create, sys_spawn, IInv, FilesInv
  <2>2. PICK new \in PIDs : new = AllocPid
    BY <2>1, CreateType
  <2>3. /\ TableTypeOK'
        /\ ~Occupied(new)
        /\ \A pid \in PIDs : Occupied(pid)' <=> Occupied(pid) \/ pid = new
        /\ ever' = ever \cup {new}
    BY SMTT(40), <2>1, <2>2, CreateType
  <2>4. QED
    BY <2>1, <2>2, <2>3, FreshFilesInv
<1>3. CASE create_no_pid
  <2>1. TableTypeOK'
    BY <1>3, MaxProcessesAssumption DEF create_no_pid, alloc_pid_none, IInv, TableTypeOK
  <2>2. QED
    BY <1>3, <2>1, SameFiles DEF create_no_pid, IInv, FilesInv, Occupied
<1>4. ASSUME NEW pid \in PIDs, switch(pid)
      PROVE  IInv'
  <2>1. /\ TableTypeOK'
        /\ \A other \in PIDs : Occupied(other)' <=> Occupied(other)
        /\ Occupied(pid)'
    BY <1>4 DEF switch, switch_to_pid, IInv, TableTypeOK, ProcessState, Occupied
  <2>2. table_current' = pid /\ ever' = ever /\ UNCHANGED <<fds, next_fd, closed>>
    BY <1>4 DEF switch, switch_to_pid
  <2>3. Occupied(table_current)'
    BY <2>1, <2>2 DEF Occupied
  <2>4. QED
    BY <2>1, <2>2, <2>3, SameFiles
<1>5. CASE FileCall
  <2>1. table_current \in PIDs /\ UNCHANGED tableVars
    BY SMTT(40), <1>5 DEF FileCall, IInv, FilesInv
  <2>2. ASSUME UNCHANGED <<fds, next_fd, closed>>
        PROVE  IInv'
    BY <2>1, <2>2, SameFiles DEF IInv, FilesInv, TableTypeOK, tableVars, Occupied
  <2>3. ASSUME NEW fd \in FDs, Entry(fd).kind = "File"
        PROVE  /\ FileSize[Entry(fd).inode] \in Nat
               /\ Entry(fd).offset \in Nat
               /\ Entry(fd).offset <= FileSize[Entry(fd).inode]
    <3>1. Entry(fd).inode \in Inodes /\ Entry(fd) \in Descriptor
      BY <2>1, <2>3 DEF IInv, FilesInv, FilesTypeOK, Entry
    <3>2. Entry(fd).offset <= FileSize[Entry(fd).inode]
      BY <2>1, <2>3 DEF IInv, OffsetWithinFile, Entry
    <3>3. \A inode \in Inodes : FileSize[inode] \in Nat
      BY FdAssumption
    <3>4. \A d \in Descriptor : d.offset \in Nat
      BY FdAssumption DEF Descriptor
    <3>5. QED
      BY <3>1, <3>2, <3>3, <3>4
  <2>4. ASSUME NEW fd \in FDs, NEW len \in Lengths, sys_read(fd, len)
        PROVE  IInv'
    <3>1. CASE Entry(fd).kind = "File"
      <4> DEFINE count == ReadCount(FileSize[Entry(fd).inode], Entry(fd).offset, len)
      <4>1. count \in Nat /\ Entry(fd).offset + count <= FileSize[Entry(fd).inode]
        BY ZenonT(40), <2>3, <3>1, ReadStaysInFile, LengthsAssumption
      <4>2. /\ SetEntry(fd, File(Entry(fd).inode, Entry(fd).offset + count))
            /\ UNCHANGED <<next_fd, closed>>
        BY <2>4, <3>1 DEF sys_read
      <4> HIDE DEF count
      <4>3. Entry(fd).offset + count \in Nat
        BY SMTT(40), <2>3, <3>1, <4>1
      <4>4. QED
        BY <2>1, <3>1, <4>1, <4>2, <4>3, MoveOffset
    <3>2. CASE Entry(fd).kind # "File"
      BY <2>2, <2>4, <3>2 DEF sys_read
    <3>3. QED
      BY <3>1, <3>2
  <2>5. ASSUME NEW fd \in FDs, NEW arg \in I64, NEW whence \in 0 .. 3,
               sys_lseek(fd, arg, whence)
        PROVE  IInv'
    <3> DEFINE new == SeekResult(FileSize[Entry(fd).inode], Entry(fd).offset, arg, whence)
    <3>1. CASE Entry(fd).kind = "File" /\ whence \in 0 .. 2
      <4>1. new \in Int /\ (new >= 0 => new \in Nat /\ new <= FileSize[Entry(fd).inode])
        BY SMTT(40), <2>3, <3>1, SeekStaysInFile
      <4>2. /\ IF new < 0 THEN UNCHANGED fds ELSE SetEntry(fd, File(Entry(fd).inode, new))
            /\ UNCHANGED <<next_fd, closed>>
        BY <2>5, <3>1 DEF sys_lseek
      <4> HIDE DEF new
      <4>3. CASE new < 0
        BY SMTT(40), <2>2, <4>2, <4>3
      <4>4. CASE new >= 0
        <5>1. SetEntry(fd, File(Entry(fd).inode, new)) /\ new \in Nat
          BY <4>1, <4>2, <4>4
        <5>2. QED
          BY <2>1, <3>1, <4>1, <4>2, <4>4, <5>1, MoveOffset
      <4>5. QED
        BY <4>1, <4>3, <4>4
    <3>2. CASE ~(Entry(fd).kind = "File" /\ whence \in 0 .. 2)
      <4>1. UNCHANGED <<fds, next_fd, closed>>
        <5>1. ERR_INVALID_ARGS < 0
          BY SMTT(40) DEF ERR_INVALID_ARGS
        <5>2. QED
          BY <2>5, <3>2, <5>1 DEF sys_lseek
      <4>2. QED
        BY SMTT(40), <2>2, <4>1
    <3>3. QED
      BY <3>1, <3>2
  <2>6. QED
    BY SMTT(40), <1>5, <2>1, <2>2, <2>4, <2>5, OpenInv, CloseInv DEF FileCall, sys_open_refused, sys_write
<1>6. CASE UNCHANGED vars
  BY <1>6, SameFiles DEF vars, fileVars, tableVars, IInv, FilesInv, TableTypeOK, Occupied
<1>7. QED
  BY <1>1, <1>2, <1>3, <1>4, <1>5, <1>6 DEF Next

(* The invariant holds in every reachable state: the tables of every        *)
(* process are well formed and alloc is past every number it handed out.    *)
THEOREM FilesDiscipline == Spec => []IInv
<1>1. Init => IInv
  <2>1. TableInit => TableTypeOK /\ \A pid \in PIDs : ~Occupied(pid)
    BY MaxProcessesAssumption DEF TableInit, TableTypeOK, PIDs, NONE, Occupied
  <2>2. Init => /\ FilesTypeOK
                /\ \A pid \in PIDs : fds[pid] = NewTable /\ next_fd[pid] = FIRST_FD /\ closed[pid] = {}
                /\ table_current = NONE
    BY NewTableType, FdAssumption DEF Init, TableInit, FilesTypeOK, FIRST_FD, FDs
  <2>3. Init => FilesInv
    BY SMTT(40), <2>1, <2>2, NewTableType DEF Init, FilesInv, FIRST_FD
  <2>4. Init => StdStreamsStay /\ OffsetWithinFile /\ ClosedStaysClosed
    BY <2>2, NewTableType DEF StdStreamsStay, OffsetWithinFile, ClosedStaysClosed
  <2>5. QED
    BY <2>1, <2>2, <2>3, <2>4 DEF Init, IInv
<1>2. QED
  BY <1>1, FilesInvariant, PTL DEF Spec

(* No sequence of opens and closes, however long, touches the standard      *)
(* streams of a process: alloc stops when its u8 counter wraps to 0.        *)
THEOREM StdStreamsAlwaysStay == Spec => []StdStreamsStay
<1>1. IInv => StdStreamsStay
  BY DEF IInv
<1>2. QED
  BY <1>1, FilesDiscipline, PTL

(* No sequence of reads and seeks moves a descriptor past the end of its    *)
(* file, for any file size and any 64-bit seek argument.                    *)
THEOREM OffsetAlwaysWithinFile == Spec => []OffsetWithinFile
<1>1. IInv => OffsetWithinFile
  BY DEF IInv
<1>2. QED
  BY <1>1, FilesDiscipline, PTL

(* A descriptor number a process has closed is never handed out again.      *)
THEOREM ClosedAlwaysStaysClosed == Spec => []ClosedStaysClosed
<1>1. IInv => ClosedStaysClosed
  BY DEF IInv
<1>2. QED
  BY <1>1, FilesDiscipline, PTL

(* sys_read and sys_lseek answer as RamdiskFileOps would, for every         *)
(* descriptor a process can have: the unchecked u64 subtraction of vfs.rs   *)
(* never underflows, because no offset is past the end of its file.         *)
THEOREM AlwaysAgreesWithVfs == Spec => []AgreesWithVfs
<1>1. ASSUME IInv PROVE AgreesWithVfs
  <2>1. ASSUME NEW pid \in PIDs, NEW fd \in FDs, fds[pid][fd].kind = "File"
        PROVE  /\ fds[pid][fd].inode \in Inodes
               /\ fds[pid][fd].offset \in Nat
               /\ fds[pid][fd].offset <= FileSize[fds[pid][fd].inode]
    <3>1. fds[pid][fd].inode \in Inodes /\ fds[pid][fd] \in Descriptor
      BY <1>1, <2>1 DEF IInv, FilesInv, FilesTypeOK
    <3>2. \A d \in Descriptor : d.offset \in Nat
      BY FdAssumption DEF Descriptor
    <3>3. QED
      BY <1>1, <2>1, <3>1, <3>2 DEF IInv, OffsetWithinFile
  <2>2. ASSUME NEW size \in 0 .. I64_HALF - 1, NEW offset \in 0 .. size, NEW len \in Nat
        PROVE  ReadCount(size, offset, len) = VfsRead(size, offset, len)
    <3>1. (size - offset) % (2 * I64_HALF) = size - offset
      <4>1. size - offset \in Nat /\ 2 * I64_HALF \in Nat /\ size - offset < 2 * I64_HALF
        BY FdAssumption
      <4>2. \A n, m \in Nat : n < m => n % m = n
        OBVIOUS
      <4>3. QED
        BY <4>1, <4>2
    <3>2. QED
      BY <3>1, FdAssumption DEF ReadCount, VfsRead
  <2>3. \A size, offset, arg : \A whence \in 0 .. 2 :
            SeekResult(size, offset, arg, whence) = VfsSeek(size, offset, arg, whence)
    BY DEF SeekResult, SeekTarget, Clamp, VfsSeek
  <2>4. \A inode \in Inodes : FileSize[inode] \in 0 .. I64_HALF - 1
    BY FdAssumption
  <2>5. ASSUME NEW pid \in PIDs, NEW fd \in FDs, fds[pid][fd].kind = "File",
               NEW len \in Lengths
        PROVE  ReadCount(FileSize[fds[pid][fd].inode], fds[pid][fd].offset, len)
                 = VfsRead(FileSize[fds[pid][fd].inode], fds[pid][fd].offset, len)
    <3>1. PICK size \in 0 .. I64_HALF - 1 : size = FileSize[fds[pid][fd].inode]
      BY <2>1, <2>4, <2>5
    <3>2. PICK offset \in 0 .. size : offset = fds[pid][fd].offset
      BY SMTT(40), <2>1, <2>5, <3>1
    <3>3. len \in Nat
      BY LengthsAssumption
    <3>4. QED
      BY <2>2, <3>1, <3>2, <3>3
  <2>6. QED
    BY SMTT(40), <2>3, <2>5 DEF AgreesWithVfs
<1>2. QED
  BY <1>1, FilesDiscipline, PTL

=============================================================================
