------------------------------- MODULE Ramdisk -------------------------------
(***************************************************************************)
(* The embedded file system: build.rs computes the file headers in one     *)
(* pass and writes names and contents in a second one; fs/ramdisk.rs looks *)
(* a name up in the image and reads the file behind it.  Bytes are small   *)
(* naturals, NUL among them; offsets count from the start of the image,    *)
(* whose superblock and headers take names_offset bytes.                   *)
(***************************************************************************)
EXTENDS Integers, Sequences, FiniteSets, FiniteSetsExt

CONSTANTS
    Names,       \* file names, sequences of non-NUL bytes
    Contents,    \* file contents, sequences of bytes
    MAX_FILES,   \* bound on the number of embedded files
    MAX_NAME     \* longest name find_file looks at (256 in the kernel)

NUL == 0
SLASH == 47

VARIABLES
    files,         \* files_to_embed: the names and contents to embed
    file_entries,  \* the headers the first pass has computed
    data_offset,   \* cursor of the first pass
    body,          \* the bytes written after the headers
    written,       \* number of files the second pass has written
    found          \* what the last find_file returned: 0, or an index

vars == <<files, file_entries, data_offset, body, written, found>>

Embedded == [name : Names, data : Contents]

(* A superblock of 12 bytes and headers of 16 precede the names.            *)
names_offset == 12 + 16 * Len(files)

Init ==
    /\ files \in UNION {[1 .. n -> Embedded] : n \in 1 .. MAX_FILES}
    /\ \A i, j \in DOMAIN files : files[i].name = files[j].name => i = j
    /\ file_entries = <<>>
    /\ data_offset = names_offset
    /\ body = <<>>
    /\ written = 0
    /\ found = 0

-----------------------------------------------------------------------------
EntryFor_NoTerminator(file) ==
    [name_offset |-> data_offset,
     data_offset |-> data_offset + Len(file.name),
     size |-> Len(file.data)]

EntryFor(file) ==
    [name_offset |-> data_offset,
     data_offset |-> data_offset + Len(file.name) + 1,
     size |-> Len(file.data)]

(* First pass: the header of the next file; the cursor moves past the name  *)
(* and its terminator.                                                      *)
first_pass ==
    /\ Len(file_entries) < Len(files)
    /\ LET file == files[Len(file_entries) + 1] IN
       /\ file_entries' = Append(file_entries, EntryFor(file))
       /\ data_offset' = data_offset + Len(file.name) + 1
    /\ UNCHANGED <<files, body, written, found>>

Written(file) == file.name \o <<NUL>> \o file.data

(* Second pass: the next file's name, terminator and contents.              *)
second_pass ==
    /\ Len(file_entries) = Len(files)
    /\ written < Len(files)
    /\ body' = body \o Written(files[written + 1])
    /\ written' = written + 1
    /\ UNCHANGED <<files, file_entries, data_offset, found>>

-----------------------------------------------------------------------------
InImage(offset) == offset >= names_offset /\ offset < names_offset + Len(body)

(* A read past the image is undefined; ReadsStayInImage rules it out.       *)
ByteAt(offset) == IF InImage(offset) THEN body[offset - names_offset + 1] ELSE NUL

Bytes(offset, len) == [n \in 1 .. len |-> ByteAt(offset + n - 1)]

(* The length at which the scan for a name's terminator stops.              *)
NameLen(entry) ==
    Min({n \in 0 .. MAX_NAME : n = MAX_NAME \/ ByteAt(entry.name_offset + n) = NUL})

FileName(entry) == Bytes(entry.name_offset, NameLen(entry))

StripSlash(path) == IF path # <<>> /\ Head(path) = SLASH THEN Tail(path) ELSE path

(* The index of the first header whose name is the path's, or 0.            *)
Lookup(path) ==
    LET hits == {i \in DOMAIN file_entries : FileName(file_entries[i]) = StripSlash(path)}
    IN  IF hits = {} THEN 0 ELSE Min(hits)

find_file(path) ==
    /\ written = Len(files)
    /\ found' = Lookup(path)
    /\ UNCHANGED <<files, file_entries, data_offset, body, written>>

(* read_file into a buffer of len bytes.                                    *)
read_file(entry, len) == Bytes(entry.data_offset, Min({len, entry.size}))

Paths == Names \cup {<<SLASH>> \o name : name \in Names}

Next ==
    \/ first_pass
    \/ second_pass
    \/ \E path \in Paths : find_file(path)

Spec == Init /\ [][Next]_vars

-----------------------------------------------------------------------------
(* Headers hold offsets and sizes, and a lookup answers a file or nothing.  *)
TypeOK ==
    /\ \A entry \in {file_entries[i] : i \in DOMAIN file_entries} :
          /\ entry.name_offset \in Nat
          /\ entry.data_offset \in Nat
          /\ entry.size \in Nat
    /\ written \in 0 .. Len(files)
    /\ found \in 0 .. Len(files)

Ready == written = Len(files)

(* The headers' reads stay in the image: whatever the file sizes, the bytes *)
(* read_file and sys_read copy, and the scan of find_file for a terminator, *)
(* end inside what build.rs wrote.                                          *)
ReadsStayInImage ==
    Ready => \A i \in DOMAIN file_entries :
        LET entry == file_entries[i] IN
        /\ \A n \in 0 .. entry.size - 1 : InImage(entry.data_offset + n)
        /\ \A n \in 0 .. NameLen(entry) : InImage(entry.name_offset + n)

(* The first embedded file can be opened by its name, with or without the   *)
(* leading slash, and holds what was embedded.                              *)
FirstFileReadable ==
    Ready => \A path \in {files[1].name, <<SLASH>> \o files[1].name} :
        /\ Lookup(path) = 1
        /\ read_file(file_entries[1], Len(files[1].data)) = files[1].data

(* What build.rs writes, the kernel reads back: no read leaves the image,   *)
(* and the first file, the init program, is found whole.                    *)
ReadsBack == ReadsStayInImage /\ FirstFileReadable

(* ramdisk.rs on its layout: "After names: File data (contiguous)", and on  *)
(* find_file: "The RamdiskFile if found".  Every embedded file is found by  *)
(* its name and holds what was embedded.                                    *)
EveryFileReadable ==
    Ready => \A i \in DOMAIN files :
        /\ Lookup(files[i].name) = i
        /\ read_file(file_entries[i], Len(files[i].data)) = files[i].data

=============================================================================
