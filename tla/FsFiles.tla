------------------------------- MODULE FsFiles -------------------------------
(***************************************************************************)
(* FS.cpp and vfs_api.cpp: files and directories of a mounted file system, *)
(* and File objects that read and write them through stdio's buffer.  A    *)
(* file is its length.  An object knows the size from a stat(): of the     *)
(* constructor, and again after a write.                                   *)
(***************************************************************************)
EXTENDS Integers

CONSTANTS
    Paths,          \* valid ones, beginning with "/"
    Objects,        \* VFSFileImpl objects
    MaxLength       \* bound: the length of a file

Absent == -1
Garbage == -2       \* a field of _stat nobody has set

VARIABLES
    files, dirs,    \* the file system: each path's length; the directories
    file,           \* each object: [path, kind, mode, pos, held, written, stat, fooled]
    unlisted        \* what each directory's readdir() has still to tell

fsVars == <<files, dirs, file, unlisted>>

Closed == [path |-> "", kind |-> "none", mode |-> "r", pos |-> 0, held |-> FALSE,
           written |-> FALSE, stat |-> Garbage, fooled |-> FALSE]
Exists(p) == files[p] # Absent \/ p \in dirs
InUse(p) == \E o \in Objects : file[o].path = p
MaxOf(a, b) == IF a > b THEN a ELSE b
Set(o, r) == file' = [file EXCEPT ![o] = r]

\* VFSImpl::open() and the constructor: its stat() comes before fopen(), which
\* truncates with "w"; a file that is created leaves _stat as it was.
Open(o, p, mode) ==
    LET len == files[p]
        found == len # Absent
        r == [Closed EXCEPT !.path = p, !.kind = "file", !.mode = mode]
    IN  /\ file[o] = Closed
        /\ \/ /\ p \notin dirs /\ (found \/ mode # "r")
              /\ files' = [files EXCEPT ![p] = IF ~found \/ mode = "w" THEN 0 ELSE len]
              /\ file' = [x \in Objects |->
                     IF x = o THEN [r EXCEPT !.stat = IF found THEN len ELSE Garbage,
                                             !.pos = IF mode = "a" THEN files'[p] ELSE 0,
                                             !.fooled = ~found \/ files'[p] # len]
                     ELSE [file[x] EXCEPT !.fooled = @ \/ (file[x].path = p /\ files'[p] # len)]]
              /\ UNCHANGED unlisted
           \/ /\ p \in dirs /\ Set(o, [r EXCEPT !.kind = "dir"])
              /\ unlisted' = [unlisted EXCEPT ![o] = {q \in Paths \ {p} : files[q] # Absent}]
              /\ UNCHANGED files
        /\ UNCHANGED dirs

\* What stdio holds reaches the file: a full buffer, flush(), fseek(), fclose().
Spilt(o) ==
    LET f == file[o]
    IN  IF f.held THEN MaxOf(files[f.path], f.pos) ELSE files[f.path]
Spill(o, r) ==
    /\ files' = [files EXCEPT ![file[o].path] = Spilt(o)]
    /\ file' = [x \in Objects |->
           IF x = o THEN r
           ELSE [file[x] EXCEPT !.fooled = @ \/ (file[x].path = file[o].path
                                                 /\ Spilt(o) # files[file[o].path])]]
    /\ UNCHANGED <<dirs, unlisted>>

IsFile(o) == file[o].kind = "file"
Write(o) ==
    LET f == file[o]
        at == IF f.mode = "a" /\ ~f.held THEN files[f.path] ELSE f.pos
    IN  /\ IsFile(o) /\ f.mode # "r" /\ at < MaxLength
        /\ Set(o, [f EXCEPT !.pos = at + 1, !.held = TRUE, !.written = TRUE])
        /\ UNCHANGED <<files, dirs, unlisted>>
Flush(o) == IsFile(o) /\ file[o].held /\ Spill(o, [file[o] EXCEPT !.held = FALSE])
Seek(o, n) ==
    /\ IsFile(o) /\ n <= Spilt(o)
    /\ Spill(o, [file[o] EXCEPT !.held = FALSE, !.pos = n])
\* read(); peek() reads and seeks back.
Read(o) ==
    /\ IsFile(o) /\ file[o].mode = "r" /\ file[o].pos < files[file[o].path]
    /\ Set(o, [file[o] EXCEPT !.pos = @ + 1])
    /\ UNCHANGED <<files, dirs, unlisted>>

\* size() looks again only after a write; getLastWrite() always.  It does not
\* see what stdio holds.
LookAgain(o) ==
    Set(o, [file[o] EXCEPT !.stat = files[file[o].path], !.written = FALSE,
                           !.fooled = file[o].held])
Size(o) ==
    /\ IsFile(o) /\ file[o].written /\ LookAgain(o)
    /\ UNCHANGED <<files, dirs, unlisted>>
GetLastWrite(o) == IsFile(o) /\ LookAgain(o) /\ UNCHANGED <<files, dirs, unlisted>>

Close(o) ==
    \/ IsFile(o) /\ Spill(o, Closed)
    \/ /\ file[o].kind = "dir" /\ Set(o, Closed)
       /\ unlisted' = [unlisted EXCEPT ![o] = {}]
       /\ UNCHANGED <<files, dirs>>

\* openNextFile() into object n, rewindDirectory().
OpenNextFile(o, n) ==
    /\ file[o].kind = "dir" /\ file[n] = Closed
    /\ \E q \in unlisted[o] :
          /\ unlisted' = [unlisted EXCEPT ![o] = @ \ {q}]
          /\ IF files[q] = Absent THEN UNCHANGED file
             ELSE Set(n, [Closed EXCEPT !.path = q, !.kind = "file", !.stat = files[q]])
    /\ UNCHANGED <<files, dirs>>
RewindDirectory(o) ==
    /\ file[o].kind = "dir"
    /\ unlisted' = [unlisted EXCEPT ![o] =
           {q \in Paths \ {file[o].path} : files[q] # Absent}]
    /\ UNCHANGED <<files, dirs, file>>

\* The program moves and removes what nobody has open.
Remove(p) ==
    /\ files[p] # Absent /\ ~InUse(p)
    /\ files' = [files EXCEPT ![p] = Absent]
    /\ UNCHANGED <<dirs, file, unlisted>>
Rename(p, q) ==
    /\ files[p] # Absent /\ ~Exists(q) /\ ~InUse(p)
    /\ files' = [files EXCEPT ![p] = Absent, ![q] = files[p]]
    /\ UNCHANGED <<dirs, file, unlisted>>
Mkdir(p) ==
    /\ ~Exists(p) /\ dirs' = dirs \cup {p}
    /\ UNCHANGED <<files, file, unlisted>>
Rmdir(p) ==         \* refused on SPIFFS
    /\ p \in dirs /\ ~InUse(p)
    /\ dirs' = dirs \ {p}
    /\ UNCHANGED <<files, file, unlisted>>

Restart ==
    /\ file' = [o \in Objects |-> Closed]
    /\ unlisted' = [o \in Objects |-> {}]
    /\ UNCHANGED <<files, dirs>>

Init ==
    /\ files = [p \in Paths |-> Absent] /\ dirs = {}
    /\ file = [o \in Objects |-> Closed]
    /\ unlisted = [o \in Objects |-> {}]

Next ==
    \/ \E o \in Objects :
          \/ Write(o) \/ Flush(o) \/ Read(o) \/ Size(o) \/ GetLastWrite(o) \/ Close(o)
          \/ RewindDirectory(o)
          \/ \E n \in 0 .. MaxLength : Seek(o, n)
          \/ \E p \in Paths, mode \in {"r", "w", "a"} : Open(o, p, mode)
          \/ \E n \in Objects : OpenNextFile(o, n)
    \/ \E p \in Paths : Remove(p) \/ Mkdir(p) \/ Rmdir(p) \/ \E q \in Paths : Rename(p, q)
    \/ Restart
Spec == Init /\ [][Next]_fsVars

-----------------------------------------------------------------------------
\* Every variable keeps its kind of value; a path is a file or a directory.
TypeOK ==
    /\ files \in [Paths -> Absent .. MaxLength] /\ dirs \subseteq Paths
    /\ \A p \in dirs : files[p] = Absent
    /\ \A o \in Objects :
          /\ file[o].kind \in {"none", "file", "dir"}
          /\ file[o].pos \in 0 .. MaxLength
          /\ file[o].stat \in Garbage .. MaxLength
          /\ IsFile(o) => files[file[o].path] # Absent

\* Once everything is flushed, size() tells the file's length, and available()
\* what is left of it, unless the object opened the file empty or made it and
\* has not looked again after a write, looked while stdio held bytes, or another
\* object changed the length.
SizeIsTrue ==
    \A o \in Objects :
        IsFile(o) /\ ~file[o].held /\ ~file[o].fooled =>
            LET size == IF file[o].written THEN files[file[o].path] ELSE file[o].stat
            IN  size = files[file[o].path]
=============================================================================
