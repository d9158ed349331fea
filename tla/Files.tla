------------------------------- MODULE Files -------------------------------
(***************************************************************************)
(* Descriptors, open files and the references they hold: the calls of      *)
(* os/SyscallFile.cpp, the VfsManager of fs/vfs/vfs.cpp, and what fork and *)
(* exit do to descriptors.                                                 *)
(*                                                                         *)
(* A call that touches only the caller's descriptors and reference counts  *)
(* is one step: a process has one thread, and the counts change with       *)
(* interrupts off on the only hart that runs tasks.  Offsets, read and     *)
(* write are in FileIo.                                                    *)
(***************************************************************************)
EXTENDS Integers, FiniteSetsExt, Sequences

CONSTANTS
    Procs, First,  \* the processes, and the one that runs from the start
    None,
    NOFILE,        \* descriptors of a process
    NFILE,         \* registerFileHandle refuses descriptors above this one
    MaxFile,       \* struct file objects at a time (memory)
    MaxRef,        \* bound on the references to a file
    MaxMore,       \* bound on the references to an inode, beyond the first ones
    Creates,       \* the paths opened with O_CREATE, each with the directory it starts from
    BadBuffer      \* some calls give a buffer that is not mapped

ASSUME FilesAssumption ==
    /\ IsFiniteSet(Procs) /\ First \in Procs
    /\ NOFILE \in Nat /\ NFILE \in Nat /\ NFILE < NOFILE
    /\ MaxFile \in Nat /\ MaxRef \in Nat /\ MaxMore \in Nat
    /\ BadBuffer \in BOOLEAN

\* The root, a directory of it that another file system is mounted on, the
\* root of that file system and its only file, and a file of the root.
Inodes == {"root", "dev", "devroot", "tty", "a"}
Dirs   == {"root", "dev", "devroot"}
Mount  == {<<"dev", "devroot">>}
Paths  == {<<"a">>, <<"dev", "tty">>, <<"a", "tty">>, <<"dev", "a">>}

\* After boot: the root has its own reference, root_, dev's and the cwd of First.
FirstRefs(i) == CASE i = "root" -> 4 [] i = "devroot" -> 3 [] i = "a" -> 0 [] OTHER -> 1

Fds     == 0 .. NOFILE - 1
FileIds == 1 .. MaxFile
PipeIds == 1 .. MaxFile

\* struct file
FileObjects ==
    [ref : Nat \ {0}, pipe : PipeIds \cup {None}, ends : SUBSET {"r", "w"},
     inode : Inodes \cup {None}]

ASSUME NoneAssumption == None \notin Nat \cup Inodes \cup FileObjects

VARIABLES
    fd,        \* openFiles of each process
    alive,     \* the processes that run
    file,      \* the objects that descriptors point to, or None
    pipe,      \* the open ends of each pipe
    iref,      \* inode::ref; 0: the inode is not in memory
    created,   \* whether the root has the entry "a"
    panicked

vars == <<fd, alive, file, pipe, iref, created, panicked>>

TypeOK ==
    /\ fd \in [Procs -> [Fds -> FileIds \cup {None}]]
    /\ alive \subseteq Procs
    /\ file \in [FileIds -> FileObjects \cup {None}]
    /\ pipe \in [PipeIds -> SUBSET {"r", "w"}]
    /\ iref \in [Inodes -> Int]
    /\ created \in BOOLEAN /\ panicked \in BOOLEAN

-----------------------------------------------------------------------------
(* Inodes and paths.                                                       *)

Entries == {<<"root", "dev", "dev">>, <<"devroot", "tty", "tty">>}
           \cup (IF created THEN {<<"root", "a", "a">>} ELSE {})

\* inode::dup, and the inode built for an entry that was not in memory, which
\* keeps a reference to its directory.
Get(r, i, dir) ==
    IF r[i] = 0 THEN [r EXCEPT ![i] = 1, ![dir] = r[dir] + 1]
    ELSE [r EXCEPT ![i] = @ + 1]

\* inode::free
Put(r, i) == [r EXCEPT ![i] = @ - 1]

ConvertInodeByMp(i) ==
    IF \E m \in Mount : m[1] = i THEN (CHOOSE m \in Mount : m[1] = i)[2] ELSE i

\* Mutant: the root of a mounted file system is not counted.
Step_NoDup(s, n) ==
    LET e == {x \in Entries : x[1] = s.ip /\ x[2] = n}
    IN IF s.ip = None THEN s
       ELSE IF e = {} THEN [ip |-> None, r |-> Put(s.r, s.ip)]
       ELSE LET next == (CHOOSE x \in e : TRUE)[3]
                got  == Put(Get(s.r, next, s.ip), s.ip)
            IN [ip |-> ConvertInodeByMp(next),
                r  |-> IF ConvertInodeByMp(next) = next THEN got ELSE Put(got, next)]

\* One turn of namex: s.ip gives way to its entry n.  next is looked up, the
\* directory freed, and next exchanged for what is mounted on it.
Step(s, n) ==
    LET e == {x \in Entries : x[1] = s.ip /\ x[2] = n}
    IN IF s.ip = None THEN s
       ELSE IF e = {} THEN [ip |-> None, r |-> Put(s.r, s.ip)]
       ELSE LET next == (CHOOSE x \in e : TRUE)[3]
                got  == Put(Get(s.r, next, s.ip), s.ip)
            IN [ip |-> ConvertInodeByMp(next),
                r  |-> IF ConvertInodeByMp(next) = next THEN got
                       ELSE Get(Put(got, next), ConvertInodeByMp(next), next)]

\* The state of namex after k elements of the path.
namex(r, ip, path, k) ==
    LET w[i \in 0 .. k] == IF i = 0 THEN [ip |-> ip, r |-> r] ELSE Step(w[i - 1], path[i])
    IN w[k]

\* VfsManager::openat: the inode and the references when it is done.  For
\* O_CREATE nameiparent's result is dropped, and the last element is created
\* and looked up in the directory the path starts from.
Lookup(dp, path, create) ==
    LET r0   == [iref EXCEPT ![dp] = @ + 1]
        up   == namex(r0, dp, path, Len(path) - 1)
        left == IF up.ip \in Dirs \cup {None} THEN up.r ELSE Put(up.r, up.ip)
    IN IF ~create THEN namex(r0, dp, path, Len(path))
       ELSE IF path[Len(path)] = "a" /\ dp = "root"
            THEN [ip |-> "a", r |-> Put(Get(left, "a", "root"), dp)]
            ELSE namex(left, dp, <<path[Len(path)]>>, 1)

-----------------------------------------------------------------------------
(* Open files.                                                             *)

\* getFileByfd accepts NOFILE too: the word after the table is not a file.
getFileByfd(p, n) == IF n \in Fds THEN fd[p][n] ELSE None

Free(t) == {n \in Fds : t[n] = None}

\* registerFileHandle(fp): the lowest free descriptor.
Register(t, f) == [t EXCEPT ![Min(Free(t))] = f]

State == [file |-> file, pipe |-> pipe, iref |-> iref]

Dup(s, f) == [s EXCEPT !.file[f].ref = @ + 1]

\* The last reference is gone: the object, and its end of the pipe.
Drop(s, f) == [s EXCEPT !.file[f] = None,
                        !.pipe = IF s.file[f].pipe = None THEN s.pipe
                                 ELSE [s.pipe EXCEPT ![s.file[f].pipe] = @ \ s.file[f].ends]]

\* VfsManager::close
Close(s, f) ==
    IF s.file[f].ref > 1 THEN [s EXCEPT !.file[f].ref = @ - 1]
    ELSE IF s.file[f].inode # None
    THEN [Drop(s, f) EXCEPT !.iref = Put(@, s.file[f].inode)] ELSE Drop(s, f)

\* The close of fs/vfs/Vfs.cpp, which exit calls: it knows no inodes.
OldClose(s, f) == IF s.file[f].ref > 1 THEN [s EXCEPT !.file[f].ref = @ - 1] ELSE Drop(s, f)

Keep(s) == file' = s.file /\ pipe' = s.pipe /\ iref' = s.iref

Panic ==
    /\ panicked' = TRUE
    /\ UNCHANGED <<fd, alive, file, pipe, iref, created>>

NewFile == Min({f \in FileIds : file[f] = None})
NewPipe == Min({q \in PipeIds : pipe[q] = {}})
Room(k) == Cardinality({f \in FileIds : file[f] = None}) >= k

Ready(p) == p \in alive /\ ~panicked

InodeFile(i) == [ref |-> 1, pipe |-> None, ends |-> {}, inode |-> i]
PipeFile(q, e) == [ref |-> 1, pipe |-> q, ends |-> {e}, inode |-> None]

-----------------------------------------------------------------------------
(* The calls.                                                              *)

Init ==
    /\ fd = [p \in Procs |-> [n \in Fds |-> None]]
    /\ alive = {First}
    /\ file = [f \in FileIds |-> None]
    /\ pipe = [q \in PipeIds |-> {}]
    /\ iref = [i \in Inodes |-> FirstRefs(i)]
    /\ created = FALSE
    /\ panicked = FALSE

\* The directory a path is looked up from: the descriptor's, or the working
\* directory, which is the root: sys_chdir changes only a string.
StartDir(p, n) ==
    IF getFileByfd(p, n) = None THEN "root" ELSE file[getFileByfd(p, n)].inode

\* What the calls that open a file have in common; l is what Lookup finds.
Opening(p, dp, path, create, l) ==
    /\ Ready(p) /\ Room(1)
    /\ dp # None
    /\ create => <<dp, path>> \in Creates
    /\ \A i \in Inodes : l.r[i] <= FirstRefs(i) + MaxMore
    /\ created' = (created \/ (create /\ dp = "root" /\ path[Len(path)] = "a"))
    /\ panicked' = \E i \in Inodes : l.r[i] < 0
    /\ UNCHANGED <<alive, pipe>>

\* The descriptor is a pipe's: its file has no inode to start from, and the
\* null pointer is dereferenced.
NoStart(p, n) == Ready(p) /\ StartDir(p, n) = None /\ Panic

\* registerFileHandle finds no free descriptor for the file.
TableFull(p, n, path, create) ==
    /\ Ready(p) /\ StartDir(p, n) # None
    /\ Free(fd[p]) = {}
    /\ Lookup(StartDir(p, n), path, create).ip # None
    /\ Panic

OpenFile(p, n, path, create) ==
    LET dp == StartDir(p, n)
        l  == Lookup(dp, path, create)
    IN /\ Opening(p, dp, path, create, l)
       /\ iref' = l.r
       /\ IF l.ip = None THEN UNCHANGED <<fd, file>>
          ELSE /\ Free(fd[p]) # {}
               /\ fd' = [fd EXCEPT ![p] = Register(@, NewFile)]
               /\ file' = [file EXCEPT ![NewFile] = InodeFile(l.ip)]

\* sys_open (no directory), sys_openat
sys_openat(p, n, path, create) ==
    OpenFile(p, n, path, create) \/ TableFull(p, n, path, create) \/ NoStart(p, n)

CheckFile(p, n, path) ==
    LET dp == StartDir(p, n)
        l  == Lookup(dp, path, FALSE)
    IN /\ Opening(p, dp, path, FALSE, l)
       /\ iref' = IF l.ip = None THEN l.r ELSE Put(l.r, l.ip)
       /\ UNCHANGED <<fd, file>>

\* sys_faccessat, sys_fstatat: the file is closed again.
sys_faccessat(p, n, path) == CheckFile(p, n, path) \/ NoStart(p, n)

\* A descriptor that is not open: the null pointer is dereferenced.
sys_close(p, n) ==
    LET f == getFileByfd(p, n)
    IN /\ Ready(p)
       /\ IF f = None THEN Panic
          ELSE /\ Keep(Close(State, f))
               /\ fd' = [fd EXCEPT ![p][n] = None]
               /\ UNCHANGED <<alive, created, panicked>>

sys_dup(p, n) ==
    LET f == getFileByfd(p, n)
    IN /\ Ready(p)
       /\ f # None
       /\ IF Free(fd[p]) = {} THEN Panic
          ELSE /\ file[f].ref < MaxRef
               /\ Keep(Dup(State, f))
               /\ fd' = [fd EXCEPT ![p] = Register(@, f)]
               /\ UNCHANGED <<alive, created, panicked>>

\* dup, close of what newfd holds, registration, and close when that fails.
sys_dup3(p, n, m) ==
    LET f == getFileByfd(p, n)
        s == Dup(State, f)
        t == IF fd[p][m] # None THEN Close(s, fd[p][m]) ELSE s
    IN /\ Ready(p)
       /\ IF f = None \/ m \notin Fds THEN Panic
          ELSE /\ file[f].ref < MaxRef
               /\ Keep(IF m > NFILE THEN Close(t, f) ELSE t)
               /\ fd' = [fd EXCEPT ![p][m] = IF m > NFILE THEN None ELSE f]
               /\ UNCHANGED <<alive, created, panicked>>

\* F_DUPFD: the first free descriptor from m on.  When it is above NFILE the
\* registration fails and the reference stays.
sys_fcntl(p, n, m) ==
    LET f == getFileByfd(p, n)
        c == {k \in Free(fd[p]) : k >= m}
    IN /\ Ready(p)
       /\ IF f = None \/ c = {} THEN Panic
          ELSE /\ file[f].ref < MaxRef
               /\ Keep(Dup(State, f))
               /\ fd' = IF Min(c) > NFILE THEN fd ELSE [fd EXCEPT ![p][Min(c)] = f]
               /\ UNCHANGED <<alive, created, panicked>>

\* VfsManager::createPipe.  When the descriptors cannot be copied out both
\* files are closed, and their descriptors stay.
sys_pipe(p) ==
    LET f0 == NewFile
        f1 == Min({f \in FileIds \ {f0} : file[f] = None})
        s  == [State EXCEPT !.file[f0] = PipeFile(NewPipe, "r"),
                            !.file[f1] = PipeFile(NewPipe, "w"),
                            !.pipe[NewPipe] = {"r", "w"}]
    IN /\ Ready(p) /\ Room(2)
       /\ IF Cardinality(Free(fd[p])) < 2 THEN Panic
          ELSE \E bad \in IF BadBuffer THEN BOOLEAN ELSE {FALSE} :
               /\ Keep(IF bad THEN Close(Close(s, f0), f1) ELSE s)
               /\ fd' = [fd EXCEPT ![p] = Register(Register(@, f0), f1)]
               /\ UNCHANGED <<alive, created, panicked>>

Count(t, f) == Cardinality({n \in Fds : t[n] = f})

\* Mutant: the child shares the files without counting itself.
fork_NoDup(p, q) ==
    /\ Ready(p) /\ q \notin alive
    /\ alive' = alive \cup {q}
    /\ fd' = [fd EXCEPT ![q] = fd[p]]
    /\ iref' = [iref EXCEPT !["root"] = @ + 1]
    /\ UNCHANGED <<file, pipe, created, panicked>>

\* fork and clone, of the files: every descriptor is dup'ed, and the working
\* directory.
fork(p, q) ==
    /\ Ready(p) /\ q \notin alive
    /\ iref["root"] < FirstRefs("root") + MaxMore
    /\ alive' = alive \cup {q}
    /\ fd' = [fd EXCEPT ![q] = fd[p]]
    /\ file' = [f \in FileIds |-> IF file[f] = None THEN None
                                  ELSE [file[f] EXCEPT !.ref = @ + Count(fd[p], f)]]
    /\ iref' = [iref EXCEPT !["root"] = @ + 1]
    /\ UNCHANGED <<pipe, created, panicked>>

\* exit, of the files: every descriptor is closed in turn.  The references
\* of the inodes and of the working directory stay.
exit(p) ==
    LET c[n \in 0 .. NOFILE] ==
          IF n = 0 THEN State
          ELSE IF fd[p][n - 1] = None THEN c[n - 1] ELSE OldClose(c[n - 1], fd[p][n - 1])
    IN /\ Ready(p) /\ p # First
       /\ Keep(c[NOFILE])
       /\ fd' = [fd EXCEPT ![p] = [n \in Fds |-> None]]
       /\ alive' = alive \ {p}
       /\ UNCHANGED <<created, panicked>>

Next == \E p \in Procs :
    \/ \E n \in Fds \cup {-1}, path \in Paths, create \in BOOLEAN :
         sys_openat(p, n, path, create)
    \/ \E n \in Fds \cup {-1}, path \in Paths : sys_faccessat(p, n, path)
    \/ \E n \in Fds : sys_close(p, n) \/ sys_dup(p, n)
    \/ \E n, m \in Fds : sys_dup3(p, n, m) \/ sys_fcntl(p, n, m)
    \/ sys_pipe(p)
    \/ \E q \in Procs : fork(p, q)
    \/ exit(p)

Spec == Init /\ [][Next]_vars

-----------------------------------------------------------------------------
(* Properties.                                                             *)

Holders(f) == {x \in Procs \X Fds : fd[x[1]][x[2]] = f}

\* Every descriptor of every process points to an object that exists, and the
\* object counts at least the descriptors that point to it: no order of dup,
\* dup3, fcntl, fork, close and exit frees a file that can still be used.
RefsCover ==
    \A f \in FileIds : Holders(f) # {} =>
        file[f] # None /\ file[f].ref >= Cardinality(Holders(f))

\* An end of a pipe is open exactly as long as a file object is that end: a
\* reader sees the end of the data, and a writer the closed pipe, neither
\* before nor after the last of the other side closes or exits.
PipeEndsHeld ==
    \A q \in PipeIds : pipe[q] = UNION {file[f].ends : f \in {g \in FileIds :
                                          file[g] # None /\ file[g].pipe = q}}

\* What every descriptor of every process relies on: its object lives, and the
\* end of the pipe behind it is open.
HandlesHeld == TypeOK /\ RefsCover /\ PipeEndsHeld

\* An inode counts at least the files that are open on it, the processes that
\* work in it and the file system's own reference: it is not deleted while one
\* of them can still reach it.
InodesHeld ==
    \A i \in Inodes :
        iref[i] >= Cardinality({f \in FileIds : file[f] # None /\ file[f].inode = i})
                   + (IF i = "root" THEN 1 + Cardinality(alive) ELSE 0)
=============================================================================
